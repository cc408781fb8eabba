------------------------------ MODULE DnsMessage ------------------------------
(***************************************************************************)
(* Reading of a DNS message (DNSPacket.FromBytes, ReadDomain,              *)
(* Question.kt, Resource.kt, DNSHeader.kt), byte by byte.  DnsProxy takes  *)
(* from it only whether it succeeds: a reply that cannot be read is        *)
(* dropped, a query that cannot be read ends VpnThread.                    *)
(*                                                                         *)
(* The messages tried are well formed, or cut short: a question, a record  *)
(* whose data hold a chain of names, each a label and a pointer to the     *)
(* one before, and a record whose name is a pointer to the last of them.   *)
(***************************************************************************)
EXTENDS Integers, Sequences

CONSTANTS
    ARRAY,     \* size of the array that holds the packet (UDPProxyServer.kt:22)
    OFFSET,    \* where the message begins in it, behind the headers
    MAX_SIZE,  \* longest message that is read
    Place,     \* where in a message the names of the chain may be
    DataSize,  \* sizes tried for the data of the first record
    Cut,       \* how many bytes may be missing at the end
    MaxNames   \* bound: names in the chain

\* The code's sizes are 2000, 28 and 512; a message has 42 bytes besides the data.
ASSUME MessageAssumption ==
    /\ OFFSET \in Nat /\ MAX_SIZE \in Nat /\ MAX_SIZE <= 512
    /\ ARRAY \in Nat /\ 4 * OFFSET + 3 * MAX_SIZE <= ARRAY
    /\ Place \subseteq Nat /\ Cut \subseteq Nat /\ MaxNames \in Nat
    /\ DataSize \subseteq Nat /\ \A size \in DataSize : 42 + size <= MAX_SIZE

VARIABLES
    message,   \* the bytes, from 0
    chain,     \* where the names of the chain are, the first of them without a pointer
    cut,
    reading,   \* what is read next, or "read", "null" or "throws"
    questions, \* questions that are left
    records,   \* records that are left
    buffer, pos,
    length,    \* of a label, or the beginning of a pointer
    sb,        \* the labels of the name so far
    back,      \* where reading goes on behind the name, once a pointer is followed; or 0
    domains    \* the names that have been read

input == <<message, chain, cut>>
messageVars ==
    <<input, reading, questions, records, buffer, pos, length, sb, back, domains>>

-----------------------------------------------------------------------------
(* A ByteBuffer has an end in the array, and the number that limit() gives: *)
(* the first buffer is a slice of the array, and counts from OFFSET, but    *)
(* one that wrap makes counts from 0.                                       *)

Slice == [end |-> OFFSET + Len(message), limit |-> Len(message)]

\* What the array holds: nothing behind the message.
ByteGet(i) == IF i - OFFSET < Len(message) THEN message[i - OFFSET + 1] ELSE 0

GetShort(i) == 256 * ByteGet(i) + ByteGet(i + 1)

hasRemaining == pos < buffer.end

\* A buffer throws: there are fewer bytes than are asked for.
Throws ==
    /\ reading' = "throws"
    /\ UNCHANGED <<questions, records, buffer, pos, length, sb, back, domains>>

\* The counts of the header, as the Shorts that are compared.
Count(i) == LET n == GetShort(OFFSET + i) IN IF n < 32768 THEN n ELSE n - 65536

\* FromBytes refuses a message by its length or counts.
Refused ==
    \/ Len(message) < 12 \/ Len(message) > MAX_SIZE
    \/ Count(4) > 2 \/ \E i \in {6, 8, 10} : Count(i) > 50

\* Questions and records are read one after the other.
Following(qs, rs) == IF qs = 0 /\ rs = 0 THEN "read" ELSE "domain"

FromBytes ==
    /\ reading = "received"
    /\ questions' = Count(4) /\ records' = Count(6) + Count(8) + Count(10)
    /\ pos' = OFFSET + 12
    /\ reading' = IF Refused THEN "null"
                  ELSE IF \E i \in {4, 6, 8, 10} : Count(i) < 0 THEN "throws"
                  ELSE Following(questions', records')
    /\ UNCHANGED <<buffer, length, sb, back, domains>>

ReadDomain ==
    /\ reading = "domain"
    /\ IF hasRemaining
       THEN /\ reading' = "labels" /\ length' = ByteGet(pos) /\ pos' = pos + 1
            /\ UNCHANGED <<questions, records, buffer, sb, back, domains>>
       ELSE Throws

ReadLabel ==
    /\ reading = "labels" /\ hasRemaining /\ 0 < length /\ length < 192
    /\ IF pos + length < buffer.end
       THEN /\ sb' = Append(sb, [i \in 1..length |-> ByteGet(pos + i - 1)])
            /\ length' = ByteGet(pos + length) /\ pos' = pos + length + 1
            /\ UNCHANGED <<reading, questions, records, buffer, back, domains>>
       ELSE Throws

\* ByteBuffer.wrap at p: as many bytes are asked for as there are up to the limit
\* of the buffer that held the pointer.
Wrap(p) ==
    IF p + OFFSET + buffer.limit > ARRAY THEN Throws
    ELSE /\ reading' = "domain" /\ pos' = p
         /\ buffer' = [end |-> p + OFFSET + buffer.limit, limit |-> p + OFFSET + buffer.limit]
         /\ back' = IF back = 0 THEN pos + 1 ELSE back
         /\ UNCHANGED <<questions, records, length, sb, domains>>

\* Mutant: the high bits of a pointer are dropped.
ReadPointer_LowByte ==
    /\ reading = "labels" /\ hasRemaining /\ length >= 192
    /\ Wrap(OFFSET + ByteGet(pos))

\* The rest of the name is read at the pointer.
ReadPointer ==
    /\ reading = "labels" /\ hasRemaining /\ length >= 192
    /\ Wrap(OFFSET + (length % 64) * 256 + ByteGet(pos))

\* The calls of ReadDomain return, one inside the other, and reading goes on behind
\* the first pointer.
EndOfName ==
    /\ reading = "labels" /\ (length = 0 \/ ~hasRemaining)
    /\ reading' = "fields" /\ domains' = Append(domains, sb) /\ sb' = <<>>
    /\ pos' = (IF back = 0 THEN pos ELSE back) /\ back' = 0 /\ buffer' = Slice
    /\ UNCHANGED <<questions, records, length>>

\* A question has a type and a class behind its name.
Question_FromBytes ==
    /\ reading = "fields" /\ questions > 0
    /\ IF pos + 4 > buffer.end THEN Throws
       ELSE /\ questions' = questions - 1 /\ reading' = Following(questions', records)
            /\ pos' = pos + 4
            /\ UNCHANGED <<records, buffer, length, sb, back, domains>>

\* A record has a type, a class, a time to live and a length, then its data.
Resource_FromBytes ==
    /\ reading = "fields" /\ questions = 0
    /\ IF pos + 10 > buffer.end \/ pos + 10 + GetShort(pos + 8) > buffer.end THEN Throws
       ELSE /\ records' = records - 1 /\ reading' = Following(questions, records')
            /\ pos' = pos + 10 + GetShort(pos + 8)
            /\ UNCHANGED <<questions, buffer, length, sb, back, domains>>

-----------------------------------------------------------------------------
(* External: the messages tried *)

DATA == 30

\* The pointer to the k-th name, and the bytes of that name.  Its label is k.
Pointer(at, k) == <<192 + (at[k] \div 256), at[k] % 256>>

Name(at, k) ==
    IF k = 1 THEN <<1, 1, 0, 63>>
    ELSE <<1, k, Pointer(at, k - 1)[1], Pointer(at, k - 1)[2]>>

\* The data of the first record: the names of the chain, and something between them.
Data(at, i) ==
    IF \E k \in 1..Len(at) : i - at[k] \in 0..3
    THEN LET k == CHOOSE k \in 1..Len(at) : i - at[k] \in 0..3 IN Name(at, k)[i - at[k] + 1]
    ELSE 63

Question == <<1, 97, 0, 0, 1, 0, 1>>

\* What is behind the name of a record with so many bytes of data.
Fields(size) == <<0, 1, 0, 1, 0, 0, 0, 0, size \div 256, size % 256>>

\* A header with one question and one record in each of two sections; the question
\* for the name 97; a record of the root, with the data; and one of the last name.
Layout(at, size, i) ==
    CASE i < 12 -> IF i \in {5, 7, 11} THEN 1 ELSE 0
      [] i >= 12 /\ i < 19 -> Question[i - 11]
      [] i = 19 -> 0
      [] i >= 20 /\ i < DATA -> Fields(size)[i - 19]
      [] i >= DATA /\ i < DATA + size -> Data(at, i)
      [] i >= DATA + size /\ i < DATA + size + 2 -> Pointer(at, Len(at))[i - DATA - size + 1]
      [] OTHER -> Fields(0)[i - DATA - size - 1]

\* The names of a chain follow one another in the data of the first record.
Chains(size) ==
    {at \in UNION {[1..k -> Place] : k \in 1..MaxNames} :
        /\ \A j, k \in 1..Len(at) : j < k => at[j] + 4 <= at[k]
        /\ \A k \in 1..Len(at) : DATA <= at[k] /\ at[k] + 4 <= DATA + size}

Received(size) ==
    /\ chain \in Chains(size) /\ cut \in Cut /\ cut <= 42 + size
    /\ message = [i \in 1..42 + size - cut |-> Layout(chain, size, i - 1)]

MessageInit ==
    /\ \E size \in DataSize : Received(size)
    /\ reading = "received" /\ questions = 0 /\ records = 0
    /\ buffer = Slice /\ pos = OFFSET
    /\ length = 0 /\ sb = <<>> /\ back = 0 /\ domains = <<>>

ReadNext ==
    \/ FromBytes \/ ReadDomain \/ ReadLabel \/ ReadPointer \/ EndOfName
    \/ Question_FromBytes \/ Resource_FromBytes

MessageNext == ReadNext /\ UNCHANGED input

MessageSpec == MessageInit /\ [][MessageNext]_messageVars

-----------------------------------------------------------------------------
(* Properties *)

\* The labels of the last n names of the chain, from its end.
Labels(n) == [i \in 1..n |-> <<Len(chain) + 1 - i>>]

\* The names as they were meant: the question's, the root, the chain from its end.
Domains == <<<< <<97>> >>, <<>>, Labels(Len(chain))>>

\* What is read is right: every name is spelled out across its pointers, reading
\* goes on behind the first pointer (DNSPacket.kt:172), and stops at the end of
\* the message.
ReadIsRight == reading = "read" => domains = Domains /\ pos = OFFSET + Len(message)

\* A whole message is read when its names follow no more than two pointers.  The
\* limit of the buffer that wrap makes is added to at every pointer
\* (DNSPacket.kt:169), so that a longer chain may ask for more than the array
\* has: ByteBuffer.wrap throws, and the reply is dropped.
ShortChainsAreRead == cut = 0 /\ Len(chain) <= 2 => reading \notin {"null", "throws"}

\* A message that lacks even its last byte is never taken for whole: a length
\* that points behind the end makes the buffer throw (Resource.kt:41).
CutIsRefused == cut > 0 => reading # "read"

\* What FromBytes reads is right: names across their pointers, and the place
\* where reading stops (DNSPacket.kt:172).  A whole message is read when its names
\* follow no more than two pointers (DNSPacket.kt:169); one that lacks even its
\* last byte is never taken for whole (Resource.kt:41).
MessagesAreReadRight == ReadIsRight /\ ShortChainsAreRead /\ CutIsRefused
==============================================================================
