----------------------------- MODULE ChatEvents -----------------------------
(***************************************************************************)
(* gateway/transport.py: chat_events decodes the provider's event stream.  *)
(* The bytes come in chunks cut anywhere.  A stream is a sequence of       *)
(* atoms: CR, LF and the content of a line, which counts as one byte and   *)
(* is a data line with an event the validators accept ("chunk"), one with  *)
(* JSON they refuse ("other"), one with half of an event ("half"; two of   *)
(* them joined by a newline make an event), one with [DONE] ("done"), or a *)
(* line that is no data line ("note").                                     *)
(*                                                                         *)
(* The decoder adds bytes at the end of its buffer and takes them out of   *)
(* it, so a buffer is the set of the positions in the stream of the bytes  *)
(* it holds, in their order.                                               *)
(***************************************************************************)
EXTENDS Naturals, Sequences, FiniteSets

CONSTANTS
    Texts,          \* what a provider may send
    Limit,          \* cfg.max_response: bytes of the whole stream
    BufferLimit     \* the 2 MiB of chat_events: bytes not yet decoded

Data == {"chunk", "other", "half", "done"}
Contents == Data \cup {"note"}

\* Lines end in LF or CR LF.
Lined(t) ==
    \A i \in 1..Len(t) :
       /\ t[i] \in Contents => i < Len(t) /\ t[i + 1] \in {"CR", "LF"}
       /\ t[i] = "CR" => i < Len(t) /\ t[i + 1] = "LF"

ASSUME ChatAssumption ==
    /\ {Limit, BufferLimit} \subseteq Nat
    /\ \A t \in Texts : t \in Seq(Contents \cup {"CR", "LF"}) /\ Lined(t)

VARIABLES
    text,       \* what the provider sends, if it is not interrupted
    total,      \* bytes received: the first ones of text
    accepted,   \* those of the chunks that passed the limits: a history variable
    buffer,     \* of chat_events
    out,        \* events yielded, [DONE] included: the data lines of each
    result      \* "run" while decoding, then how it ended

vars == <<text, total, accepted, buffer, out, result>>

Results == {"run", "done", "protocol", "too_large", "interrupted"}

Init ==
    /\ text \in Texts
    /\ total = 0 /\ accepted = 0
    /\ buffer = {}
    /\ out = <<>>
    /\ result = "run"

-----------------------------------------------------------------------------

\* Byte j comes right after byte i in b.
Follows(b, i, j) == i < j /\ \A k \in b : ~(i < k /\ k < j)

\* replace(b"\r\n", b"\n")
Replace(b) ==
    {i \in b : ~(text[i] = "CR" /\ \E j \in b : text[j] = "LF" /\ Follows(b, i, j))}

\* Where b"\n\n" ends in b
Ends(b) ==
    {j \in b : text[j] = "LF" /\ \E i \in b : text[i] = "LF" /\ Follows(b, i, j)}

\* The data lines of a frame
Values(frame) == {i \in frame : text[i] \in Data}

One(values, c) == \E i \in values : values = {i} /\ text[i] = c

Halves(values) ==
    \E i, j \in values : i # j /\ values = {i, j} /\ text[i] = "half" /\ text[j] = "half"

\* strict_json of the joined data lines does not raise.
StrictJson(values) == One(values, "chunk") \/ One(values, "other") \/ Halves(values)

\* Mutant of Valid: any JSON is passed on.
ValidIfJson(values) == values # {}

\* validate_completion: an error, another object, or fields of the wrong shape
\* are refused.
Valid(values) == ~One(values, "other")

\* Mutant of Joined: line ends are replaced before a chunk is joined.
JoinedReplaced(b, chunk) == b \cup Replace(chunk)

Joined(b, chunk) == Replace(b \cup chunk)

-----------------------------------------------------------------------------

\* Mutant of TooLarge: the whole stream is held against the limit of the buffer.
TooLargeInAll(n) == total + n > Limit \/ total + n > BufferLimit

TooLarge(n) == total + n > Limit \/ Cardinality(buffer) + n > BufferLimit

\* The next n bytes arrive.
Receive(n) ==
    /\ result = "run"
    /\ Ends(buffer) = {}
    /\ total' = total + n
    /\ total' <= Len(text)
    /\ IF TooLarge(n)
       THEN result' = "too_large" /\ UNCHANGED <<accepted, buffer>>
       ELSE /\ buffer' = Joined(buffer, (total + 1)..total')
            /\ accepted' = total'
            /\ UNCHANGED result
    /\ UNCHANGED <<text, out>>

\* One turn of the inner loop, for the frame that ends first
Frame(j) ==
    LET values == Values({i \in buffer : i < j}) IN
    /\ result = "run"
    /\ j \in Ends(buffer)
    /\ \A k \in Ends(buffer) : j <= k
    /\ buffer' = {i \in buffer : i > j}
    /\ \/ values = {} /\ UNCHANGED <<out, result>>
       \/ One(values, "done") /\ out' = Append(out, values) /\ result' = "done"
       \/ /\ values # {} /\ ~One(values, "done")
          /\ IF StrictJson(values) /\ Valid(values)
             THEN out' = Append(out, values) /\ UNCHANGED result
             ELSE result' = "protocol" /\ UNCHANGED out
    /\ UNCHANGED <<text, total, accepted>>

\* The stream ends, by itself or because the provider goes away.
EndOfStream ==
    /\ result = "run"
    /\ Ends(buffer) = {}
    /\ result' = "interrupted"
    /\ UNCHANGED <<text, total, accepted, buffer, out>>

Next ==
    \/ \E n \in 1..Len(text) : Receive(n)
    \/ \E j \in Ends(buffer) : Frame(j)
    \/ EndOfStream

Spec == Init /\ [][Next]_vars

-----------------------------------------------------------------------------
(* What an event stream means, whatever it is cut into: a line ends in LF,  *)
(* a CR before it dropped, and a blank line dispatches the data lines since *)
(* the blank line before it.                                                *)

\* The LF of a line that is empty: nothing before it, or the LF of another line
Blank ==
    {i \in 1..Len(text) :
       /\ text[i] = "LF"
       /\ \/ i = 1
          \/ text[i - 1] = "LF"
          \/ text[i - 1] = "CR" /\ (i = 2 \/ text[i - 2] = "LF")}

DataOf(b) ==
    {i \in 1..(b - 1) : text[i] \in Data /\ \A c \in Blank : ~(i < c /\ c < b)}

Dispatched(n) == {b \in Blank : b <= n /\ DataOf(b) # {}}

IsChunk(values) == One(values, "chunk") \/ Halves(values)

\* The dispatches a client hears of: up to [DONE] or the first that is refused
Heard(n) ==
    {b \in Dispatched(n) :
       /\ IsChunk(DataOf(b)) \/ One(DataOf(b), "done")
       /\ \A c \in Dispatched(n) : c < b => IsChunk(DataOf(c))}

Meaning(n) == {DataOf(b) : b \in Heard(n)}

\* The bytes after the last event: the most that can wait to be decoded
Undecoded(n) == {i \in 1..n : \A b \in Dispatched(n) : b < i}

Yielded == {out[k] : k \in 1..Len(out)}

ChatTypeOK ==
    /\ text \in Seq(Contents \cup {"CR", "LF"})
    /\ total \in 0..Len(text)
    /\ accepted \in 0..total
    /\ buffer \subseteq 1..accepted
    /\ out \in Seq({v \in SUBSET (1..accepted) : IsChunk(v) \/ One(v, "done")})
    /\ result \in Results

(* However the bytes are cut into chunks, the client is sent the events of  *)
(* the stream, in order, none twice, none that the validators refuse and    *)
(* none after a refused one, and before the gateway waits for more bytes    *)
(* all of those that are complete.  It is told [DONE] if and only if the    *)
(* provider said so, and a stream is refused only for an event in it.       *)
(* Neither limit is ever passed, and a stream is cut off for its size only  *)
(* when its bytes pass the one or those after its last event pass the       *)
(* other: a long stream of short events is not.  Of the chunk that is too   *)
(* large nothing is decoded.                                                *)
DecodeFaithful ==
    /\ \A k, l \in 1..Len(out) : k < l => \A i \in out[k], j \in out[l] : i < j
    /\ Yielded \subseteq Meaning(accepted)
    /\ \A v \in Yielded, w \in Meaning(accepted) :
          w \notin Yielded => \A i \in v, j \in w : i < j
    /\ result # "run" \/ Ends(buffer) = {} => Yielded = Meaning(accepted)
    /\ result # "too_large"
         => (result = "done" <=> \E v \in Yielded : One(v, "done"))
    /\ result = "protocol"
         => \E b \in Dispatched(accepted) \ Heard(accepted) :
               \A c \in Dispatched(accepted) : c < b => IsChunk(DataOf(c))
    /\ result = "interrupted" => \A b \in Dispatched(total) : IsChunk(DataOf(b))
    /\ result # "too_large" => accepted = total
    /\ accepted <= Limit /\ Cardinality(buffer) <= BufferLimit
    /\ result = "too_large"
         => \/ total > Limit
            \/ Cardinality(Undecoded(accepted)) + (total - accepted) > BufferLimit
=============================================================================
