----------------------------- MODULE ChatProofs -----------------------------
(***************************************************************************)
(* chat_events yields what the stream means, for every stream, every cut   *)
(* into chunks and all limits.                                             *)
(***************************************************************************)
EXTENDS ChatEvents, TLAPS, FiniteSetTheorems, SequenceTheorems

-----------------------------------------------------------------------------
(* The inductive invariant: p is the last byte taken out of the buffer.     *)

\* The bytes after p are in the buffer, without a CR whose LF has come.
Kept(p, n) == {i \in (p + 1)..n : text[i] # "CR" \/ i = n}

AllChunks(n) == \A b \in Dispatched(n) : IsChunk(DataOf(b))

\* Frame b is the first that is no event of a completion.
Stops(b, n) ==
    /\ b \in Dispatched(n) /\ ~IsChunk(DataOf(b))
    /\ \A c \in Dispatched(n) : c < b => IsChunk(DataOf(c))

DecodedTo(p) ==
    /\ p = 0 \/ p \in Blank
    /\ Yielded = Meaning(p)
    /\ result = "run" => buffer = Kept(p, accepted)
    /\ result \in {"run", "interrupted", "too_large"} => AllChunks(p)
    /\ result = "done" => \E b \in Blank : Stops(b, p) /\ One(DataOf(b), "done")
    /\ result = "protocol" => \E b \in Blank : Stops(b, p) /\ ~One(DataOf(b), "done")
    /\ result \in {"interrupted", "too_large"} => Dispatched(accepted) = Dispatched(p)

InOrder == \A k, l \in 1..Len(out) : k < l => \A i \in out[k], j \in out[l] : i < j

\* What DecodeFaithful says of the two limits
Sized ==
    /\ result # "too_large" => accepted = total
    /\ accepted <= Limit /\ Cardinality(buffer) <= BufferLimit
    /\ result = "too_large"
         => \/ total > Limit
            \/ Cardinality(Undecoded(accepted)) + (total - accepted) > BufferLimit

ChatInv ==
    /\ ChatTypeOK /\ Lined(text)
    /\ InOrder
    /\ Sized
    /\ \E p \in 0..accepted : DecodedTo(p)

-----------------------------------------------------------------------------
(* Streams. *)

\* The stream does not change, and neither does its meaning.
LEMMA Fixed ==
    ASSUME text' = text
    PROVE  /\ Blank' = Blank
           /\ \A b : DataOf(b)' = DataOf(b)
           /\ \A v, c : One(v, c)' <=> One(v, c)
           /\ \A v : IsChunk(v)' <=> IsChunk(v)
           /\ \A n : Dispatched(n)' = Dispatched(n)
           /\ \A n : Meaning(n)' = Meaning(n)
           /\ \A n : AllChunks(n)' <=> AllChunks(n)
           /\ \A b, n : Stops(b, n)' <=> Stops(b, n)
           /\ \A n : Undecoded(n)' = Undecoded(n)
<1>1. Blank' = Blank
  BY DEF Blank
<1>2. \A b : DataOf(b)' = DataOf(b)
  BY <1>1 DEF DataOf
<1>3. \A v, c : One(v, c)' <=> One(v, c)
  BY DEF One
<1>4. \A v : IsChunk(v)' <=> IsChunk(v)
  BY <1>3 DEF IsChunk, Halves
<1>5. \A n : Dispatched(n)' = Dispatched(n)
  BY <1>1, <1>2 DEF Dispatched
<1>6. \A n : Heard(n)' = Heard(n)
  BY <1>2, <1>3, <1>4, <1>5 DEF Heard
<1>7. \A n : Meaning(n)' = Meaning(n)
  BY <1>2, <1>6 DEF Meaning
<1>8. \A n : AllChunks(n)' <=> AllChunks(n)
  BY <1>2, <1>4, <1>5 DEF AllChunks
<1>9. \A b, n : Stops(b, n)' <=> Stops(b, n)
  BY <1>2, <1>4, <1>5 DEF Stops
<1>10. \A n : Undecoded(n)' = Undecoded(n)
  BY <1>5 DEF Undecoded
<1> QED
  BY <1>1, <1>2, <1>3, <1>4, <1>5, <1>7, <1>8, <1>9, <1>10

\* A blank line separates the data before it from the data after it.
LEMMA DataIsBetween ==
    ASSUME NEW b \in Blank, NEW p, p = 0 \/ p \in Blank, p < b
    PROVE  DataOf(b) = {i \in (p + 1)..(b - 1) : i \in DataOf(b)}
<1>1. b \in Nat /\ p \in Nat
  BY DEF Blank
<1>2. ASSUME NEW i \in DataOf(b) PROVE i \in (p + 1)..(b - 1)
  <2>1. i \in 1..(b - 1) /\ text[i] \in Data
    BY DEF DataOf
  <2>2. p \in Blank => ~(i < p) /\ text[p] = "LF"
    BY DEF DataOf, Blank
  <2>3. i # p
    BY <2>1, <2>2 DEF Data
  <2> QED
    BY <1>1, <2>1, <2>2, <2>3
<1> QED
  BY <1>2

\* Two LF are next to each other in the buffer when they are in the stream, but
\* for the CR of the second.
LEMMA FollowsIs ==
    ASSUME Lined(text), NEW p \in Nat, NEW n \in 0..Len(text), Len(text) \in Nat,
           NEW i \in Kept(p, n), NEW j \in Kept(p, n), text[i] = "LF"
    PROVE  Follows(Kept(p, n), i, j)
             => j = i + 1 \/ (j = i + 2 /\ text[i + 1] = "CR")
<1>1. SUFFICES ASSUME Follows(Kept(p, n), i, j), j # i + 1
               PROVE  j = i + 2 /\ text[i + 1] = "CR"
  OBVIOUS
<1>2. i \in (p + 1)..n /\ j \in (p + 1)..n /\ i < j
  BY <1>1 DEF Follows, Kept
<1>3. i + 1 \in (p + 1)..n /\ i + 1 # n /\ i + 1 < j
  BY <1>1, <1>2
<1>4. i + 1 \notin Kept(p, n)
  BY <1>1, <1>2, <1>3 DEF Follows
<1>5. text[i + 1] = "CR"
  BY <1>3, <1>4 DEF Kept
<1>6. text[i + 2] = "LF"
  BY <1>2, <1>3, <1>5 DEF Lined
<1>7. i + 2 \in Kept(p, n)
  BY <1>2, <1>3, <1>6 DEF Kept
<1>8. ~(i + 2 < j)
  BY <1>1, <1>2, <1>7 DEF Follows
<1> QED
  BY <1>2, <1>3, <1>5, <1>8

\* Where the decoder finds the end of a frame there is a blank line, and the first
\* frame has the data of that line.
LEMMA EndsAreBlank ==
    ASSUME Lined(text), NEW p \in Nat, NEW n \in 0..Len(text), Len(text) \in Nat,
           NEW j \in Ends(Kept(p, n))
    PROVE  j \in Blank /\ p < j /\ j <= n
<1>1. j \in Kept(p, n) /\ text[j] = "LF" /\ j \in (p + 1)..n
  BY DEF Ends, Kept
<1>2. PICK i \in Kept(p, n) : text[i] = "LF" /\ Follows(Kept(p, n), i, j)
  BY DEF Ends
<1>3. i \in (p + 1)..n
  BY DEF Kept
<1>4. j = i + 1 \/ (j = i + 2 /\ text[i + 1] = "CR")
  BY <1>1, <1>2, FollowsIs
<1> QED
  BY <1>1, <1>2, <1>3, <1>4 DEF Blank

\* A blank line that ends no frame has no data before it in the buffer: the LF
\* before it was taken out.
LEMMA NoEndNoData ==
    ASSUME Lined(text), NEW p \in Nat, NEW n \in 0..Len(text), Len(text) \in Nat,
           p = 0 \/ p \in Blank,
           NEW b \in Blank, p < b, b <= n, b \notin Ends(Kept(p, n))
    PROVE  \A i \in (p + 1)..(b - 1) : text[i] \notin Data
<1>1. SUFFICES ASSUME NEW i \in (p + 1)..(b - 1), text[i] \in Data PROVE FALSE
  OBVIOUS
<1>2. b \in 1..Len(text) /\ text[b] = "LF"
  BY DEF Blank
<1>3. i \in (p + 1)..(b - 1) /\ text[i] \in Data
  BY <1>1
<1>4. PICK q \in 1..(b - 1) : text[q] = "LF" /\ (b = q + 1 \/ (b = q + 2 /\ text[q + 1] = "CR"))
  <2>1. b # 1
    BY <1>2, <1>3
  <2>2. CASE text[b - 1] = "LF"
    BY <1>2, <2>1, <2>2
  <2>3. CASE text[b - 1] = "CR" /\ b # 2 /\ text[b - 2] = "LF"
    BY <1>2, <2>1, <2>3
  <2>4. CASE text[b - 1] = "CR" /\ b = 2
    <3>1. i = 1
      BY <1>3, <2>4
    <3> QED
      BY <1>3, <2>4, <3>1 DEF Data
  <2> QED
    BY <2>1, <2>2, <2>3, <2>4 DEF Blank
<1>5. i < q
  BY <1>2, <1>3, <1>4 DEF Data
<1>6. q \in Kept(p, n) /\ b \in Kept(p, n)
  BY <1>2, <1>3, <1>4, <1>5 DEF Kept
<1>7. Follows(Kept(p, n), q, b)
  <2>1. \A k \in Kept(p, n) : k \in Int /\ ~(q < k /\ k < b)
    BY <1>2, <1>4 DEF Kept
  <2> QED
    BY <1>2, <1>4, <2>1 DEF Follows
<1> QED
  BY <1>2, <1>4, <1>6, <1>7 DEF Ends

LEMMA FirstFrame ==
    ASSUME Lined(text), NEW p \in Nat, NEW n \in 0..Len(text), Len(text) \in Nat,
           p = 0 \/ p \in Blank,
           NEW j \in Ends(Kept(p, n)), \A k \in Ends(Kept(p, n)) : j <= k
    PROVE  /\ Values({i \in Kept(p, n) : i < j}) = DataOf(j)
           /\ \A b \in Blank : p < b /\ b < j => DataOf(b) = {}
<1>1. j \in Blank /\ p < j /\ j <= n /\ j \in Nat
  BY EndsAreBlank DEF Blank
<1>2. ASSUME NEW b \in Blank, p < b, b < j
      PROVE  \A i \in (p + 1)..(b - 1) : text[i] \notin Data
  <2>1. b \in Nat
    BY DEF Blank
  <2>2. b \notin Ends(Kept(p, n)) /\ b <= n
    BY <1>1, <1>2, <2>1
  <2> QED
    BY <1>2, <2>1, <2>2, NoEndNoData
<1>3. ASSUME NEW i \in DataOf(j) PROVE i \in Values({k \in Kept(p, n) : k < j})
  <2>1. i \in (p + 1)..(j - 1) /\ text[i] \in Data
    BY <1>1, DataIsBetween DEF DataOf
  <2> QED
    BY <1>1, <2>1 DEF Values, Kept, Data
<1>4. ASSUME NEW i \in Kept(p, n), i < j, text[i] \in Data PROVE i \in DataOf(j)
  <2>1. i \in (p + 1)..n
    BY DEF Kept
  <2>2. ASSUME NEW c \in Blank, i < c, c < j PROVE FALSE
    <3>1. c \in Nat /\ i \in (p + 1)..(c - 1)
      BY <2>1, <2>2 DEF Blank
    <3> QED
      BY <1>2, <1>4, <2>1, <2>2, <3>1
  <2> QED
    BY <1>1, <1>4, <2>1, <2>2 DEF DataOf
<1>5. ASSUME NEW b \in Blank, p < b, b < j PROVE DataOf(b) = {}
  BY <1>2, <1>5, DataIsBetween DEF DataOf
<1>6. \A i : i \in Values({k \in Kept(p, n) : k < j}) <=> i \in DataOf(j)
  BY <1>3, <1>4 DEF Values
<1> QED
  BY <1>5, <1>6

\* What is joined is what would be kept had it come in one piece.
LEMMA JoinedIs ==
    ASSUME Lined(text), NEW p \in Nat, NEW n \in Nat, NEW m \in 0..Len(text), Len(text) \in Nat,
           p <= n, n < m
    PROVE  Joined(Kept(p, n), (n + 1)..m) = Kept(p, m)
<1> DEFINE B == Kept(p, n) \cup (n + 1)..m
<1>1. \A i \in B : i \in (p + 1)..m
  BY DEF Kept
<1>2. \A i \in (p + 1)..m : text[i] # "CR" => i \in B
  BY DEF Kept
<1>3. ASSUME NEW i \in B, text[i] = "CR", i # m
      PROVE  \E j \in B : text[j] = "LF" /\ Follows(B, i, j)
  <2>1. i \in (p + 1)..m /\ i + 1 \in (p + 1)..m
    BY <1>1, <1>3
  <2>2. text[i + 1] = "LF"
    BY <1>3, <2>1 DEF Lined
  <2>3. i + 1 \in B
    BY <1>2, <2>1, <2>2
  <2>4. Follows(B, i, i + 1)
    <3> HIDE DEF B
    <3> QED
      BY <1>1, <2>1 DEF Follows
  <2> QED
    BY <2>2, <2>3, <2>4
<1>4. \A j \in B : ~Follows(B, m, j)
  BY <1>1 DEF Follows
<1>5. m \in B
  BY DEF Kept
<1>6. \A i : i \in Replace(B) <=> i \in Kept(p, m)
  <2> HIDE DEF B
  <2>1. ASSUME NEW i \in Replace(B) PROVE i \in Kept(p, m)
    BY <1>1, <1>3, <2>1 DEF Replace, Kept
  <2>2. ASSUME NEW i \in Kept(p, m) PROVE i \in Replace(B)
    <3>1. i \in B
      BY <1>2, <1>5, <2>2 DEF Kept
    <3>2. text[i] = "CR" => i = m
      BY <2>2 DEF Kept
    <3> QED
      BY <1>4, <3>1, <3>2 DEF Replace
  <2> QED
    BY <2>1, <2>2
<1> QED
  BY <1>6 DEF Joined

-----------------------------------------------------------------------------
(* Frames. *)

LEMMA Kinds ==
    ASSUME NEW v
    PROVE  /\ IsChunk(v) => ~One(v, "done") /\ ~One(v, "other")
           /\ IsChunk(v) <=> StrictJson(v) /\ Valid(v)
<1>1. ASSUME NEW c \in {"done", "other"}, One(v, c), IsChunk(v) PROVE FALSE
  <2>1. PICK i \in v : v = {i} /\ text[i] = c
    BY <1>1 DEF One
  <2>2. ~Halves(v)
    BY <2>1 DEF Halves
  <2> QED
    BY <1>1, <2>1, <2>2 DEF IsChunk, One
<1> QED
  BY <1>1 DEF StrictJson, Valid, IsChunk

\* What is heard of a part of the stream is heard of the whole.
LEMMA HeardGrows ==
    ASSUME NEW p \in Nat, NEW n \in Nat, p <= n
    PROVE  /\ Dispatched(p) = {b \in Dispatched(n) : b <= p}
           /\ Heard(p) = {b \in Heard(n) : b <= p}
<1>0. Blank \subseteq Nat
  BY DEF Blank
<1>1. Dispatched(p) = {b \in Dispatched(n) : b <= p}
  <2>1. \A b \in Blank : b <= p <=> b <= n /\ b <= p
    BY <1>0
  <2>2. \A b : b \in Dispatched(p) <=> b \in Dispatched(n) /\ b <= p
    BY <2>1 DEF Dispatched
  <2> QED
    BY <2>2
<1>2. Dispatched(n) \subseteq Nat
  BY <1>0 DEF Dispatched
<1>3. \A b \in Dispatched(p) : \A c \in Dispatched(n) : c < b => c \in Dispatched(p)
  BY <1>1, <1>2
<1>4. \A b \in Dispatched(p) : b \in Heard(p) <=> b \in Heard(n)
  BY <1>1, <1>3 DEF Heard
<1>5. Heard(p) \subseteq Dispatched(p) /\ Heard(n) \subseteq Dispatched(n)
  BY DEF Heard
<1>6. \A b : b \in Heard(p) <=> b \in Heard(n) /\ b <= p
  BY <1>1, <1>4, <1>5
<1> QED
  BY <1>1, <1>6

LEMMA HeardAll ==
    ASSUME NEW n, AllChunks(n)
    PROVE  Heard(n) = Dispatched(n)
BY DEF AllChunks, Heard

\* Nothing is dispatched between the last byte taken and the first frame that ends.
LEMMA NothingMissed ==
    ASSUME Lined(text), NEW p \in Nat, NEW n \in 0..Len(text), Len(text) \in Nat, p <= n,
           p = 0 \/ p \in Blank, Ends(Kept(p, n)) = {}
    PROVE  Dispatched(n) = Dispatched(p)
<1>1. ASSUME NEW b \in Dispatched(n), p < b PROVE FALSE
  <2>1. b \in Blank /\ b <= n /\ DataOf(b) # {}
    BY <1>1 DEF Dispatched
  <2>2. \A i \in (p + 1)..(b - 1) : text[i] \notin Data
    BY <1>1, <2>1, NoEndNoData
  <2> QED
    BY <1>1, <2>1, <2>2, DataIsBetween DEF DataOf
<1>2. Dispatched(n) \subseteq Nat
  BY DEF Dispatched, Blank
<1> QED
  <2>1. Dispatched(p) = {b \in Dispatched(n) : b <= p}
    BY HeardGrows
  <2> QED
    BY <1>1, <1>2, <2>1

\* The first frame that ends is the next dispatch, if it has data.
LEMMA NextDispatch ==
    ASSUME Lined(text), NEW p \in Nat, NEW n \in 0..Len(text), Len(text) \in Nat,
           p = 0 \/ p \in Blank,
           NEW j \in Ends(Kept(p, n)), \A k \in Ends(Kept(p, n)) : j <= k
    PROVE  Dispatched(j) = Dispatched(p) \cup {b \in {j} : DataOf(b) # {}}
<1>1. j \in Blank /\ p < j /\ j \in Nat /\ Blank \subseteq Nat
  BY EndsAreBlank DEF Blank
<1>2. \A b \in Blank : p < b /\ b < j => DataOf(b) = {}
  BY FirstFrame
<1>3. \A b : b \in Dispatched(j) <=> b \in Dispatched(p) \/ (b = j /\ DataOf(b) # {})
  <2>1. \A b \in Blank : b <= j <=> b <= p \/ (p < b /\ b < j) \/ b = j
    BY <1>1
  <2> QED
    BY <1>1, <1>2, <2>1 DEF Dispatched
<1> QED
  BY <1>3

-----------------------------------------------------------------------------
(* The invariant says what is promised. *)

LEMMA Faithful == ChatInv => DecodeFaithful
<1> SUFFICES ASSUME ChatInv PROVE DecodeFaithful
  OBVIOUS
<1>0. /\ ChatTypeOK /\ Lined(text) /\ InOrder
      /\ Len(text) \in Nat /\ total \in 0..Len(text) /\ accepted \in 0..Len(text)
      /\ result \in Results /\ Sized
  BY DEF ChatInv, ChatTypeOK
<1>1. PICK p \in 0..accepted : DecodedTo(p)
  BY DEF ChatInv
<1>2. p \in Nat /\ accepted \in Nat /\ p <= accepted
  BY <1>0, <1>1
<1>3. /\ Dispatched(p) = {b \in Dispatched(accepted) : b <= p}
      /\ Heard(p) = {b \in Heard(accepted) : b <= p}
  BY <1>2, HeardGrows
<1>4. Yielded = {DataOf(b) : b \in Heard(p)}
  BY <1>1 DEF DecodedTo, Meaning
<1>5. /\ Heard(accepted) \subseteq Dispatched(accepted) /\ Dispatched(accepted) \subseteq Blank
      /\ Heard(p) \subseteq Dispatched(p) /\ Blank \subseteq Nat
  BY DEF Heard, Dispatched, Blank
<1>6. /\ \A b \in Dispatched(accepted) : b \in Blank /\ b \in Nat
      /\ \A b \in Heard(accepted) : b \in Blank /\ b \in Nat
      /\ \A b : b \in Heard(p) <=> b \in Heard(accepted) /\ b <= p
      /\ \A b : b \in Dispatched(p) <=> b \in Dispatched(accepted) /\ b <= p
  BY <1>3, <1>5
<1>a. Yielded \subseteq Meaning(accepted)
  BY <1>3, <1>4 DEF Meaning
<1>b. ASSUME NEW v \in Yielded, NEW w \in Meaning(accepted), w \notin Yielded,
             NEW i \in v, NEW j \in w
      PROVE  i < j
  <2>1. PICK b \in Heard(p) : v = DataOf(b)
    BY <1>4
  <2>2. PICK c \in Heard(accepted) : w = DataOf(c)
    BY DEF Meaning
  <2>3. c \notin Heard(p)
    BY <1>4, <1>b, <2>2
  <2>4. b \in Nat /\ b <= p /\ c \in Blank /\ c \in Nat /\ p < c
    BY <1>2, <1>6, <2>3
  <2>5. i \in 1..(b - 1)
    BY <1>b, <2>1 DEF DataOf
  <2>6. j \in (p + 1)..(c - 1)
    BY <1>1, <1>b, <2>2, <2>4, DataIsBetween DEF DecodedTo
  <2> QED
    BY <1>2, <2>4, <2>5, <2>6
<1>c. ASSUME result # "run" \/ Ends(buffer) = {}
      PROVE  Heard(accepted) = Heard(p)
  <2>1. CASE result \in {"done", "protocol"}
    <3>1. PICK b \in Blank : Stops(b, p)
      BY <1>1, <2>1 DEF DecodedTo
    <3>2. b \in Dispatched(accepted) /\ b <= p /\ ~IsChunk(DataOf(b))
      BY <1>3, <3>1 DEF Stops
    <3>3. \A c \in Heard(accepted) : ~(b < c)
      BY <3>2 DEF Heard
    <3>4. \A c \in Heard(accepted) : c <= p
      BY <1>2, <1>6, <3>2, <3>3
    <3> QED
      BY <1>3, <3>4
  <2>2. CASE result \in {"interrupted", "too_large"}
    BY <1>1, <2>2 DEF DecodedTo, Heard
  <2>3. CASE result = "run" /\ Ends(buffer) = {}
    <3>1. Ends(Kept(p, accepted)) = {} /\ (p = 0 \/ p \in Blank)
      BY <1>1, <2>3 DEF DecodedTo
    <3>2. Dispatched(accepted) = Dispatched(p)
      BY <1>0, <1>2, <3>1, NothingMissed
    <3> QED
      BY <3>2 DEF Heard
  <2> QED
    BY <1>0, <1>c, <2>1, <2>2, <2>3 DEF Results
<1>d. ASSUME result # "too_large" PROVE result = "done" <=> \E v \in Yielded : One(v, "done")
  <2>1. CASE result \in {"run", "interrupted"}
    <3>1. \A b \in Heard(p) : IsChunk(DataOf(b))
      BY <1>1, <1>5, <2>1 DEF DecodedTo, AllChunks
    <3>2. \A v \in Yielded : ~One(v, "done")
      BY <1>4, <3>1, Kinds
    <3> QED
      BY <2>1, <3>2
  <2>2. CASE result = "done"
    <3>1. PICK b \in Blank : Stops(b, p) /\ One(DataOf(b), "done")
      BY <1>1, <2>2 DEF DecodedTo
    <3>2. b \in Heard(p)
      BY <3>1 DEF Stops, Heard
    <3> QED
      BY <1>4, <2>2, <3>1, <3>2
  <2>3. CASE result = "protocol"
    <3>1. PICK b \in Blank : Stops(b, p) /\ ~One(DataOf(b), "done")
      BY <1>1, <2>3 DEF DecodedTo
    <3>2. ASSUME NEW c \in Heard(p), One(DataOf(c), "done") PROVE FALSE
      <4>1. c \in Nat /\ b \in Nat /\ c \in Dispatched(p)
        BY <1>5, <1>6, <3>2
      <4>2. c # b
        BY <3>1, <3>2
      <4>3. ~(b < c)
        BY <3>1 DEF Stops, Heard
      <4>4. ~(c < b)
        BY <3>1, <3>2, <4>1, Kinds DEF Stops
      <4> QED
        BY <4>1, <4>2, <4>3, <4>4
    <3> QED
      BY <1>4, <2>3, <3>2
  <2> QED
    BY <1>0, <1>d, <2>1, <2>2, <2>3 DEF Results
<1>e. ASSUME result = "protocol"
      PROVE  \E b \in Dispatched(accepted) \ Heard(accepted) :
                \A c \in Dispatched(accepted) : c < b => IsChunk(DataOf(c))
  <2>1. PICK b \in Blank : Stops(b, p) /\ ~One(DataOf(b), "done")
    BY <1>1, <1>e DEF DecodedTo
  <2>2. b \in Dispatched(accepted) /\ b <= p /\ ~IsChunk(DataOf(b))
    BY <1>3, <2>1 DEF Stops
  <2>3. b \notin Heard(accepted)
    BY <2>1, <2>2 DEF Heard
  <2>4. \A c \in Dispatched(accepted) : c < b => c \in Dispatched(p)
    BY <1>2, <1>6, <2>2
  <2> QED
    BY <2>1, <2>2, <2>3, <2>4 DEF Stops
<1>f. result = "interrupted" => \A b \in Dispatched(total) : IsChunk(DataOf(b))
  BY <1>0, <1>1 DEF DecodedTo, AllChunks, Sized
<1>g. result # "run" \/ Ends(buffer) = {} => Yielded = Meaning(accepted)
  BY <1>4, <1>c DEF Meaning
<1> QED
  BY <1>0, <1>a, <1>b, <1>d, <1>e, <1>f, <1>g DEF DecodeFaithful, InOrder, Sized

-----------------------------------------------------------------------------
(* Every step keeps the invariant. *)

LEMMA InitChat ==
    ASSUME Init
    PROVE  ChatInv
<1>1. ChatTypeOK /\ Lined(text) /\ total = 0 /\ accepted = 0
  BY ChatAssumption DEF Init, ChatTypeOK, Results
<1>2. Blank \subseteq Nat \ {0}
  BY DEF Blank
<1>3. Dispatched(0) = {}
  <2>1. \A b \in Blank : ~(b <= 0)
    BY <1>2
  <2> QED
    BY <2>1 DEF Dispatched
<1>4. Meaning(0) = {}
  BY <1>3 DEF Meaning, Heard
<1>5. Yielded = {} /\ InOrder
  BY DEF Init, Yielded, InOrder
<1>6. Kept(0, 0) = {}
  BY DEF Kept
<1>7. DecodedTo(0)
  BY <1>1, <1>3, <1>4, <1>5, <1>6 DEF DecodedTo, Init, AllChunks
<1>8. Sized
  BY <1>1, ChatAssumption, FS_EmptySet DEF Init, Sized
<1> QED
  BY <1>1, <1>5, <1>7, <1>8 DEF ChatInv

LEMMA SeqGrows ==
    ASSUME NEW S, NEW T, S \subseteq T, NEW s \in Seq(S)
    PROVE  s \in Seq(T)
OBVIOUS

\* A set of positions is finite, and a part of it is no larger.
LEMMA BufferSize ==
    ASSUME NEW n \in Nat, NEW b \in SUBSET (1..n)
    PROVE  /\ IsFiniteSet(b) /\ Cardinality(b) \in Nat
           /\ \A c \in SUBSET b : Cardinality(c) \in Nat /\ Cardinality(c) <= Cardinality(b)
<1>1. IsFiniteSet(1..n)
  BY FS_Interval
<1>2. IsFiniteSet(b)
  BY <1>1, FS_Subset
<1> QED
  BY <1>2, FS_Subset, FS_CardinalityType

LEMMA ReceiveChat ==
    ASSUME ChatInv, NEW n \in 1..Len(text), Receive(n)
    PROVE  ChatInv'
<1>0. /\ ChatTypeOK /\ Lined(text) /\ InOrder /\ Sized
      /\ Len(text) \in Nat /\ total \in 0..Len(text) /\ buffer \subseteq 1..accepted
  BY DEF ChatInv, ChatTypeOK
<1>1. PICK p \in 0..accepted : DecodedTo(p)
  BY DEF ChatInv
<1>2. /\ result = "run" /\ total' = total + n /\ total' <= Len(text)
      /\ text' = text /\ out' = out /\ Ends(buffer) = {} /\ accepted = total
      /\ total' \in 0..Len(text) /\ p \in 0..total /\ p \in 0..total' /\ p \in Nat
      /\ total \in Nat /\ total' \in Nat /\ n \in Nat
  BY <1>0, <1>1 DEF Receive, Sized
<1>3. /\ p = 0 \/ p \in Blank
      /\ Yielded = Meaning(p) /\ AllChunks(p) /\ buffer = Kept(p, total)
  BY <1>1, <1>2 DEF DecodedTo
<1>4. /\ p = 0 \/ p \in Blank'
      /\ Yielded' = Meaning(p)' /\ AllChunks(p)'
  BY <1>2, <1>3, Fixed DEF Yielded
<1>5. InOrder' /\ Lined(text)'
  BY <1>0, <1>2 DEF InOrder, Lined
<1>6. ASSUME accepted' \in {total, total'}
      PROVE  out' \in Seq({v \in SUBSET (1..accepted') : IsChunk(v)' \/ One(v, "done")'})
  <2>1. {v \in SUBSET (1..accepted) : IsChunk(v) \/ One(v, "done")}
          \subseteq {v \in SUBSET (1..accepted') : IsChunk(v)' \/ One(v, "done")'}
    <3>1. 1..accepted \subseteq 1..accepted'
      BY <1>2, <1>6
    <3> QED
      BY <1>2, <3>1, Fixed
  <2> QED
    BY <1>0, <1>2, <2>1, SeqGrows DEF ChatTypeOK
<1>7. Cardinality(buffer) \in Nat /\ IsFiniteSet(buffer)
  BY <1>0, <1>2, BufferSize
<1>8. CASE TooLarge(n) /\ result' = "too_large" /\ UNCHANGED <<accepted, buffer>>
  <2>1. Dispatched(total) = Dispatched(p)
    BY <1>0, <1>2, <1>3, NothingMissed
  <2>2. buffer \subseteq Undecoded(total)
    <3>1. \A b \in Dispatched(total) : b \in Nat /\ b <= p
      BY <2>1 DEF Dispatched, Blank
    <3>2. ASSUME NEW i \in buffer PROVE i \in Undecoded(total)
      <4>1. i \in (p + 1)..total
        BY <1>3, <3>2 DEF Kept
      <4> QED
        BY <1>2, <3>1, <4>1 DEF Undecoded
    <3> QED
      BY <3>2
  <2>3. /\ Cardinality(Undecoded(total)) \in Nat
        /\ Cardinality(buffer) <= Cardinality(Undecoded(total))
    <3>1. Undecoded(total) \in SUBSET (1..total)
      BY DEF Undecoded
    <3> QED
      BY <1>2, <2>2, <3>1, BufferSize
  <2>4. total' > Limit \/ Cardinality(Undecoded(total)) + n > BufferLimit
    BY <1>2, <1>7, <1>8, <2>3, ChatAssumption DEF TooLarge
  <2>5. Sized'
    <3>1. /\ accepted' = total /\ total' - accepted' = n /\ result' = "too_large"
          /\ buffer' = buffer
      BY <1>2, <1>8
    <3>2. Undecoded(accepted)' = Undecoded(total)
      BY <1>2, <3>1, Fixed
    <3> QED
      BY <1>0, <1>2, <2>4, <3>1, <3>2 DEF Sized
  <2>6. Dispatched(accepted)' = Dispatched(p)'
    BY <1>2, <1>8, <2>1, Fixed
  <2>7. DecodedTo(p)'
    BY <1>4, <1>8, <2>6 DEF DecodedTo
  <2>8. ChatTypeOK'
    <3>1. accepted' \in 0..total' /\ buffer' \subseteq 1..accepted'
      BY <1>0, <1>2, <1>8
    <3> QED
      BY <1>0, <1>2, <1>6, <1>8, <3>1 DEF ChatTypeOK, Results
  <2> QED
    BY <1>2, <1>5, <1>8, <2>5, <2>7, <2>8 DEF ChatInv
<1>9. CASE ~TooLarge(n) /\ result' = result /\ accepted' = total'
           /\ buffer' = Joined(buffer, (total + 1)..total')
  <2>1. buffer' = Kept(p, total')
    <3>1. total < total' /\ p <= total
      BY <1>0, <1>1, <1>2
    <3>2. Joined(Kept(p, total), (total + 1)..total') = Kept(p, total')
      BY <1>0, <1>2, <3>1, JoinedIs
    <3> QED
      BY <1>3, <1>9, <3>2
  <2>2. Kept(p, accepted)' = Kept(p, total')
    BY <1>2, <1>9 DEF Kept
  <2>3. DecodedTo(p)'
    BY <1>2, <1>4, <1>9, <2>1, <2>2 DEF DecodedTo
  <2>4. buffer' \subseteq 1..accepted'
    BY <1>2, <1>9, <2>1 DEF Kept
  <2>5. Cardinality(buffer') \in Nat /\ Cardinality(buffer') <= Cardinality(buffer) + n
    <3> DEFINE C == (total + 1)..total'
    <3>1. IsFiniteSet(C) /\ Cardinality(C) = n
      BY <1>2, FS_Interval
    <3> HIDE DEF C
    <3>2. /\ IsFiniteSet(buffer \cup C)
          /\ Cardinality(buffer \cup C)
               = Cardinality(buffer) + Cardinality(C) - Cardinality(buffer \cap C)
      BY <1>7, <3>1, FS_Union
    <3>3. Cardinality(buffer \cap C) \in Nat
      BY <1>7, FS_Intersection, FS_CardinalityType
    <3>4. buffer' \subseteq buffer \cup C
      BY <1>9 DEF Joined, Replace, C
    <3>5. Cardinality(buffer') \in Nat /\ Cardinality(buffer') <= Cardinality(buffer \cup C)
      BY <3>2, <3>4, FS_Subset, FS_CardinalityType
    <3> QED
      BY <1>2, <1>7, <3>1, <3>2, <3>3, <3>5
  <2>6. Sized'
    BY <1>2, <1>7, <1>9, <2>5, ChatAssumption DEF Sized, TooLarge
  <2>7. ChatTypeOK'
    BY <1>0, <1>2, <1>6, <1>9, <2>4 DEF ChatTypeOK, Results
  <2> QED
    BY <1>2, <1>5, <1>9, <2>3, <2>6, <2>7 DEF ChatInv
<1> QED
  BY <1>8, <1>9 DEF Receive

LEMMA EndChat ==
    ASSUME ChatInv, EndOfStream
    PROVE  ChatInv'
<1>0. /\ ChatTypeOK /\ Lined(text) /\ InOrder /\ Sized
      /\ Len(text) \in Nat /\ total \in 0..Len(text)
  BY DEF ChatInv, ChatTypeOK
<1>1. PICK p \in 0..accepted : DecodedTo(p)
  BY DEF ChatInv
<1>2. /\ result = "run" /\ Ends(buffer) = {} /\ result' = "interrupted"
      /\ text' = text /\ out' = out /\ total' = total /\ buffer' = buffer
      /\ accepted' = accepted /\ accepted = total /\ p \in Nat /\ p <= total
  BY <1>0, <1>1 DEF EndOfStream, Sized
<1>3. /\ p = 0 \/ p \in Blank
      /\ Yielded = Meaning(p) /\ AllChunks(p) /\ buffer = Kept(p, total)
  BY <1>1, <1>2 DEF DecodedTo
<1>4. Dispatched(total) = Dispatched(p)
  BY <1>0, <1>2, <1>3, NothingMissed
<1>5. Dispatched(accepted)' = Dispatched(p)'
  BY <1>2, <1>4, Fixed
<1>6. DecodedTo(p)'
  BY <1>2, <1>3, <1>5, Fixed DEF DecodedTo, Yielded
<1>7. ChatTypeOK' /\ InOrder' /\ Lined(text)'
  <2>1. \A v : (IsChunk(v) \/ One(v, "done")) <=> (IsChunk(v)' \/ One(v, "done")')
    BY <1>2, Fixed
  <2>2. ChatTypeOK'
    BY <1>0, <1>2, <2>1 DEF ChatTypeOK, Results
  <2> QED
    BY <1>0, <1>2, <2>2 DEF InOrder, Lined
<1>8. Sized'
  BY <1>0, <1>2 DEF Sized
<1> QED
  BY <1>1, <1>2, <1>6, <1>7, <1>8 DEF ChatInv

LEMMA FrameChat ==
    ASSUME ChatInv, NEW j \in Ends(buffer), Frame(j)
    PROVE  ChatInv'
<1>0. /\ ChatTypeOK /\ Lined(text) /\ InOrder /\ Sized
      /\ Len(text) \in Nat /\ total \in 0..Len(text) /\ total \in Nat
  BY DEF ChatInv, ChatTypeOK
<1>1. PICK p \in 0..accepted : DecodedTo(p)
  BY DEF ChatInv
<1> DEFINE v == DataOf(j)
<1>2. /\ result = "run" /\ text' = text /\ total' = total
      /\ accepted' = accepted /\ accepted = total
      /\ j \in Ends(buffer) /\ (\A k \in Ends(buffer) : j <= k)
      /\ buffer' = {i \in buffer : i > j}
  BY <1>0 DEF Frame, Sized
<1>3. /\ p = 0 \/ p \in Blank
      /\ Yielded = Meaning(p) /\ AllChunks(p) /\ buffer = Kept(p, total) /\ p \in Nat /\ p <= total
  BY <1>0, <1>1, <1>2 DEF DecodedTo
<1>4. j \in Blank /\ p < j /\ j <= total /\ j \in 0..total /\ j \in Nat
  BY <1>0, <1>2, <1>3, EndsAreBlank DEF Blank
<1>5. Values({i \in buffer : i < j}) = v
  BY <1>0, <1>2, <1>3, FirstFrame
<1>6. Dispatched(j) = Dispatched(p) \cup {b \in {j} : DataOf(b) # {}}
  BY <1>0, <1>2, <1>3, NextDispatch
<1>7. /\ \A b \in Dispatched(p) : IsChunk(DataOf(b)) /\ b \in Nat /\ b <= p
      /\ Heard(p) = Dispatched(p)
  BY <1>3, HeardAll DEF AllChunks, Dispatched, Blank
<1>8. /\ v # {} /\ (IsChunk(v) \/ One(v, "done")) => Meaning(j) = Meaning(p) \cup {v}
      /\ ~(v # {} /\ (IsChunk(v) \/ One(v, "done"))) => Meaning(j) = Meaning(p)
      /\ v # {} /\ ~IsChunk(v) => Stops(j, j)
      /\ v = {} \/ IsChunk(v) => AllChunks(j)
  <2>1. v # {} /\ (IsChunk(v) \/ One(v, "done")) => Heard(j) = Heard(p) \cup {j}
    BY <1>3, <1>4, <1>6, <1>7 DEF Heard
  <2>2. ~(v # {} /\ (IsChunk(v) \/ One(v, "done"))) => Heard(j) = Heard(p)
    BY <1>3, <1>4, <1>6, <1>7 DEF Heard
  <2>3. v # {} /\ ~IsChunk(v) => Stops(j, j)
    BY <1>4, <1>6, <1>7 DEF Stops
  <2>4. v = {} \/ IsChunk(v) => AllChunks(j)
    BY <1>6, <1>7 DEF AllChunks
  <2> QED
    BY <2>1, <2>2, <2>3, <2>4 DEF Meaning
<1>9. /\ v \subseteq 1..total
      /\ \A w \in Yielded : \A i \in w, k \in v : i < k
  <2>1. v \subseteq 1..total
    BY <1>0, <1>4 DEF DataOf
  <2>2. ASSUME NEW b \in Dispatched(p), NEW i \in DataOf(b), NEW k \in v PROVE i < k
    <3>1. b \in Nat /\ b <= p /\ i \in 1..(b - 1)
      BY <1>7, <2>2 DEF DataOf
    <3>2. k \in (p + 1)..(j - 1)
      BY <1>3, <1>4, <2>2, DataIsBetween
    <3> QED
      BY <1>3, <1>4, <3>1, <3>2
  <2> QED
    BY <1>3, <1>7, <2>1, <2>2 DEF Meaning
<1> HIDE DEF v
<1>10. buffer' = Kept(j, accepted)' /\ buffer' \subseteq 1..total
  <2>1. \A i : i \in buffer' <=> i \in Kept(j, total)
    BY <1>0, <1>2, <1>3, <1>4 DEF Kept
  <2>2. Kept(j, accepted)' = Kept(j, total)
    BY <1>2 DEF Kept
  <2>3. buffer' \subseteq buffer /\ buffer \subseteq 1..total
    BY <1>0, <1>2 DEF ChatTypeOK
  <2> QED
    BY <2>1, <2>2, <2>3
<1>11. Lined(text)' /\ (\A w : (IsChunk(w) \/ One(w, "done")) <=> (IsChunk(w)' \/ One(w, "done")'))
  BY <1>0, <1>2, Fixed DEF Lined
<1>17. ASSUME result' # "too_large" PROVE Sized'
  <2>1. buffer' \subseteq buffer /\ buffer \subseteq 1..total
    BY <1>0, <1>2 DEF ChatTypeOK
  <2>2. Cardinality(buffer) \in Nat /\ Cardinality(buffer') \in Nat
        /\ Cardinality(buffer') <= Cardinality(buffer)
    BY <1>0, <2>1, BufferSize
  <2> QED
    BY <1>0, <1>2, <1>17, <2>2, ChatAssumption DEF Sized
<1> DEFINE E == {w \in SUBSET (1..total) : IsChunk(w) \/ One(w, "done")}
<1>12. out \in Seq(E)
  BY <1>0 DEF ChatTypeOK
<1>13. CASE v # {} /\ out' = Append(out, v) /\ (IsChunk(v) \/ One(v, "done"))
            /\ result' = IF One(v, "done") THEN "done" ELSE "run"
  <2>1. v \in E
    BY <1>9, <1>13
  <2> HIDE DEF E
  <2>2. /\ out' \in Seq(E) /\ Len(out) \in Nat /\ Len(out') = Len(out) + 1
        /\ out'[Len(out) + 1] = v /\ \A k \in 1..Len(out) : out'[k] = out[k]
    BY <1>12, <1>13, <2>1
  <2>3. Yielded' = Yielded \cup {v}
    <3>1. \A k \in 1..Len(out') : k \in 1..Len(out) \/ k = Len(out) + 1
      BY <2>2
    <3>2. 1..Len(out) \subseteq 1..Len(out') /\ Len(out) + 1 \in 1..Len(out')
      BY <2>2
    <3>3. \A w : w \in Yielded' <=> w \in Yielded \/ w = v
      BY <2>2, <3>1, <3>2 DEF Yielded
    <3> QED
      BY <3>3
  <2>4. InOrder'
    <3> SUFFICES ASSUME NEW k \in 1..Len(out'), NEW l \in 1..Len(out'), k < l,
                        NEW x \in out'[k], NEW y \in out'[l]
                 PROVE  x < y
      BY DEF InOrder
    <3>1. CASE l \in 1..Len(out)
      <4>1. k \in 1..Len(out)
        BY <2>2, <3>1
      <4> QED
        BY <1>0, <2>2, <3>1, <4>1 DEF InOrder
    <3>2. CASE l = Len(out) + 1
      <4>1. k \in 1..Len(out)
        BY <2>2, <3>2
      <4>2. out[k] \in Yielded /\ x \in out[k] /\ y \in v
        BY <2>2, <3>2, <4>1 DEF Yielded
      <4> QED
        BY <1>9, <4>2
    <3> QED
      BY <2>2, <3>1, <3>2
  <2>5. Yielded' = Meaning(j)'
    BY <1>2, <1>3, <1>8, <1>13, <2>3, Fixed
  <2>6. DecodedTo(j)'
    <3>1. j \in Blank'
      BY <1>2, <1>4, Fixed
    <3>2. result' = "run" => AllChunks(j)'
      BY <1>2, <1>8, <1>13, Fixed
    <3>3. result' = "done" => Stops(j, j)' /\ One(DataOf(j), "done")'
      BY <1>2, <1>8, <1>13, Fixed, Kinds DEF v
    <3> QED
      BY <1>2, <1>10, <1>13, <2>5, <3>1, <3>2, <3>3 DEF DecodedTo
  <2>7. ChatTypeOK'
    BY <1>0, <1>2, <1>10, <1>11, <1>13, <2>2 DEF ChatTypeOK, Results, E
  <2> QED
    BY <1>2, <1>4, <1>11, <1>13, <1>17, <2>4, <2>6, <2>7 DEF ChatInv
<1>14. CASE out' = out /\ ~(v # {} /\ (IsChunk(v) \/ One(v, "done")))
            /\ result' = IF v = {} THEN "run" ELSE "protocol"
  <2>1. Yielded' = Meaning(j)' /\ InOrder'
    BY <1>0, <1>2, <1>3, <1>8, <1>14, Fixed DEF Yielded, InOrder
  <2>2. DecodedTo(j)'
    <3>1. j \in Blank'
      BY <1>2, <1>4, Fixed
    <3>2. result' = "run" => AllChunks(j)'
      BY <1>2, <1>8, <1>14, Fixed
    <3>3. result' = "protocol" => Stops(j, j)' /\ ~One(DataOf(j), "done")'
      BY <1>2, <1>8, <1>14, Fixed DEF v
    <3> QED
      BY <1>2, <1>10, <1>14, <2>1, <3>1, <3>2, <3>3 DEF DecodedTo
  <2>3. ChatTypeOK'
    BY <1>0, <1>2, <1>10, <1>11, <1>14 DEF ChatTypeOK, Results
  <2> QED
    BY <1>2, <1>4, <1>11, <1>14, <1>17, <2>1, <2>2, <2>3 DEF ChatInv
<1>15. \/ v = {} /\ UNCHANGED <<out, result>>
       \/ One(v, "done") /\ out' = Append(out, v) /\ result' = "done"
       \/ /\ v # {} /\ ~One(v, "done")
          /\ IF IsChunk(v) THEN out' = Append(out, v) /\ UNCHANGED result
                           ELSE result' = "protocol" /\ UNCHANGED out
  BY <1>5, Kinds DEF Frame
<1>16. One(v, "done") => v # {}
  BY DEF One
<1> QED
  BY <1>2, <1>13, <1>14, <1>15, <1>16

LEMMA ChatInductive == Spec => []ChatInv
<1>1. ChatInv /\ [Next]_vars => ChatInv'
  <2> SUFFICES ASSUME ChatInv, [Next]_vars PROVE ChatInv'
    OBVIOUS
  <2>1. CASE UNCHANGED vars
    BY <2>1, Fixed DEF vars, ChatInv, ChatTypeOK, Lined, InOrder, DecodedTo, Yielded, Kept, Sized
  <2> QED
    BY <2>1, ReceiveChat, FrameChat, EndChat DEF Next
<1> QED
  BY <1>1, InitChat, PTL DEF Spec

-----------------------------------------------------------------------------
(* The theorems. *)

\* The buffer holds received bytes only, and what chat_events yields are events
\* that validate_completion accepts, or [DONE].
THEOREM ChatTypes == Spec => []ChatTypeOK
<1>1. ChatInv => ChatTypeOK
  BY DEF ChatInv
<1> QED
  BY <1>1, ChatInductive, PTL

\* For every stream whose lines end in LF or CR LF, of any length, and every way
\* it is cut into chunks, chat_events yields what the stream means: its events in
\* order, each once, up to [DONE] or the first that is refused.  No limit is ever
\* passed, only a stream that would pass one is cut off, and nothing is decoded of
\* the chunk that would.
THEOREM DecodingIsFaithful == Spec => []DecodeFaithful
BY Faithful, ChatInductive, PTL
=============================================================================
