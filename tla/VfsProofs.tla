--------------------------- MODULE VfsProofs ---------------------------------
(***************************************************************************)
(* Proofs about Vfs and the pipes under it, for any number of tasks,       *)
(* pipes, handles, descriptors and files.                                  *)
(***************************************************************************)
EXTENDS Vfs, WellFoundedInduction, TLAPS

(* A nonempty set of naturals has a least element, which First chooses.    *)
LEMMA FirstIs ==
    ASSUME NEW S \in SUBSET Nat, S # {}
    PROVE  First(S) \in S /\ \A k \in S : First(S) <= k
  <1>1. \E m \in S : \A k \in S : ~ (<<k, m>> \in OpToRel(<, Nat))
    BY NatLessThanWellFounded, WFMin
  <1>2. \A m, k \in Nat : ~ (<<k, m>> \in OpToRel(<, Nat)) => m <= k
    BY DEF OpToRel
  <1>3. \E m \in S : \A k \in S : m <= k
    BY <1>1, <1>2
  <1> QED BY <1>3, Zenon DEF First

-----------------------------------------------------------------------------
(* Sequences: their lengths and elements, and when two are the same.       *)
LEMMA Elements ==
    ASSUME NEW S, NEW s \in Seq(S)
    PROVE  Len(s) \in Nat /\ DOMAIN s = 1 .. Len(s) /\ \A i \in 1 .. Len(s) : s[i] \in S
  OBVIOUS

(* Sequences with the same elements are the same.                          *)
LEMMA SameElements ==
    ASSUME NEW S, NEW s \in Seq(S), NEW t \in Seq(S), Len(s) = Len(t),
           \A i \in 1 .. Len(s) : s[i] = t[i]
    PROVE  s = t
  OBVIOUS

(* A function on 1 .. n is a sequence of length n.                         *)
LEMMA OfLength ==
    ASSUME NEW S, NEW n \in Nat, NEW s \in [1 .. n -> S]
    PROVE  s \in Seq(S) /\ Len(s) = n
  OBVIOUS

(* The empty sequence.                                                     *)
LEMMA Nothing ==
    ASSUME NEW S
    PROVE  <<>> \in Seq(S) /\ Len(<<>>) = 0
  OBVIOUS

(* A piece of a sequence.                                                  *)
LEMMA Piece ==
    ASSUME NEW S, NEW s, NEW m \in Int, NEW n \in Int, \A i \in m .. n : s[i] \in S
    PROVE  /\ SubSeq(s, m, n) \in Seq(S)
           /\ Len(SubSeq(s, m, n)) = IF m <= n THEN n - m + 1 ELSE 0
           /\ \A i \in 1 .. n - m + 1 : SubSeq(s, m, n)[i] = s[m + i - 1]
  OBVIOUS

(* Two sequences joined.                                                   *)
LEMMA Joined ==
    ASSUME NEW S, NEW s \in Seq(S), NEW t \in Seq(S)
    PROVE  /\ s \o t \in Seq(S) /\ Len(s \o t) = Len(s) + Len(t)
           /\ \A i \in 1 .. Len(s) + Len(t) :
                 (s \o t)[i] = IF i <= Len(s) THEN s[i] ELSE t[i - Len(s)]
           /\ s \o <<>> = s
  OBVIOUS

(* A sequence with one element more.                                       *)
LEMMA OneMore ==
    ASSUME NEW S, NEW s \in Seq(S), NEW e \in S
    PROVE  /\ Append(s, e) \in Seq(S) /\ Len(Append(s, e)) = Len(s) + 1
           /\ Append(s, e)[Len(s) + 1] = e /\ \A i \in 1 .. Len(s) : Append(s, e)[i] = s[i]
  OBVIOUS

-----------------------------------------------------------------------------
(* Pipes.  A byte is told by its pipe and its place there.                 *)
Data == Nat \X Nat
PipeName == {Stored(name) : name \in Names} \cup {<<>>}
PipeSlots == [in_use : BOOLEAN, name : PipeName, ring : Seq(Data), life : Nat]
Calls == [op : {"read", "write"}, idx : Slot, len : Nat, life : Nat]

PipeTypeOK ==
    /\ pipes \in [Slot -> PipeSlots]
    /\ call \in [Proc -> {Running} \cup Calls]
    /\ sent \in Seq(Seq(Data)) /\ got \in Seq(Seq(Data)) /\ Len(got) = Len(sent)

(* What a pipe in use was sent is what was read of it and then its ring.   *)
Balanced(ring, out, in) == out \o ring = in /\ Len(ring) <= Room

Begins(out, in) == out = SubSeq(in, 1, Len(out))

(* No two slots hold the same pipe; one given up has sent all that was     *)
(* read of it.                                                             *)
RingsAgree ==
    /\ \A i \in Slot :
          /\ pipes[i].life \in 0 .. Lives /\ (pipes[i].in_use <=> pipes[i].life # 0)
          /\ pipes[i].in_use => Balanced(pipes[i].ring, got[pipes[i].life], sent[pipes[i].life])
    /\ \A i, j \in Slot : pipes[i].in_use /\ pipes[j].in_use /\ pipes[i].life = pipes[j].life
                             => i = j
    /\ \A k \in 1 .. Lives : Begins(got[k], sent[k])

PipeInv == PipeTypeOK /\ RingsAgree

(* Sequences of bytes are joined in either order.                          *)
LEMMA Joins ==
    ASSUME NEW a \in Seq(Data), NEW b \in Seq(Data), NEW c \in Seq(Data)
    PROVE  (a \o b) \o c = a \o (b \o c)
  OBVIOUS

(* A ring of which n bytes are read.                                       *)
LEMMA ReadBalanced ==
    ASSUME NEW ring \in Seq(Data), NEW out \in Seq(Data), NEW in \in Seq(Data),
           Balanced(ring, out, in), NEW n \in 0 .. Len(ring)
    PROVE  /\ SubSeq(ring, n + 1, Len(ring)) \in Seq(Data)
           /\ out \o SubSeq(ring, 1, n) \in Seq(Data)
           /\ Balanced(SubSeq(ring, n + 1, Len(ring)), out \o SubSeq(ring, 1, n), in)
  <1>1. PICK a : a = SubSeq(ring, 1, n)
    BY Zenon
  <1>2. PICK b : b = SubSeq(ring, n + 1, Len(ring))
    BY Zenon
  <1>3. a \o b = ring /\ a \in Seq(Data) /\ b \in Seq(Data) /\ Len(b) = Len(ring) - n
    <2>1. Len(ring) \in Nat /\ \A i \in 1 .. Len(ring) : ring[i] \in Data
      BY Elements
    <2>2. a \in Seq(Data) /\ Len(a) = n /\ \A i \in 1 .. n : a[i] = ring[i]
      BY <1>1, <2>1, Piece
    <2>3. b \in Seq(Data) /\ Len(b) = Len(ring) - n /\ \A i \in 1 .. Len(ring) - n : b[i] = ring[n + i]
      BY <1>2, <2>1, Piece
    <2>4. /\ a \o b \in Seq(Data) /\ Len(a \o b) = Len(ring)
          /\ \A i \in 1 .. Len(ring) : (a \o b)[i] = IF i <= n THEN a[i] ELSE b[i - n]
      BY <2>1, <2>2, <2>3, Joined
    <2>5. ASSUME NEW i \in 1 .. Len(ring) PROVE (a \o b)[i] = ring[i]
      <3>1. CASE i <= n
        BY <2>1, <2>2, <2>4, <3>1
      <3>2. CASE ~(i <= n)
        <4>1. i - n \in 1 .. Len(ring) - n /\ n + (i - n) = i
          BY <2>1, <3>2
        <4> QED BY <2>3, <2>4, <3>2, <4>1, Zenon
      <3> QED BY <3>1, <3>2, Zenon
    <2> QED BY <2>2, <2>3, <2>4, <2>5, SameElements, Zenon
  <1>4. (out \o a) \o b = out \o (a \o b)
    <2>1. a \in Seq(Data) /\ b \in Seq(Data)
      BY <1>3, Zenon
    <2> QED BY <2>1, Joins, Zenon
  <1>6. out \o a \in Seq(Data)
    BY <1>3, Joined
  <1>5. Len(b) <= Room
    BY <1>3, PipeAssumption, Elements DEF Balanced, Room
  <1> QED BY <1>1, <1>2, <1>3, <1>4, <1>5, <1>6, Zenon DEF Balanced

(* A ring to which bytes are added.                                        *)
LEMMA WriteBalanced ==
    ASSUME NEW ring \in Seq(Data), NEW out \in Seq(Data), NEW in \in Seq(Data),
           Balanced(ring, out, in), NEW data \in Seq(Data), Len(data) <= Room - Len(ring)
    PROVE  /\ ring \o data \in Seq(Data) /\ in \o data \in Seq(Data)
           /\ Balanced(ring \o data, out, in \o data)
  <1>1. (out \o ring) \o data = out \o (ring \o data)
    BY Joins
  <1>2. ring \o data \in Seq(Data) /\ in \o data \in Seq(Data) /\ Len(ring \o data) <= Room
    BY PipeAssumption, Elements, Joined DEF Room
  <1> QED BY <1>1, <1>2, Zenon DEF Balanced

(* What was read of a pipe was sent to it.                                 *)
LEMMA BalancedPrefix ==
    ASSUME NEW ring \in Seq(Data), NEW out \in Seq(Data), NEW in, Balanced(ring, out, in)
    PROVE  Begins(out, in)
  <1>1. Len(out) \in Nat /\ Len(ring) \in Nat /\ \A i \in 1 .. Len(out) : out[i] \in Data
    BY Elements
  <1>2. \A i \in 1 .. Len(out) : in[i] = out[i]
    BY <1>1, Joined DEF Balanced
  <1>3. /\ SubSeq(in, 1, Len(out)) \in Seq(Data) /\ Len(SubSeq(in, 1, Len(out))) = Len(out)
        /\ \A i \in 1 .. Len(out) : SubSeq(in, 1, Len(out))[i] = in[i]
    BY <1>1, <1>2, Piece
  <1> QED BY <1>2, <1>3, SameElements DEF Begins

(* A pipe in slot idx whose ring, and what was read of it or sent to it,   *)
(* changes; or a call that changes nothing.                                *)
Turns(idx, ring, out, in) ==
    /\ pipes[idx].in_use /\ Balanced(ring, out, in)
    /\ ring \in Seq(Data) /\ out \in Seq(Data) /\ in \in Seq(Data)
    /\ pipes' = [pipes EXCEPT ![idx].ring = ring]
    /\ got' = [got EXCEPT ![pipes[idx].life] = out]
    /\ sent' = [sent EXCEPT ![pipes[idx].life] = in]

(* A change of one pipe whose ring, output and input stay in balance keeps *)
(* the invariant of the pipes.                                             *)
LEMMA TurnKeeps ==
    ASSUME PipeInv, NEW idx \in Slot, NEW ring, NEW out, NEW in, Turns(idx, ring, out, in),
           call' \in [Proc -> {Running} \cup Calls]
    PROVE  PipeInv'
  <1> USE DEF PipeInv, PipeTypeOK
  <1>1. PICK k : k = pipes[idx].life
    OBVIOUS
  <1>2. k \in 1 .. Lives
    BY <1>1 DEF RingsAgree, Turns, PipeSlots
  <1>3. /\ pipes' \in [Slot -> PipeSlots]
        /\ pipes'[idx].ring = ring /\ pipes'[idx].in_use /\ pipes'[idx].life = k
        /\ \A i \in Slot : /\ pipes'[i].in_use = pipes[i].in_use /\ pipes'[i].life = pipes[i].life
                           /\ i # idx => pipes'[i].ring = pipes[i].ring
    BY <1>1, Zenon DEF Turns, PipeSlots
  <1>4. /\ got' \in Seq(Seq(Data)) /\ Len(got') = Len(got)
        /\ got'[k] = out /\ \A l \in 1 .. Lives : l # k => got'[l] = got[l]
    BY <1>1, <1>2 DEF Turns, Lives
  <1>5. /\ sent' \in Seq(Seq(Data)) /\ Len(sent') = Len(sent)
        /\ sent'[k] = in /\ \A l \in 1 .. Lives : l # k => sent'[l] = sent[l]
    BY <1>1, <1>2 DEF Turns, Lives
  <1>6. Lives' = Lives
    BY <1>5 DEF Lives
  <1>7. ASSUME NEW i \in Slot
        PROVE  /\ pipes'[i].life \in 0 .. Lives' /\ (pipes'[i].in_use <=> pipes'[i].life # 0)
               /\ pipes'[i].in_use => Balanced(pipes'[i].ring, got'[pipes'[i].life], sent'[pipes'[i].life])
    <2>1. pipes[i].life \in 0 .. Lives /\ (pipes[i].in_use <=> pipes[i].life # 0)
      BY DEF RingsAgree
    <2>2. CASE i = idx
      BY <1>3, <1>4, <1>5, <1>6, <2>1, <2>2 DEF Turns
    <2>3. CASE i # idx
      <3>1. pipes[i].in_use => pipes[i].life # k
        BY <1>1, <2>3, Zenon DEF RingsAgree, Turns
      <3>2. pipes[i].in_use => /\ got'[pipes[i].life] = got[pipes[i].life]
                               /\ sent'[pipes[i].life] = sent[pipes[i].life]
        <4>1. CASE pipes[i].in_use
          <5>1. pipes[i].life \in 1 .. Lives
            BY <2>1, <4>1
          <5> QED BY <1>4, <1>5, <3>1, <4>1, <5>1, Zenon
        <4> QED BY <4>1
      <3>3. pipes[i].in_use => Balanced(pipes[i].ring, got[pipes[i].life], sent[pipes[i].life])
        BY DEF RingsAgree
      <3> QED BY <1>3, <1>6, <2>1, <2>3, <3>2, <3>3
    <2> QED BY <2>2, <2>3
  <1>8. \A i, j \in Slot : pipes'[i].in_use /\ pipes'[j].in_use /\ pipes'[i].life = pipes'[j].life
                             => i = j
    BY <1>3, Zenon DEF RingsAgree
  <1>9. ASSUME NEW l \in 1 .. Lives PROVE Begins(got'[l], sent'[l])
    <2>1. CASE l = k
      BY <1>4, <1>5, <2>1, BalancedPrefix DEF Turns
    <2>2. CASE l # k
      BY <1>4, <1>5, <2>2 DEF RingsAgree
    <2> QED BY <2>1, <2>2
  <1> QED BY <1>3, <1>4, <1>5, <1>6, <1>7, <1>8, <1>9, Zenon DEF RingsAgree

(* Nothing but a call changes.                                             *)
LEMMA CallKeeps ==
    ASSUME PipeInv, UNCHANGED <<pipes, sent, got>>, call' \in [Proc -> {Running} \cup Calls]
    PROVE  PipeInv'
  BY DEF PipeInv, PipeTypeOK, RingsAgree, Lives

(* What a call that goes on waiting remembers.                             *)
LEMMA WaitsTyped ==
    ASSUME PipeInv, NEW p \in Proc, NEW idx \in Slot, NEW len \in Nat, NEW op \in {"read", "write"},
           NEW c, c = [op |-> op, idx |-> idx, len |-> len,
                       life |-> IF call[p] = Running THEN pipes[idx].life ELSE call[p].life]
    PROVE  [call EXCEPT ![p] = c] \in [Proc -> {Running} \cup Calls]
  <1>1. call[p] \in {Running} \cup Calls /\ pipes[idx].life \in Nat
    BY DEF PipeInv, PipeTypeOK, PipeSlots
  <1>2. c \in Calls
    BY <1>1 DEF Calls
  <1> QED BY <1>2 DEF PipeInv, PipeTypeOK

(* A turn of pipe_read.                                                    *)
LEMMA ReadKeeps ==
    ASSUME PipeInv, NEW p \in Proc, NEW idx \in Slot, NEW len \in Nat, ReadTurn(p, idx, len)
    PROVE  PipeInv'
  <1>1. pipes[idx] \in PipeSlots /\ call \in [Proc -> {Running} \cup Calls]
    BY DEF PipeInv, PipeTypeOK
  <1>2. PICK ring \in Seq(Data) : ring = pipes[idx].ring
    BY <1>1 DEF PipeSlots
  <1>3. PICK n : n = Lesser(len, Len(ring))
    BY Zenon
  <1>4. [call EXCEPT ![p] = Running] \in [Proc -> {Running} \cup Calls]
    BY <1>1
  <1>5. CASE /\ pipes[idx].in_use /\ n > 0
             /\ pipes' = [pipes EXCEPT ![idx].ring = SubSeq(@, n + 1, Len(@))]
             /\ got' = [got EXCEPT ![pipes[idx].life] = @ \o SubSeq(ring, 1, n)]
             /\ call' = [call EXCEPT ![p] = Running]
             /\ UNCHANGED sent
    <2>1. PICK k \in 1 .. Lives : k = pipes[idx].life
      BY <1>1, <1>5 DEF PipeInv, RingsAgree, PipeSlots
    <2>2. PICK out \in Seq(Data), in \in Seq(Data) : out = got[k] /\ in = sent[k]
      BY <2>1 DEF PipeInv, PipeTypeOK, Lives
    <2>3. Balanced(ring, out, in)
      BY <1>2, <1>5, <2>1, <2>2 DEF PipeInv, RingsAgree
    <2>4. n \in 0 .. Len(ring)
      BY <1>3, <1>5 DEF Lesser
    <2>5. PICK rest, more : rest = SubSeq(ring, n + 1, Len(ring)) /\ more = out \o SubSeq(ring, 1, n)
      BY Zenon
    <2>6. rest \in Seq(Data) /\ more \in Seq(Data) /\ Balanced(rest, more, in)
      BY <2>3, <2>4, <2>5, ReadBalanced, Zenon
    <2>7. sent' = [sent EXCEPT ![k] = in]
      BY <1>5, <2>1, <2>2 DEF PipeInv, PipeTypeOK, Lives
    <2>8. pipes' = [pipes EXCEPT ![idx].ring = rest] /\ got' = [got EXCEPT ![k] = more]
      BY <1>2, <1>5, <2>1, <2>2, <2>5
    <2>9. Turns(idx, rest, more, in)
      BY <1>5, <2>1, <2>6, <2>7, <2>8, Zenon DEF Turns
    <2> QED BY <1>4, <1>5, <2>9, TurnKeeps
  <1>6. CASE /\ pipes[idx].in_use /\ n = 0
             /\ call' = [call EXCEPT ![p] =
                          [op |-> "read", idx |-> idx, len |-> len,
                           life |-> IF call[p] = Running THEN pipes[idx].life ELSE @.life]]
             /\ UNCHANGED <<pipes, sent, got>>
    <2>1. call' \in [Proc -> {Running} \cup Calls]
      BY <1>6, WaitsTyped
    <2> QED BY <1>6, <2>1, CallKeeps
  <1>7. CASE call' = [call EXCEPT ![p] = Running] /\ UNCHANGED <<pipes, sent, got>>
    BY <1>4, <1>7, CallKeeps
  <1> QED BY <1>2, <1>3, <1>5, <1>6, <1>7, Zenon DEF ReadTurn

(* A turn of pipe_write.                                                   *)
LEMMA WriteKeeps ==
    ASSUME PipeInv, NEW p \in Proc, NEW idx \in Slot, NEW len \in Nat, WriteTurn(p, idx, len)
    PROVE  PipeInv'
  <1>1. pipes[idx] \in PipeSlots /\ call \in [Proc -> {Running} \cup Calls]
    BY DEF PipeInv, PipeTypeOK
  <1>2. PICK ring \in Seq(Data) : ring = pipes[idx].ring
    BY <1>1 DEF PipeSlots
  <1>3. PICK n : n = Accepted(len, ring)
    BY Zenon
  <1>4. [call EXCEPT ![p] = Running] \in [Proc -> {Running} \cup Calls]
    BY <1>1
  <1>5. PICK data : data = [j \in 1 .. n |-> <<pipes[idx].life, Len(sent[pipes[idx].life]) + j>>]
    BY Zenon
  <1>6. CASE /\ pipes[idx].in_use /\ n > 0
             /\ pipes' = [pipes EXCEPT ![idx].ring =
                             @ \o SubSeq(data, 1, Lesser(n, Room - Len(@)))]
             /\ sent' = [sent EXCEPT ![pipes[idx].life] = @ \o data]
             /\ call' = [call EXCEPT ![p] = Running]
             /\ UNCHANGED got
    <2>1. PICK k \in 1 .. Lives : k = pipes[idx].life
      BY <1>1, <1>6 DEF PipeInv, RingsAgree, PipeSlots
    <2>2. PICK out \in Seq(Data), in \in Seq(Data) : out = got[k] /\ in = sent[k]
      BY <2>1 DEF PipeInv, PipeTypeOK, Lives
    <2>3. Balanced(ring, out, in)
      BY <1>2, <1>6, <2>1, <2>2, Zenon DEF PipeInv, RingsAgree
    <2>4. n \in Nat /\ n <= Room - Len(ring)
      BY <1>3, <1>6, PipeAssumption DEF Accepted, Lesser, Room
    <2>5. k \in Nat /\ Lives \in Nat
      BY <2>1 DEF PipeInv, PipeTypeOK, Lives
    <2>6. data = [j \in 1 .. n |-> <<k, Len(in) + j>>]
      BY <1>5, <2>1, <2>2
    <2>7. data \in Seq(Data) /\ Len(data) = n
      <3>1. \A j \in 1 .. n : <<k, Len(in) + j>> \in Data
        BY <2>4, <2>5 DEF Data
      <3>2. data \in [1 .. n -> Data] /\ DOMAIN data = 1 .. n
        BY <2>6, <3>1, Zenon
      <3> QED BY <2>4, <3>2, OfLength
    <2>8. SubSeq(data, 1, Lesser(n, Room - Len(ring))) = data
      <3>1. Lesser(n, Room - Len(ring)) = n
        BY <2>4, PipeAssumption DEF Lesser, Room
      <3> QED BY <2>7, <3>1
    <2>9. PICK full, more : full = ring \o data /\ more = in \o data
      BY Zenon
    <2>10. full \in Seq(Data) /\ more \in Seq(Data) /\ Balanced(full, out, more)
      BY <2>3, <2>4, <2>7, <2>9, WriteBalanced
    <2>11. got' = [got EXCEPT ![k] = out]
      BY <1>6, <2>1, <2>2, SMTT(30) DEF PipeInv, PipeTypeOK, Lives
    <2>12. pipes' = [pipes EXCEPT ![idx].ring = full] /\ sent' = [sent EXCEPT ![k] = more]
      BY <1>2, <1>6, <2>1, <2>2, <2>8, <2>9, Zenon
    <2>13. Turns(idx, full, out, more)
      BY <1>6, <2>1, <2>10, <2>11, <2>12, Zenon DEF Turns
    <2> QED BY <1>4, <1>6, <2>13, TurnKeeps, Zenon
  <1>7. CASE /\ call' = [call EXCEPT ![p] =
                          [op |-> "write", idx |-> idx, len |-> len,
                           life |-> IF call[p] = Running THEN pipes[idx].life ELSE @.life]]
             /\ UNCHANGED <<pipes, sent, got>>
    <2>1. call' \in [Proc -> {Running} \cup Calls]
      BY <1>7, WaitsTyped
    <2> QED BY <1>7, <2>1, CallKeeps
  <1>8. CASE call' = [call EXCEPT ![p] = Running] /\ UNCHANGED <<pipes, sent, got>>
    BY <1>4, <1>8, CallKeeps
  <1> QED BY <1>2, <1>3, <1>5, <1>6, <1>7, <1>8, Zenon DEF WriteTurn

(* pipe_create.                                                            *)
LEMMA CreateKeeps ==
    ASSUME PipeInv, NEW name \in Names, pipe_create(name)
    PROVE  PipeInv'
  <1> DEFINE free == {i \in Slot : ~pipes[i].in_use}
  <1>1. PICK idx \in Slot : idx = First(free) /\ ~pipes[idx].in_use
    <2>1. free \in SUBSET Nat /\ free # {}
      BY PipeAssumption DEF pipe_create, Slot
    <2>2. First(free) \in free
      BY <2>1, FirstIs
    <2> QED BY <2>2, Zenon
  <1>2. PICK k : k = Lives + 1
    BY Zenon
  <1>3. PICK pipe : pipe = [in_use |-> TRUE, name |-> Stored(name), ring |-> <<>>, life |-> k]
    BY Zenon
  <1>4. /\ pipes' = [pipes EXCEPT ![idx] = pipe]
        /\ sent' = Append(sent, <<>>) /\ got' = Append(got, <<>>) /\ UNCHANGED call
    BY <1>1, <1>2, <1>3, Zenon DEF pipe_create
  <1>5. Lives \in Nat /\ Len(got) = Lives /\ sent \in Seq(Seq(Data)) /\ got \in Seq(Seq(Data))
    BY Elements DEF PipeInv, PipeTypeOK, Lives
  <1>6. <<>> \in Seq(Data) /\ Len(<<>>) = 0
    BY Nothing
  <1>7. /\ sent' \in Seq(Seq(Data)) /\ Len(sent') = k /\ sent'[k] = <<>>
        /\ \A l \in 1 .. Lives : sent'[l] = sent[l]
    BY <1>2, <1>4, <1>5, <1>6, OneMore DEF Lives
  <1>8. /\ got' \in Seq(Seq(Data)) /\ Len(got') = k /\ got'[k] = <<>>
        /\ \A l \in 1 .. Lives : got'[l] = got[l]
    BY <1>2, <1>4, <1>5, <1>6, OneMore
  <1>9. pipe \in PipeSlots
    BY <1>2, <1>3, <1>5, <1>6 DEF PipeSlots, PipeName
  <1>10. /\ pipes' \in [Slot -> PipeSlots] /\ pipes'[idx] = pipe
         /\ \A i \in Slot : i # idx => pipes'[i] = pipes[i]
    BY <1>4, <1>9 DEF PipeInv, PipeTypeOK
  <1>11. /\ Lives' = k /\ pipe.in_use /\ pipe.life = k /\ pipe.ring = <<>> /\ k \in Nat
         /\ k # 0 /\ k \notin 0 .. Lives /\ \A l \in 1 .. k : l \in 1 .. Lives \/ l = k
    BY <1>2, <1>3, <1>5, <1>7 DEF Lives
  <1>12. Balanced(<<>>, <<>>, <<>>) /\ Begins(<<>>, <<>>)
    <2>1. Len(<<>>) <= Room
      BY <1>6, PipeAssumption DEF Room
    <2> QED BY <1>6, <2>1, Joined, Piece DEF Balanced, Begins
  <1>13. ASSUME NEW i \in Slot
         PROVE  /\ pipes'[i].life \in 0 .. Lives' /\ (pipes'[i].in_use <=> pipes'[i].life # 0)
                /\ pipes'[i].in_use => Balanced(pipes'[i].ring, got'[pipes'[i].life], sent'[pipes'[i].life])
    <2>1. CASE i = idx
      <3>1. k \in 0 .. k
        BY <1>11
      <3> QED BY <1>7, <1>8, <1>10, <1>11, <1>12, <2>1, <3>1, Zenon
    <2>2. CASE i # idx
      <3>1. /\ pipes[i].life \in 0 .. Lives /\ (pipes[i].in_use <=> pipes[i].life # 0)
            /\ pipes[i].in_use => Balanced(pipes[i].ring, got[pipes[i].life], sent[pipes[i].life])
        BY DEF PipeInv, RingsAgree
      <3>2. pipes[i].life \in 0 .. k /\ (pipes[i].in_use => pipes[i].life \in 1 .. Lives)
        BY <1>2, <1>5, <3>1
      <3>3. pipes'[i] = pipes[i] /\ Lives' = k
        BY <1>10, <1>11, <2>2, Zenon
      <3>4. pipes[i].in_use => Balanced(pipes[i].ring, got'[pipes[i].life], sent'[pipes[i].life])
        BY <1>7, <1>8, <3>1, <3>2, Zenon
      <3> QED BY <3>1, <3>2, <3>3, <3>4, Zenon
    <2> QED BY <2>1, <2>2
  <1>14. ASSUME NEW i \in Slot, NEW j \in Slot, pipes'[i].in_use, pipes'[j].in_use,
                pipes'[i].life = pipes'[j].life
         PROVE  i = j
    <2>1. \A l \in Slot : pipes[l].life \in 0 .. Lives
      BY DEF PipeInv, RingsAgree
    <2>2. \A l \in Slot : l # idx => pipes'[l].life # k
      BY <1>10, <1>11, <2>1, Zenon
    <2>3. CASE i = idx \/ j = idx
      BY <1>10, <1>11, <1>14, <2>2, <2>3, Zenon
    <2>4. CASE i # idx /\ j # idx
      BY <1>10, <1>14, <2>4, Zenon DEF PipeInv, RingsAgree
    <2> QED BY <2>3, <2>4
  <1>15. ASSUME NEW l \in 1 .. Lives' PROVE Begins(got'[l], sent'[l])
    <2>1. CASE l = k
      BY <1>7, <1>8, <1>12, <2>1, Zenon
    <2>2. CASE l \in 1 .. Lives
      BY <1>7, <1>8, <2>2, Zenon DEF PipeInv, RingsAgree
    <2> QED BY <1>11, <2>1, <2>2, Zenon
  <1>16. PipeTypeOK'
    BY <1>4, <1>7, <1>8, <1>10 DEF PipeInv, PipeTypeOK
  <1> QED BY <1>13, <1>14, <1>15, <1>16, Zenon DEF PipeInv, RingsAgree

(* pipe_destroy: the slot is free again, what was sent stays.              *)
LEMMA DestroyKeeps ==
    ASSUME PipeInv, NEW name \in Names, pipe_destroy(name)
    PROVE  PipeInv'
  <1>1. PICK idx : idx = First(Found(name))
    BY Zenon
  <1>2. pipes' = [pipes EXCEPT ![idx] = NoPipe] /\ UNCHANGED <<call, sent, got>>
    BY <1>1 DEF pipe_destroy
  <1>3. NoPipe \in PipeSlots /\ ~NoPipe.in_use /\ NoPipe.life = 0
    BY Nothing DEF NoPipe, PipeSlots, PipeName
  <1>4. /\ pipes' \in [Slot -> PipeSlots]
        /\ \A i \in Slot : pipes'[i] = pipes[i] \/ (~pipes'[i].in_use /\ pipes'[i].life = 0)
    BY <1>2, <1>3, Zenon DEF PipeInv, PipeTypeOK
  <1>5. PipeTypeOK' /\ Lives' = Lives
    BY <1>2, <1>4 DEF PipeInv, PipeTypeOK, Lives
  <1>6. Lives \in Nat
    BY Elements DEF PipeInv, PipeTypeOK, Lives
  <1>7. ASSUME NEW i \in Slot
        PROVE  /\ pipes'[i].life \in 0 .. Lives' /\ (pipes'[i].in_use <=> pipes'[i].life # 0)
               /\ pipes'[i].in_use => Balanced(pipes'[i].ring, got'[pipes'[i].life], sent'[pipes'[i].life])
    <2>1. CASE pipes'[i] = pipes[i]
      BY <1>2, <1>5, <2>1, Zenon DEF PipeInv, RingsAgree
    <2>2. CASE ~pipes'[i].in_use /\ pipes'[i].life = 0
      BY <1>5, <1>6, <2>2
    <2> QED BY <1>4, <2>1, <2>2
  <1>8. \A i, j \in Slot : pipes'[i].in_use /\ pipes'[j].in_use /\ pipes'[i].life = pipes'[j].life => i = j
    BY <1>4, Zenon DEF PipeInv, RingsAgree
  <1>9. \A k \in 1 .. Lives' : Begins(got'[k], sent'[k])
    BY <1>2, <1>5, Zenon DEF PipeInv, RingsAgree
  <1> QED BY <1>5, <1>7, <1>8, <1>9, Zenon DEF PipeInv, RingsAgree

(* load_elf_into of a pipe empties its ring.                               *)
LEMMA LoadKeeps ==
    ASSUME PipeInv, NEW name \in Names, load_elf_into(name)
    PROVE  PipeInv'
  <1>1. PICK idx : idx = First(Found(name))
    BY Zenon
  <1>2. /\ pipes' = [pipes EXCEPT ![idx].ring = <<>>] /\ UNCHANGED <<call, sent>>
        /\ got' = [got EXCEPT ![pipes[idx].life] = @ \o pipes[idx].ring]
        /\ pipe_open(name) >= 0
    BY <1>1 DEF load_elf_into
  <1>3. idx \in Slot /\ pipes[idx].in_use
    <2>1. Found(name) # {}
      BY <1>2 DEF pipe_open
    <2>2. Found(name) \in SUBSET Nat
      BY PipeAssumption DEF Found, Slot
    <2>3. idx \in Found(name)
      BY <1>1, <2>1, <2>2, FirstIs
    <2> QED BY <2>3 DEF Found
  <1>4. PICK ring \in Seq(Data) : ring = pipes[idx].ring
    BY <1>3 DEF PipeInv, PipeTypeOK, PipeSlots
  <1>5. PICK k \in 1 .. Lives : k = pipes[idx].life
    BY <1>3, Elements DEF PipeInv, RingsAgree, PipeTypeOK, Lives
  <1>6. PICK out \in Seq(Data), in \in Seq(Data) : out = got[k] /\ in = sent[k]
    BY <1>5, SMTT(30) DEF PipeInv, PipeTypeOK, Lives
  <1>7. Balanced(ring, out, in)
    BY <1>3, <1>4, <1>5, <1>6 DEF PipeInv, RingsAgree
  <1>8. out \o ring = in /\ Balanced(<<>>, in, in) /\ <<>> \in Seq(Data)
    BY <1>7, Joined, Nothing, PipeAssumption DEF Balanced, Room
  <1>9. sent' = [sent EXCEPT ![k] = in]
    BY <1>2, <1>5, <1>6 DEF PipeInv, PipeTypeOK, Lives
  <1>10. got' = [got EXCEPT ![k] = in]
    BY <1>2, <1>4, <1>5, <1>6, <1>8
  <1>11. Turns(idx, <<>>, in, in)
    BY <1>2, <1>3, <1>5, <1>8, <1>9, <1>10, Zenon DEF Turns
  <1>12. call' \in [Proc -> {Running} \cup Calls]
    BY <1>2 DEF PipeInv, PipeTypeOK
  <1> QED BY <1>3, <1>11, <1>12, TurnKeeps, Zenon

(* The invariant puts the bytes in order.                                  *)
LEMMA BytesAreInOrder == PipeInv => BytesInOrder
  <1> SUFFICES ASSUME PipeInv, NEW k \in 1 .. Lives
               PROVE  LET ring == {pipes[i].ring : i \in {s \in Slot : pipes[s].life = k}}
                      IN  IF ring = {} THEN got[k] = SubSeq(sent[k], 1, Len(got[k]))
                          ELSE \A r \in ring : got[k] \o r = sent[k]
    BY Zenon DEF BytesInOrder
  <1>1. got[k] = SubSeq(sent[k], 1, Len(got[k]))
    BY DEF PipeInv, RingsAgree, Begins
  <1>2. ASSUME NEW i \in Slot, pipes[i].life = k PROVE got[k] \o pipes[i].ring = sent[k]
    <2>1. k # 0
      OBVIOUS
    <2> QED BY <1>2, <2>1, Zenon DEF PipeInv, RingsAgree, Balanced
  <1> QED BY <1>1, <1>2, Zenon

-----------------------------------------------------------------------------
(* Descriptors, and what they refer to.                                    *)
Flags == Access \cup {"O_RDONLY", "O_WRONLY"}
InUse == [in_use : {TRUE}, fs_id : Int, fs_handle : Int, open_flags : Flags]
PipeFds == [in_use : {TRUE}, pipe_idx : Slot, writable : BOOLEAN]
Files == [in_use : {TRUE}, path : Paths, flags : Access, size : 0 .. MaxSize, pos : 0 .. MaxSize]

VfsTypeOK ==
    /\ fds \in [Proc -> [Fd -> {NotInUse} \cup InUse]]
    /\ pipe_fds \in [Handle -> {Closed} \cup PipeFds]
    /\ g_open \in [OpenFile -> {NotOpen} \cup Files]
    /\ file_size \in [Paths -> 0 .. MaxSize]

IsVirtual(f, v) == f.in_use /\ f.fs_id = vfs_virtual_fs_id_from_index(v)
IsStd(f) == f.in_use /\ f.fs_id = ConsoleId

(* The numbers decode to what they were made from, and to nothing else.    *)
LEMMA Decodes ==
    /\ \A h \in Handle :
          LET id == vfs_pipe_fs_id_from_handle(h)
          IN  /\ id \in Int /\ id # ConsoleId /\ id # 0 /\ id < 0
              /\ vfs_pipe_handle_from_fs_id(id) = h /\ h >= 0
              /\ vfs_virtual_index_from_fs_id(id) < 0
    /\ \A v \in Virtual :
          LET id == vfs_virtual_fs_id_from_index(v)
          IN  /\ id \in Int /\ id # ConsoleId /\ id # 0 /\ id < 0
              /\ vfs_pipe_handle_from_fs_id(id) = -1
              /\ vfs_virtual_index_from_fs_id(id) = v /\ v >= 0
    /\ \A id \in {0, ConsoleId} :
          /\ id \in Int
          /\ vfs_pipe_handle_from_fs_id(id) = -1 /\ vfs_virtual_index_from_fs_id(id) = -1
    /\ ConsoleId # 0 /\ ConsoleId < 0
  BY PipeAssumption, VfsAssumption
     DEF Handle, Virtual, vfs_pipe_fs_id_from_handle, vfs_pipe_handle_from_fs_id, ConsoleId,
         vfs_virtual_fs_id_from_index, vfs_virtual_index_from_fs_id, VFS_PIPE_BASE_ID, VFS_VIRT_BASE_ID

(* The numbers of different kinds differ, and those of different handles.  *)
LEMMA NumbersDiffer ==
    /\ \A h, k \in Handle : vfs_pipe_fs_id_from_handle(h) = vfs_pipe_fs_id_from_handle(k) => h = k
    /\ \A h \in Handle, v \in Virtual : vfs_pipe_fs_id_from_handle(h) # vfs_virtual_fs_id_from_index(v)
    /\ \A v, w \in Virtual : vfs_virtual_fs_id_from_index(v) = vfs_virtual_fs_id_from_index(w) => v = w
  BY PipeAssumption, VfsAssumption
     DEF Handle, Virtual, vfs_pipe_fs_id_from_handle, vfs_virtual_fs_id_from_index,
         VFS_PIPE_BASE_ID, VFS_VIRT_BASE_ID

(* Every descriptor in use stands for something that is there.             *)
Stands(f) ==
    \/ IsStd(f)
    \/ \E v \in Virtual : IsVirtual(f, v) /\ f.fs_handle \in 0 .. MaxSize
    \/ \E h \in Handle : IsPipe(f, h) /\ pipe_fds[h].in_use
    \/ \E h \in OpenFile : IsFile(f, h) /\ g_open[h].in_use

(* A handle in use has a descriptor, and no handle has two.                *)
OwnersAreOne ==
    /\ \A h \in Handle : pipe_fds[h].in_use => \E p \in Proc, d \in Fd : IsPipe(fds[p][d], h)
    /\ \A h \in OpenFile : g_open[h].in_use => \E p \in Proc, d \in Fd : IsFile(fds[p][d], h)
    /\ \A p, q \in Proc, d, e \in Fd, h \in Handle :
          IsPipe(fds[p][d], h) /\ IsPipe(fds[q][e], h) => p = q /\ d = e
    /\ \A p, q \in Proc, d, e \in Fd, h \in OpenFile :
          IsFile(fds[p][d], h) /\ IsFile(fds[q][e], h) => p = q /\ d = e

FdInv ==
    /\ VfsTypeOK
    /\ \A p \in Proc, d \in Fd : fds[p][d].in_use => Stands(fds[p][d])
    /\ OwnersAreOne

(* What each kind of descriptor means.                                     *)
Shown(object, f, pos) == [object |-> object, access |-> f.open_flags, pos |-> pos]

(* The meaning of a descriptor, kind by kind.                              *)
LEMMA MeaningIs ==
    ASSUME NEW f
    PROVE  /\ ~f.in_use => Meaning(f) = [object |-> "none"]
           /\ IsStd(f) => Meaning(f) = Shown(<<"console", f.fs_handle>>, f, 0)
           /\ \A v \in Virtual : IsVirtual(f, v) => Meaning(f) = Shown(<<"virtual", v>>, f, f.fs_handle)
           /\ \A h \in Handle : IsPipe(f, h) /\ pipe_fds[h].in_use =>
                 Meaning(f) = Shown(<<"pipe", pipe_fds[h].pipe_idx, pipe_fds[h].writable>>, f, 0)
           /\ \A h \in OpenFile : IsFile(f, h) /\ g_open[h].in_use =>
                 Meaning(f) = Shown(<<"file", g_open[h].path>>, f, g_open[h].pos)
  <1>1. ~f.in_use => Meaning(f) = [object |-> "none"]
    BY Zenon DEF Meaning
  <1>2. ASSUME IsStd(f) PROVE Meaning(f) = Shown(<<"console", f.fs_handle>>, f, 0)
    BY <1>2, Zenon DEF Meaning, IsStd, Shown
  <1>3. ASSUME NEW v \in Virtual, IsVirtual(f, v) PROVE Meaning(f) = Shown(<<"virtual", v>>, f, f.fs_handle)
    <2>1. /\ f.in_use /\ f.fs_id # ConsoleId /\ ~(vfs_pipe_handle_from_fs_id(f.fs_id) >= 0)
          /\ vfs_virtual_index_from_fs_id(f.fs_id) = v /\ v >= 0
      BY <1>3, Decodes DEF IsVirtual
    <2> QED BY <2>1, Zenon DEF Meaning, Shown
  <1>4. ASSUME NEW h \in Handle, IsPipe(f, h), pipe_fds[h].in_use
        PROVE  Meaning(f) = Shown(<<"pipe", pipe_fds[h].pipe_idx, pipe_fds[h].writable>>, f, 0)
    <2>1. f.in_use /\ f.fs_id # ConsoleId /\ vfs_pipe_handle_from_fs_id(f.fs_id) = h /\ h >= 0
      BY <1>4, Decodes DEF IsPipe
    <2> QED BY <1>4, <2>1, Zenon DEF Meaning, Shown
  <1>5. ASSUME NEW h \in OpenFile, IsFile(f, h), g_open[h].in_use
        PROVE  Meaning(f) = Shown(<<"file", g_open[h].path>>, f, g_open[h].pos)
    <2>1. /\ f.in_use /\ f.fs_id # ConsoleId /\ ~(vfs_pipe_handle_from_fs_id(f.fs_id) >= 0)
          /\ ~(vfs_virtual_index_from_fs_id(f.fs_id) >= 0) /\ f.fs_id \in 0 .. fs_count - 1
          /\ f.fs_handle = h
      BY <1>5, Decodes DEF IsFile, fs_count, ConsoleId
    <2> QED BY <1>5, <2>1, Zenon DEF Meaning, Shown
  <1> QED BY <1>1, <1>2, <1>3, <1>4, <1>5, Zenon

(* One that is in use does not look unused.                                *)
LEMMA ShownIsUsed ==
    ASSUME NEW object, NEW f, NEW pos
    PROVE  Shown(object, f, pos) # [object |-> "none"]
  <1>1. "pos" \in DOMAIN Shown(object, f, pos)
    BY DEF Shown
  <1>2. "pos" \notin DOMAIN [object |-> "none"]
    OBVIOUS
  <1> QED BY <1>1, <1>2, Zenon

(* Only a descriptor that is not in use means nothing.                     *)
LEMMA UnusedMeansNone ==
    ASSUME FdInv, NEW p \in Proc, NEW d \in Fd
    PROVE  Meaning(fds[p][d]) = [object |-> "none"] <=> ~fds[p][d].in_use
  <1>1. CASE ~fds[p][d].in_use
    BY <1>1, MeaningIs, Zenon
  <1>2. CASE fds[p][d].in_use
    <2>1. Stands(fds[p][d])
      BY <1>2, Zenon DEF FdInv
    <2>2. \E object, pos : Meaning(fds[p][d]) = Shown(object, fds[p][d], pos)
      BY <2>1, MeaningIs, Zenon DEF Stands
    <2> QED BY <1>2, <2>2, ShownIsUsed, Zenon
  <1> QED BY <1>1, <1>2

(* The same for every descriptor there is.                                 *)
Means(p, d) == Meaning(fds[p][d])

MeaningsAgree ==
    \A p \in Proc, d \in Fd :
       /\ ~fds[p][d].in_use => Means(p, d) = [object |-> "none"]
       /\ IsStd(fds[p][d]) => Means(p, d) = Shown(<<"console", fds[p][d].fs_handle>>, fds[p][d], 0)
       /\ \A v \in Virtual : IsVirtual(fds[p][d], v) =>
             Means(p, d) = Shown(<<"virtual", v>>, fds[p][d], fds[p][d].fs_handle)
       /\ \A h \in Handle : IsPipe(fds[p][d], h) /\ pipe_fds[h].in_use =>
             Means(p, d) = Shown(<<"pipe", pipe_fds[h].pipe_idx, pipe_fds[h].writable>>, fds[p][d], 0)
       /\ \A h \in OpenFile : IsFile(fds[p][d], h) /\ g_open[h].in_use =>
             Means(p, d) = Shown(<<"file", g_open[h].path>>, fds[p][d], g_open[h].pos)

(* The meanings as the mapping to Descriptors states them are those above; *)
(* without a prime, so that it also holds of the next state.               *)
LEMMA AllMeaningsAgree == MeaningsAgree
  <1> SUFFICES ASSUME NEW p \in Proc, NEW d \in Fd
               PROVE
       /\ ~fds[p][d].in_use => Means(p, d) = [object |-> "none"]
       /\ IsStd(fds[p][d]) => Means(p, d) = Shown(<<"console", fds[p][d].fs_handle>>, fds[p][d], 0)
       /\ \A v \in Virtual : IsVirtual(fds[p][d], v) =>
             Means(p, d) = Shown(<<"virtual", v>>, fds[p][d], fds[p][d].fs_handle)
       /\ \A h \in Handle : IsPipe(fds[p][d], h) /\ pipe_fds[h].in_use =>
             Means(p, d) = Shown(<<"pipe", pipe_fds[h].pipe_idx, pipe_fds[h].writable>>, fds[p][d], 0)
       /\ \A h \in OpenFile : IsFile(fds[p][d], h) /\ g_open[h].in_use =>
             Means(p, d) = Shown(<<"file", g_open[h].path>>, fds[p][d], g_open[h].pos)
    BY Zenon DEF MeaningsAgree
  <1> QED BY MeaningIs, Zenon DEF Means

(* And after every step.                                                   *)
LEMMA MeaningsAgreeNext == MeaningsAgree'
  BY AllMeaningsAgree, PTL

(* A descriptor and what it refers to stay: it means the same.             *)
LEMMA MeansTheSame ==
    ASSUME NEW q \in Proc, NEW e \in Fd, fds'[q][e] = fds[q][e],
           fds[q][e].in_use => Stands(fds[q][e]),
           \A h \in Handle : IsPipe(fds[q][e], h) => pipe_fds'[h] = pipe_fds[h],
           \A h \in OpenFile : IsFile(fds[q][e], h) => g_open'[h] = g_open[h]
    PROVE  Means(q, e)' = Means(q, e) /\ (fds[q][e].in_use => Stands(fds[q][e])')
  <1>1. MeaningsAgree /\ MeaningsAgree'
    BY AllMeaningsAgree, MeaningsAgreeNext
  <1>a. /\ IsStd(fds[q][e]) => Means(q, e) = Shown(<<"console", fds[q][e].fs_handle>>, fds[q][e], 0)
        /\ (IsStd(fds[q][e]) => Means(q, e) = Shown(<<"console", fds[q][e].fs_handle>>, fds[q][e], 0))'
    BY <1>1, Zenon DEF MeaningsAgree
  <1>b. ASSUME NEW v \in Virtual
        PROVE  /\ IsVirtual(fds[q][e], v) => Means(q, e) = Shown(<<"virtual", v>>, fds[q][e], fds[q][e].fs_handle)
               /\ (IsVirtual(fds[q][e], v) => Means(q, e) = Shown(<<"virtual", v>>, fds[q][e], fds[q][e].fs_handle))'
    BY <1>1, Zenon DEF MeaningsAgree
  <1>c. ASSUME NEW h \in Handle
        PROVE  /\ IsPipe(fds[q][e], h) /\ pipe_fds[h].in_use =>
                     Means(q, e) = Shown(<<"pipe", pipe_fds[h].pipe_idx, pipe_fds[h].writable>>, fds[q][e], 0)
               /\ (IsPipe(fds[q][e], h) /\ pipe_fds[h].in_use =>
                     Means(q, e) = Shown(<<"pipe", pipe_fds[h].pipe_idx, pipe_fds[h].writable>>, fds[q][e], 0))'
    BY <1>1, Zenon DEF MeaningsAgree
  <1>d. ASSUME NEW h \in OpenFile
        PROVE  /\ IsFile(fds[q][e], h) /\ g_open[h].in_use =>
                     Means(q, e) = Shown(<<"file", g_open[h].path>>, fds[q][e], g_open[h].pos)
               /\ (IsFile(fds[q][e], h) /\ g_open[h].in_use =>
                     Means(q, e) = Shown(<<"file", g_open[h].path>>, fds[q][e], g_open[h].pos))'
    BY <1>1, Zenon DEF MeaningsAgree
  <1>2. PICK f : f = fds[q][e] /\ f = fds'[q][e]
    BY Zenon
  <1>3. CASE ~f.in_use
    <2>1. Means(q, e) = [object |-> "none"] /\ Means(q, e)' = [object |-> "none"]
      BY <1>1, <1>2, <1>3, Zenon DEF MeaningsAgree
    <2> QED BY <1>2, <1>3, <2>1, Zenon
  <1>4. CASE IsStd(f)
    <2>1. IsStd(fds[q][e]) /\ IsStd(fds[q][e])'
      BY <1>2, <1>4, Zenon DEF IsStd
    <2>2. Means(q, e) = Shown(<<"console", f.fs_handle>>, f, 0)
      BY <1>a, <1>2, <2>1, Zenon
    <2>3. Means(q, e)' = Shown(<<"console", f.fs_handle>>, f, 0)
      BY <1>a, <1>2, <2>1, Zenon DEF Shown
    <2> QED BY <2>1, <2>2, <2>3, Zenon DEF Stands
  <1>5. ASSUME NEW v \in Virtual, IsVirtual(f, v), f.fs_handle \in 0 .. MaxSize
        PROVE  Means(q, e)' = Means(q, e) /\ Stands(fds[q][e])'
    <2>1. IsVirtual(fds[q][e], v) /\ IsVirtual(fds[q][e], v)'
      BY <1>2, <1>5, Zenon DEF IsVirtual, vfs_virtual_fs_id_from_index
    <2>2. Means(q, e) = Shown(<<"virtual", v>>, f, f.fs_handle)
      BY <1>b, <1>2, <2>1, Zenon
    <2>3. Means(q, e)' = Shown(<<"virtual", v>>, f, f.fs_handle)
      BY <1>b, <1>2, <2>1, Zenon DEF Shown
    <2> QED BY <1>2, <1>5, <2>1, <2>2, <2>3, Zenon DEF Stands
  <1>6. ASSUME NEW h \in Handle, IsPipe(f, h), pipe_fds[h].in_use
        PROVE  Means(q, e)' = Means(q, e) /\ Stands(fds[q][e])'
    <2>1. IsPipe(fds[q][e], h) /\ IsPipe(fds[q][e], h)' /\ pipe_fds'[h] = pipe_fds[h]
      BY <1>2, <1>6, Zenon DEF IsPipe, vfs_pipe_fs_id_from_handle
    <2>2. Means(q, e) = Shown(<<"pipe", pipe_fds[h].pipe_idx, pipe_fds[h].writable>>, f, 0)
      BY <1>c, <1>2, <1>6, <2>1, Zenon
    <2>3. Means(q, e)' = Shown(<<"pipe", pipe_fds[h].pipe_idx, pipe_fds[h].writable>>, f, 0)
      BY <1>c, <1>2, <1>6, <2>1, Zenon DEF Shown
    <2> QED BY <1>6, <2>1, <2>2, <2>3, Zenon DEF Stands
  <1>7. ASSUME NEW h \in OpenFile, IsFile(f, h), g_open[h].in_use
        PROVE  Means(q, e)' = Means(q, e) /\ Stands(fds[q][e])'
    <2>1. IsFile(fds[q][e], h) /\ IsFile(fds[q][e], h)' /\ g_open'[h] = g_open[h]
      BY <1>2, <1>7, Zenon DEF IsFile
    <2>2. Means(q, e) = Shown(<<"file", g_open[h].path>>, f, g_open[h].pos)
      BY <1>d, <1>2, <1>7, <2>1, Zenon
    <2>3. Means(q, e)' = Shown(<<"file", g_open[h].path>>, f, g_open[h].pos)
      BY <1>d, <1>2, <1>7, <2>1, Zenon DEF Shown
    <2> QED BY <1>7, <2>1, <2>2, <2>3, Zenon DEF Stands
  <1> QED BY <1>2, <1>3, <1>4, <1>5, <1>6, <1>7, Zenon DEF Stands

(* What a descriptor refers to is in use.                                  *)
LEMMA RefersInUse ==
    ASSUME FdInv, NEW q \in Proc, NEW e \in Fd
    PROVE  /\ \A h \in Handle : IsPipe(fds[q][e], h) => pipe_fds[h].in_use
           /\ \A h \in OpenFile : IsFile(fds[q][e], h) => g_open[h].in_use
  <1>1. ASSUME NEW h \in Handle, IsPipe(fds[q][e], h) PROVE pipe_fds[h].in_use
    <2>1. Stands(fds[q][e])
      BY <1>1, Zenon DEF FdInv, IsPipe
    <2> QED BY <1>1, <2>1, NumbersDiffer, Decodes, Zenon DEF Stands, IsPipe, IsStd, IsVirtual, IsFile
  <1>2. ASSUME NEW h \in OpenFile, IsFile(fds[q][e], h) PROVE g_open[h].in_use
    <2>1. Stands(fds[q][e])
      BY <1>2, Zenon DEF FdInv, IsFile
    <2> QED BY <1>2, <2>1, Decodes, Zenon DEF Stands, IsPipe, IsStd, IsVirtual, IsFile
  <1> QED BY <1>1, <1>2

(* Descriptor d of task p becomes f.  No other descriptor's handle         *)
(* changes; a handle f takes was free or the old one's, and no handle in   *)
(* use is left without a descriptor.                                       *)
Becomes(p, d, f) ==
    /\ fds' = [fds EXCEPT ![p][d] = f] /\ f \in {NotInUse} \cup InUse
    /\ pipe_fds' \in [Handle -> {Closed} \cup PipeFds]
    /\ g_open' \in [OpenFile -> {NotOpen} \cup Files]
    /\ file_size' \in [Paths -> 0 .. MaxSize]
    /\ f.in_use => Stands(f)'
    /\ \A h \in Handle :
          /\ pipe_fds[h].in_use /\ ~IsPipe(fds[p][d], h) => pipe_fds'[h] = pipe_fds[h] /\ ~IsPipe(f, h)
          /\ pipe_fds'[h].in_use => IsPipe(f, h) \/ (pipe_fds[h].in_use /\ ~IsPipe(fds[p][d], h))
    /\ \A h \in OpenFile :
          /\ g_open[h].in_use /\ ~IsFile(fds[p][d], h) => g_open'[h] = g_open[h] /\ ~IsFile(f, h)
          /\ g_open'[h].in_use => IsFile(f, h) \/ (g_open[h].in_use /\ ~IsFile(fds[p][d], h))

(* Setting one descriptor, with the handle it owns, keeps the invariant    *)
(* and the meaning of every other descriptor.                              *)
LEMMA BecomesKeeps ==
    ASSUME FdInv, NEW p \in Proc, NEW d \in Fd, NEW f, Becomes(p, d, f)
    PROVE  /\ FdInv'
           /\ \A q \in Proc, e \in Fd : q # p \/ e # d => Means(q, e)' = Means(q, e)
  <1>1. VfsTypeOK /\ OwnersAreOne /\ \A q \in Proc, e \in Fd : fds[q][e].in_use => Stands(fds[q][e])
    BY DEF FdInv
  <1>2. /\ fds' \in [Proc -> [Fd -> {NotInUse} \cup InUse]] /\ fds'[p][d] = f
        /\ \A q \in Proc, e \in Fd : q # p \/ e # d => fds'[q][e] = fds[q][e]
    BY <1>1 DEF Becomes, VfsTypeOK
  <1>3. VfsTypeOK'
    BY <1>2 DEF Becomes, VfsTypeOK
  <1>4. ASSUME NEW q \in Proc, NEW e \in Fd, q # p \/ e # d
        PROVE  /\ \A h \in Handle : IsPipe(fds[q][e], h) => pipe_fds[h].in_use /\ ~IsPipe(fds[p][d], h)
               /\ \A h \in OpenFile : IsFile(fds[q][e], h) => g_open[h].in_use /\ ~IsFile(fds[p][d], h)
    BY <1>1, <1>4, RefersInUse, Zenon DEF OwnersAreOne
  <1>5. ASSUME NEW q \in Proc, NEW e \in Fd, q # p \/ e # d
        PROVE  Means(q, e)' = Means(q, e) /\ (fds[q][e].in_use => Stands(fds[q][e])')
    <2>1. /\ fds'[q][e] = fds[q][e] /\ (fds[q][e].in_use => Stands(fds[q][e]))
          /\ \A h \in Handle : IsPipe(fds[q][e], h) => pipe_fds'[h] = pipe_fds[h]
          /\ \A h \in OpenFile : IsFile(fds[q][e], h) => g_open'[h] = g_open[h]
      BY <1>1, <1>2, <1>4, <1>5, Zenon DEF Becomes
    <2> QED BY <2>1, MeansTheSame, Zenon
  <1>6. ASSUME NEW q \in Proc, NEW e \in Fd, fds'[q][e].in_use PROVE Stands(fds[q][e])'
    <2>1. CASE q # p \/ e # d
      BY <1>2, <1>5, <1>6, <2>1, Zenon
    <2>2. CASE q = p /\ e = d
      <3>1. Stands(f)' /\ f = fds'[q][e]
        BY <1>2, <1>6, <2>2, Zenon DEF Becomes
      <3> QED BY <3>1, Zenon DEF Stands, IsStd, IsVirtual, IsPipe, IsFile
    <2> QED BY <2>1, <2>2
  <1>7. \A q \in Proc, e \in Fd, h \in Handle : q # p \/ e # d =>
           (IsPipe(fds[q][e], h)' <=> IsPipe(fds[q][e], h))
    BY <1>2, Zenon DEF IsPipe, vfs_pipe_fs_id_from_handle
  <1>8. \A q \in Proc, e \in Fd, h \in OpenFile : q # p \/ e # d =>
           (IsFile(fds[q][e], h)' <=> IsFile(fds[q][e], h))
    BY <1>2, Zenon DEF IsFile
  <1>9. \A h \in Handle : IsPipe(fds[p][d], h)' <=> IsPipe(f, h)
    BY <1>2, Zenon DEF IsPipe, vfs_pipe_fs_id_from_handle
  <1>10. \A h \in OpenFile : IsFile(fds[p][d], h)' <=> IsFile(f, h)
    BY <1>2, Zenon DEF IsFile
  <1>11. ASSUME NEW h \in Handle, pipe_fds'[h].in_use
         PROVE  \E q \in Proc, e \in Fd : IsPipe(fds[q][e], h)'
    <2>1. CASE IsPipe(f, h)
      BY <1>9, <2>1, Zenon
    <2>2. CASE pipe_fds[h].in_use /\ ~IsPipe(fds[p][d], h)
      <3>1. PICK q \in Proc, e \in Fd : IsPipe(fds[q][e], h)
        BY <1>1, <2>2, Zenon DEF OwnersAreOne
      <3> QED BY <1>7, <2>2, <3>1, Zenon
    <2> QED BY <1>11, <2>1, <2>2, Zenon DEF Becomes
  <1>12. ASSUME NEW h \in OpenFile, g_open'[h].in_use
         PROVE  \E q \in Proc, e \in Fd : IsFile(fds[q][e], h)'
    <2>1. CASE IsFile(f, h)
      BY <1>10, <2>1, Zenon
    <2>2. CASE g_open[h].in_use /\ ~IsFile(fds[p][d], h)
      <3>1. PICK q \in Proc, e \in Fd : IsFile(fds[q][e], h)
        BY <1>1, <2>2, Zenon DEF OwnersAreOne
      <3> QED BY <1>8, <2>2, <3>1, Zenon
    <2> QED BY <1>12, <2>1, <2>2, Zenon DEF Becomes
  <1>13. ASSUME NEW h \in Handle, NEW q \in Proc, NEW e \in Fd, q # p \/ e # d, IsPipe(fds[q][e], h)'
         PROVE  ~IsPipe(f, h)
    BY <1>4, <1>7, <1>13, Zenon DEF Becomes
  <1>14. ASSUME NEW h \in OpenFile, NEW q \in Proc, NEW e \in Fd, q # p \/ e # d, IsFile(fds[q][e], h)'
         PROVE  ~IsFile(f, h)
    BY <1>4, <1>8, <1>14, Zenon DEF Becomes
  <1>15. ASSUME NEW h \in Handle, NEW q \in Proc, NEW r \in Proc, NEW e \in Fd, NEW g \in Fd,
                IsPipe(fds[q][e], h)', IsPipe(fds[r][g], h)'
         PROVE  q = r /\ e = g
    <2>1. CASE (q # p \/ e # d) /\ (r # p \/ g # d)
      <3>1. IsPipe(fds[q][e], h) /\ IsPipe(fds[r][g], h)
        BY <1>7, <1>15, <2>1, Zenon
      <3> QED BY <1>1, <3>1, Zenon DEF OwnersAreOne
    <2>2. CASE (q # p \/ e # d) /\ (r = p /\ g = d)
      BY <1>9, <1>13, <1>15, <2>2, Zenon
    <2>3. CASE (r # p \/ g # d) /\ (q = p /\ e = d)
      BY <1>9, <1>13, <1>15, <2>3, Zenon
    <2> QED BY <2>1, <2>2, <2>3
  <1>16. ASSUME NEW h \in OpenFile, NEW q \in Proc, NEW r \in Proc, NEW e \in Fd, NEW g \in Fd,
                IsFile(fds[q][e], h)', IsFile(fds[r][g], h)'
         PROVE  q = r /\ e = g
    <2>1. CASE (q # p \/ e # d) /\ (r # p \/ g # d)
      <3>1. IsFile(fds[q][e], h) /\ IsFile(fds[r][g], h)
        BY <1>8, <1>16, <2>1, Zenon
      <3> QED BY <1>1, <3>1, Zenon DEF OwnersAreOne
    <2>2. CASE (q # p \/ e # d) /\ (r = p /\ g = d)
      BY <1>10, <1>14, <1>16, <2>2, Zenon
    <2>3. CASE (r # p \/ g # d) /\ (q = p /\ e = d)
      BY <1>10, <1>14, <1>16, <2>3, Zenon
    <2> QED BY <2>1, <2>2, <2>3
  <1>17. OwnersAreOne'
    BY <1>11, <1>12, <1>15, <1>16, Zenon DEF OwnersAreOne
  <1> QED BY <1>3, <1>5, <1>6, <1>17, Zenon DEF FdInv

-----------------------------------------------------------------------------
(* Every step is a call on one descriptor.                                 *)
Unused == [object |-> "none"]
OnlyAt(p, d) == \A q \in Proc, e \in Fd : q # p \/ e # d => Means(q, e)' = Means(q, e)

Opening(p, d) ==
    /\ Means(p, d) = Unused /\ \A e \in Fd : Means(p, e) = Unused => d <= e
    /\ Means(p, d)' \in OpenedObjects

Moving(p, d) ==
    /\ Means(p, d) # Unused /\ Means(p, d).object[1] \in {"file", "virtual"}
    /\ \E n \in 0 .. MaxSize : Means(p, d)' = [Means(p, d) EXCEPT !.pos = n]

(* A step that does one of these to one descriptor is a promised one.      *)
LEMMA IsCall ==
    ASSUME NEW p \in Proc, NEW d \in Fd, OnlyAt(p, d),
           Opening(p, d) \/ Moving(p, d) \/ Means(p, d)' = Unused
    PROVE  Promised!Next
  <1> DEFINE t == [q \in Proc |-> [e \in Fd |-> Meaning(fds[q][e])]]
  <1>1. \A q \in Proc, e \in Fd : t[q][e] = Means(q, e) /\ t'[q][e] = Means(q, e)'
    BY Zenon DEF Means
  <1>2. ASSUME NEW q \in Proc \ {p} PROVE t'[q] = t[q]
    <2>1. \A e \in Fd : Meaning(fds[q][e])' = Meaning(fds[q][e])
      BY <1>2, Zenon DEF OnlyAt, Means
    <2> QED BY <2>1, Zenon
  <1>3. ASSUME NEW e \in Fd \ {d} PROVE t'[p][e] = t[p][e]
    <2>1. Means(p, e)' = Means(p, e)
      BY Zenon DEF OnlyAt
    <2> QED BY <1>1, <2>1
  <1>4. CASE Opening(p, d)
    <2>1. t[p][d] = Unused /\ (\A e \in Fd : t[p][e] = Unused => d <= e) /\ t'[p][d] \in OpenedObjects
      BY <1>1, <1>4, Zenon DEF Opening
    <2>2. Promised!Open(p, d)
      BY <2>1, Zenon DEF Promised!Open, Promised!Unused, Unused
    <2> QED BY <1>2, <1>3, <2>2, Zenon DEF Promised!Next
  <1>5. CASE Moving(p, d)
    <2>1. /\ t[p][d] # Unused /\ t[p][d].object[1] \in {"file", "virtual"}
          /\ \E n \in 0 .. MaxSize : t'[p][d] = [t[p][d] EXCEPT !.pos = n]
      BY <1>1, <1>5, Zenon DEF Moving
    <2>2. Promised!Move(p, d)
      BY <2>1, Zenon DEF Promised!Move, Promised!HasPosition, Promised!Unused, Unused
    <2> QED BY <1>2, <1>3, <2>2, Zenon DEF Promised!Next
  <1>6. CASE Means(p, d)' = Unused
    <2>1. t'[p][d] = Unused
      BY <1>1, <1>6, Zenon
    <2>2. Promised!Close(p, d)
      BY <2>1, Zenon DEF Promised!Close, Promised!Unused, Unused
    <2> QED BY <1>2, <1>3, <2>2, Zenon DEF Promised!Next
  <1> QED BY <1>4, <1>5, <1>6

(* What a step must leave behind.                                          *)
Keeps == FdInv' /\ (Promised!Next \/ UNCHANGED <<fds, pipe_fds, g_open>>)

(* A step that leaves descriptors, handles and open files alone.           *)
LEMMA StutterKeeps ==
    ASSUME FdInv, UNCHANGED <<fds, pipe_fds, g_open, file_size>>
    PROVE  Keeps
  <1>1. fds' = fds /\ pipe_fds' = pipe_fds /\ g_open' = g_open /\ VfsTypeOK'
    BY Zenon DEF FdInv, VfsTypeOK
  <1>2. ASSUME NEW p \in Proc, NEW d \in Fd, fds'[p][d].in_use PROVE Stands(fds[p][d])'
    BY <1>1, <1>2, SMTT(30) DEF FdInv, Stands, IsStd, IsVirtual, IsPipe, IsFile
  <1>3. OwnersAreOne'
    BY <1>1 DEF FdInv, OwnersAreOne, IsPipe, IsFile
  <1> QED BY <1>1, <1>2, <1>3, Zenon DEF FdInv, Keeps

(* The descriptor an open takes.                                           *)
LEMMA FirstFree ==
    ASSUME FdInv, NEW p \in Proc, FreeFds(p) # {}
    PROVE  /\ First(FreeFds(p)) \in Fd /\ ~fds[p][First(FreeFds(p))].in_use
           /\ Means(p, First(FreeFds(p))) = Unused
           /\ \A e \in Fd : Means(p, e) = Unused => First(FreeFds(p)) <= e
  <1>1. FreeFds(p) \in SUBSET Nat
    BY VfsAssumption DEF FreeFds, Fd
  <1>2. First(FreeFds(p)) \in FreeFds(p) /\ \A e \in FreeFds(p) : First(FreeFds(p)) <= e
    BY <1>1, FirstIs, Zenon
  <1>3. \A e \in Fd : Means(p, e) = Unused <=> ~fds[p][e].in_use
    BY UnusedMeansNone, Zenon DEF Means, Unused
  <1> QED BY <1>2, <1>3, Zenon DEF FreeFds

(* A new descriptor f in place of an unused one, for a handle or an open   *)
(* file that was free.                                                     *)
Fresh(p, d, f) ==
    /\ ~fds[p][d].in_use /\ f \in InUse
    /\ fds' = [fds EXCEPT ![p][d] = f] /\ UNCHANGED file_size
    /\ \/ \E h \in Handle, x \in PipeFds :
             /\ IsPipe(f, h) /\ ~pipe_fds[h].in_use
             /\ pipe_fds' = [pipe_fds EXCEPT ![h] = x] /\ UNCHANGED g_open
       \/ \E v \in Virtual : IsVirtual(f, v) /\ f.fs_handle = 0 /\ UNCHANGED <<pipe_fds, g_open>>
       \/ \E h \in OpenFile, x \in Files :
             /\ IsFile(f, h) /\ ~g_open[h].in_use
             /\ g_open' = [g_open EXCEPT ![h] = x] /\ UNCHANGED pipe_fds

(* An unused descriptor that gets a handle nobody owned is such a change.  *)
LEMMA FreshBecomes ==
    ASSUME FdInv, NEW p \in Proc, NEW d \in Fd, NEW f, Fresh(p, d, f)
    PROVE  Becomes(p, d, f)
  <1>1. VfsTypeOK
    BY DEF FdInv
  <1>2. /\ fds' = [fds EXCEPT ![p][d] = f] /\ f \in {NotInUse} \cup InUse
        /\ file_size' \in [Paths -> 0 .. MaxSize]
        /\ \A h \in Handle : ~IsPipe(fds[p][d], h)
        /\ \A h \in OpenFile : ~IsFile(fds[p][d], h)
    BY <1>1, Zenon DEF Fresh, VfsTypeOK, IsPipe, IsFile
  <1>3. ASSUME NEW h \in Handle, NEW x \in PipeFds, IsPipe(f, h), ~pipe_fds[h].in_use,
               pipe_fds' = [pipe_fds EXCEPT ![h] = x], UNCHANGED g_open
        PROVE  Becomes(p, d, f)
    <2>1. /\ pipe_fds' \in [Handle -> {Closed} \cup PipeFds] /\ pipe_fds'[h] = x /\ x.in_use
          /\ \A k \in Handle : k # h => pipe_fds'[k] = pipe_fds[k]
      BY <1>1, <1>3, Zenon DEF VfsTypeOK, PipeFds
    <2>2. g_open' \in [OpenFile -> {NotOpen} \cup Files] /\ g_open' = g_open
      BY <1>1, <1>3, Zenon DEF VfsTypeOK
    <2>3. \A k \in Handle : IsPipe(f, k) <=> k = h
      BY <1>3, NumbersDiffer, Zenon DEF IsPipe
    <2>4. \A k \in OpenFile : ~IsFile(f, k)
      BY <1>3, Decodes, Zenon DEF IsPipe, IsFile
    <2>5. Stands(f)'
      BY <1>3, <2>1, Zenon DEF Stands, IsPipe, vfs_pipe_fs_id_from_handle
    <2> QED BY <1>2, <1>3, <2>1, <2>2, <2>3, <2>4, <2>5, Zenon DEF Becomes
  <1>4. ASSUME NEW v \in Virtual, IsVirtual(f, v), f.fs_handle = 0, UNCHANGED <<pipe_fds, g_open>>
        PROVE  Becomes(p, d, f)
    <2>1. /\ pipe_fds' \in [Handle -> {Closed} \cup PipeFds] /\ pipe_fds' = pipe_fds
          /\ g_open' \in [OpenFile -> {NotOpen} \cup Files] /\ g_open' = g_open
      BY <1>1, <1>4, Zenon DEF VfsTypeOK
    <2>2. (\A k \in Handle : ~IsPipe(f, k)) /\ \A k \in OpenFile : ~IsFile(f, k)
      BY <1>4, NumbersDiffer, Decodes, Zenon DEF IsPipe, IsFile, IsVirtual
    <2>3. 0 \in 0 .. MaxSize
      BY VfsAssumption
    <2>4. Stands(f)'
      BY <1>4, <2>3, Zenon DEF Stands, IsVirtual, vfs_virtual_fs_id_from_index
    <2> QED BY <1>2, <2>1, <2>2, <2>4, Zenon DEF Becomes
  <1>5. ASSUME NEW h \in OpenFile, NEW x \in Files, IsFile(f, h), ~g_open[h].in_use,
               g_open' = [g_open EXCEPT ![h] = x], UNCHANGED pipe_fds
        PROVE  Becomes(p, d, f)
    <2>1. /\ g_open' \in [OpenFile -> {NotOpen} \cup Files] /\ g_open'[h] = x /\ x.in_use
          /\ \A k \in OpenFile : k # h => g_open'[k] = g_open[k]
      BY <1>1, <1>5, Zenon DEF VfsTypeOK, Files
    <2>2. pipe_fds' \in [Handle -> {Closed} \cup PipeFds] /\ pipe_fds' = pipe_fds
      BY <1>1, <1>5, Zenon DEF VfsTypeOK
    <2>3. \A k \in OpenFile : IsFile(f, k) <=> k = h
      BY <1>5, Zenon DEF IsFile
    <2>4. \A k \in Handle : ~IsPipe(f, k)
      BY <1>5, Decodes, Zenon DEF IsPipe, IsFile
    <2>5. Stands(f)'
      BY <1>5, <2>1, Zenon DEF Stands, IsFile
    <2> QED BY <1>2, <1>5, <2>1, <2>2, <2>3, <2>4, <2>5, Zenon DEF Becomes
  <1> QED BY <1>3, <1>4, <1>5, Zenon DEF Fresh

(* An open that fills in the first free descriptor and shows an opened     *)
(* object.                                                                 *)
LEMMA OpenKeeps ==
    ASSUME FdInv, NEW p \in Proc, FreeFds(p) # {}, NEW d \in Fd, d = First(FreeFds(p)),
           NEW f, Fresh(p, d, f), Means(p, d)' \in OpenedObjects
    PROVE  Keeps
  <1>2. FdInv' /\ OnlyAt(p, d)
    BY FreshBecomes, BecomesKeeps, Zenon DEF OnlyAt
  <1>3. Opening(p, d)
    BY FirstFree, Zenon DEF Opening
  <1> QED BY <1>2, <1>3, IsCall, Zenon DEF Keeps

(* What an open shows is one of the opened objects.                        *)
LEMMA Opens ==
    /\ \A i \in Slot, a \in Access \ {"O_RDWR"} :
          [object |-> <<"pipe", i, a = "O_WRONLY">>, access |-> a, pos |-> 0] \in OpenedObjects
    /\ \A v \in Virtual :
          [object |-> <<"virtual", v>>, access |-> "O_RDONLY", pos |-> 0] \in OpenedObjects
    /\ \A path \in Paths, a \in Access :
          [object |-> <<"file", path>>, access |-> a, pos |-> 0] \in OpenedObjects
  <1>1. ASSUME NEW i \in Slot, NEW a \in Access \ {"O_RDWR"}
        PROVE  [object |-> <<"pipe", i, a = "O_WRONLY">>, access |-> a, pos |-> 0] \in OpenedObjects
    <2>1. [object |-> <<"pipe", i, a = "O_WRONLY">>, access |-> a, pos |-> 0] \in
             {[object |-> <<"pipe", j, b = "O_WRONLY">>, access |-> b, pos |-> 0] :
                 j \in Slot, b \in Access \ {"O_RDWR"}}
      OBVIOUS
    <2> QED BY <2>1 DEF OpenedObjects
  <1>2. ASSUME NEW v \in Virtual
        PROVE  [object |-> <<"virtual", v>>, access |-> "O_RDONLY", pos |-> 0] \in OpenedObjects
    BY DEF OpenedObjects
  <1>3. ASSUME NEW path \in Paths, NEW a \in Access
        PROVE  [object |-> <<"file", path>>, access |-> a, pos |-> 0] \in OpenedObjects
    <2>1. [object |-> <<"file", path>>, access |-> a, pos |-> 0] \in
             {[object |-> <<"file", q>>, access |-> b, pos |-> 0] : q \in Paths, b \in Access}
      OBVIOUS
    <2> QED BY <2>1 DEF OpenedObjects
  <1> QED BY <1>1, <1>2, <1>3, Zenon

(* vfs_open of a pipe, of a virtual file and of a file.                    *)
LEMMA OpenPipeKeeps ==
    ASSUME FdInv, NEW p \in Proc, NEW name \in Names, NEW access \in Access,
           vfs_open_pipe(p, name, access)
    PROVE  Keeps
  <1>1. PICK d \in Fd : d = First(FreeFds(p)) /\ ~fds[p][d].in_use
    BY FirstFree, Zenon DEF vfs_open_pipe
  <1>2. PICK h : h = pipe_open(name)
    BY Zenon
  <1>3. h \in Handle /\ ~pipe_fds[h].in_use /\ Found(name) # {}
    <2> DEFINE free == {k \in Handle : ~pipe_fds[k].in_use}
    <2>1. h >= 0 /\ h = IF Found(name) = {} \/ free = {} THEN -1 ELSE First(free)
      BY <1>2, Zenon DEF pipe_open, vfs_open_pipe
    <2>2. Found(name) # {} /\ free # {} /\ h = First(free)
      BY <2>1
    <2>3. free \in SUBSET Nat
      BY PipeAssumption DEF Handle
    <2>4. h \in free
      BY <2>2, <2>3, FirstIs, Zenon
    <2> QED BY <2>2, <2>4, Zenon
  <1>4. PICK i \in Slot : i = First(Found(name))
    <2>1. Found(name) \in SUBSET Nat
      BY PipeAssumption DEF Found, Slot
    <2>2. First(Found(name)) \in Found(name)
      BY <1>3, <2>1, FirstIs, Zenon
    <2> QED BY <2>2, Zenon DEF Found
  <1>5. PICK f : f = [in_use |-> TRUE, fs_id |-> vfs_pipe_fs_id_from_handle(h), fs_handle |-> h,
                      open_flags |-> access]
    BY Zenon
  <1>6. PICK w \in BOOLEAN : w = (access = "O_WRONLY")
    BY Zenon
  <1>7. PICK x : x = [in_use |-> TRUE, pipe_idx |-> i, writable |-> w]
    BY Zenon
  <1>8. x \in PipeFds /\ x.in_use /\ x.pipe_idx = i /\ x.writable = w
    BY <1>7 DEF PipeFds
  <1>9. f \in InUse /\ IsPipe(f, h) /\ f.open_flags = access
    <2>1. vfs_pipe_fs_id_from_handle(h) \in Int /\ h \in Int
      BY <1>3, PipeAssumption, Decodes DEF Handle
    <2> QED BY <1>5, <2>1, Zenon DEF InUse, IsPipe, Flags
  <1>10. /\ fds' = [fds EXCEPT ![p][d] = f] /\ pipe_fds' = [pipe_fds EXCEPT ![h] = x]
         /\ UNCHANGED <<g_open, file_size>> /\ access # "O_RDWR" /\ FreeFds(p) # {}
    BY <1>1, <1>2, <1>4, <1>5, <1>6, <1>7, Zenon DEF vfs_open_pipe, Descriptor, pipe_alloc_fd
  <1>11. Fresh(p, d, f)
    BY <1>1, <1>3, <1>8, <1>9, <1>10, Zenon DEF Fresh
  <1>12. fds'[p][d] = f /\ pipe_fds'[h] = x
    BY <1>3, <1>10, Zenon DEF FdInv, VfsTypeOK
  <1>13. Means(p, d)' = Shown(<<"pipe", i, w>>, f, 0)
    <2>1. IsPipe(fds[p][d], h)' /\ pipe_fds'[h].in_use
      BY <1>8, <1>9, <1>12, Zenon DEF IsPipe, vfs_pipe_fs_id_from_handle
    <2>2. (Means(p, d) = Shown(<<"pipe", pipe_fds[h].pipe_idx, pipe_fds[h].writable>>, fds[p][d], 0))'
      BY <1>3, <2>1, MeaningsAgreeNext, Zenon DEF MeaningsAgree
    <2> QED BY <1>8, <1>12, <2>2, Zenon DEF Shown
  <1>14. Means(p, d)' \in OpenedObjects
    <2>1. Means(p, d)' = [object |-> <<"pipe", i, access = "O_WRONLY">>, access |-> access, pos |-> 0]
      BY <1>6, <1>9, <1>13, Zenon DEF Shown
    <2> QED BY <1>10, <2>1, Opens, Zenon
  <1> QED BY <1>1, <1>10, <1>11, <1>14, OpenKeeps, Zenon

(* vfs_open of a virtual file.                                             *)
LEMMA OpenVirtualKeeps ==
    ASSUME FdInv, NEW p \in Proc, NEW v \in Virtual, NEW access \in Access,
           vfs_open_virtual(p, v, access)
    PROVE  Keeps
  <1>1. PICK d \in Fd : d = First(FreeFds(p)) /\ ~fds[p][d].in_use
    BY FirstFree, Zenon DEF vfs_open_virtual
  <1>2. PICK f : f = [in_use |-> TRUE, fs_id |-> vfs_virtual_fs_id_from_index(v), fs_handle |-> 0,
                      open_flags |-> access]
    BY Zenon
  <1>3. f \in InUse /\ IsVirtual(f, v) /\ f.open_flags = access /\ f.fs_handle = 0
    <2>1. vfs_virtual_fs_id_from_index(v) \in Int /\ 0 \in Int
      BY Decodes
    <2> QED BY <1>2, <2>1, Zenon DEF InUse, IsVirtual, Flags
  <1>4. /\ fds' = [fds EXCEPT ![p][d] = f] /\ UNCHANGED <<pipe_fds, g_open, file_size>>
        /\ access = "O_RDONLY" /\ FreeFds(p) # {}
    BY <1>1, <1>2 DEF vfs_open_virtual, Descriptor, pipeVars
  <1>5. Fresh(p, d, f)
    BY <1>1, <1>3, <1>4 DEF Fresh
  <1>6. fds'[p][d] = f
    BY <1>4, Zenon DEF FdInv, VfsTypeOK
  <1>7. Means(p, d)' = Shown(<<"virtual", v>>, f, 0)
    <2>1. IsVirtual(fds[p][d], v)'
      BY <1>3, <1>6, Zenon DEF IsVirtual, vfs_virtual_fs_id_from_index
    <2>2. (Means(p, d) = Shown(<<"virtual", v>>, fds[p][d], fds[p][d].fs_handle))'
      BY <2>1, MeaningsAgreeNext, Zenon DEF MeaningsAgree
    <2> QED BY <1>3, <1>6, <2>2, Zenon DEF Shown
  <1>8. Means(p, d)' \in OpenedObjects
    <2>1. Means(p, d)' = [object |-> <<"virtual", v>>, access |-> "O_RDONLY", pos |-> 0]
      BY <1>3, <1>4, <1>7, Zenon DEF Shown
    <2> QED BY <2>1, Opens, Zenon
  <1> QED BY <1>1, <1>4, <1>5, <1>8, OpenKeeps, Zenon

(* vfs_open of a file on disk.                                             *)
LEMMA OpenFileKeeps ==
    ASSUME FdInv, NEW p \in Proc, NEW path \in Paths, NEW access \in Access,
           vfs_open_file(p, path, access)
    PROVE  Keeps
  <1> DEFINE free == {k \in OpenFile : ~g_open[k].in_use}
  <1>1. PICK d \in Fd : d = First(FreeFds(p)) /\ ~fds[p][d].in_use
    BY FirstFree, Zenon DEF vfs_open_file
  <1>2. PICK h \in OpenFile : h = First(free) /\ ~g_open[h].in_use
    <2>1. free \in SUBSET Nat /\ free # {}
      BY VfsAssumption DEF OpenFile, vfs_open_file
    <2>2. First(free) \in free
      BY <2>1, FirstIs, Zenon
    <2> QED BY <2>2, Zenon
  <1>3. PICK f : f = [in_use |-> TRUE, fs_id |-> 0, fs_handle |-> h, open_flags |-> access]
    BY Zenon
  <1>4. PICK x : x = [in_use |-> TRUE, path |-> path, flags |-> access, size |-> file_size[path],
                      pos |-> 0]
    BY Zenon
  <1>5. x \in Files /\ x.in_use /\ x.path = path /\ x.pos = 0
    <2>1. file_size[path] \in 0 .. MaxSize /\ 0 \in 0 .. MaxSize
      BY VfsAssumption DEF FdInv, VfsTypeOK
    <2> QED BY <1>4, <2>1, Zenon DEF Files
  <1>6. f \in InUse /\ IsFile(f, h) /\ f.open_flags = access
    <2>1. 0 \in Int /\ h \in Int
      BY VfsAssumption DEF OpenFile
    <2> QED BY <1>3, <2>1, Zenon DEF InUse, IsFile, Flags
  <1>7. /\ fds' = [fds EXCEPT ![p][d] = f] /\ g_open' = [g_open EXCEPT ![h] = x]
        /\ UNCHANGED <<pipe_fds, file_size>> /\ FreeFds(p) # {}
    BY <1>1, <1>2, <1>3, <1>4, Zenon DEF vfs_open_file, Descriptor, pipeVars
  <1>8. Fresh(p, d, f)
    BY <1>1, <1>2, <1>5, <1>6, <1>7 DEF Fresh
  <1>9. fds'[p][d] = f /\ g_open'[h] = x
    BY <1>7, Zenon DEF FdInv, VfsTypeOK
  <1>10. Means(p, d)' = Shown(<<"file", path>>, f, 0)
    <2>1. IsFile(fds[p][d], h)' /\ g_open'[h].in_use
      BY <1>5, <1>6, <1>9, Zenon DEF IsFile
    <2>2. (Means(p, d) = Shown(<<"file", g_open[h].path>>, fds[p][d], g_open[h].pos))'
      BY <2>1, MeaningsAgreeNext, Zenon DEF MeaningsAgree
    <2> QED BY <1>5, <1>9, <2>2, Zenon DEF Shown
  <1>11. Means(p, d)' \in OpenedObjects
    <2>1. Means(p, d)' = [object |-> <<"file", path>>, access |-> access, pos |-> 0]
      BY <1>6, <1>10, Zenon DEF Shown
    <2> QED BY <2>1, Opens, Zenon
  <1> QED BY <1>1, <1>7, <1>8, <1>11, OpenKeeps, Zenon

(* A call that moves the position of open file h, owned by descriptor d.   *)
LEMMA MoveFileKeeps ==
    ASSUME FdInv, NEW p \in Proc, NEW d \in Fd, NEW h \in OpenFile, IsFile(fds[p][d], h),
           NEW x \in Files, x.path = g_open[h].path,
           g_open' = [g_open EXCEPT ![h] = x], UNCHANGED <<fds, pipe_fds>>,
           file_size' \in [Paths -> 0 .. MaxSize]
    PROVE  Keeps
  <1>1. VfsTypeOK /\ g_open[h].in_use
    BY RefersInUse, Zenon DEF FdInv
  <1>2. PICK f : f = fds[p][d]
    BY Zenon
  <1>3. fds' = [fds EXCEPT ![p][d] = f] /\ f \in {NotInUse} \cup InUse /\ fds' = fds /\ fds'[p][d] = f
    BY <1>1, <1>2 DEF VfsTypeOK
  <1>4. /\ g_open' \in [OpenFile -> {NotOpen} \cup Files] /\ g_open'[h] = x /\ x.in_use
        /\ x.pos \in 0 .. MaxSize /\ \A k \in OpenFile : k # h => g_open'[k] = g_open[k]
    BY <1>1, Zenon DEF VfsTypeOK, Files
  <1>5. pipe_fds' \in [Handle -> {Closed} \cup PipeFds] /\ pipe_fds' = pipe_fds
    BY <1>1, Zenon DEF VfsTypeOK
  <1>6. \A k \in OpenFile : IsFile(f, k) <=> k = h
    BY <1>2, Zenon DEF IsFile
  <1>7. \A k \in Handle : ~IsPipe(f, k)
    BY <1>2, Decodes, Zenon DEF IsPipe, IsFile
  <1>8. Stands(f)'
    BY <1>2, <1>4, Zenon DEF Stands, IsFile
  <1>9. Becomes(p, d, f)
    BY <1>1, <1>2, <1>3, <1>4, <1>5, <1>6, <1>7, <1>8, Zenon DEF Becomes
  <1>10. FdInv' /\ OnlyAt(p, d)
    BY <1>9, BecomesKeeps, Zenon DEF OnlyAt
  <1>11. Means(p, d) = Shown(<<"file", x.path>>, f, g_open[h].pos)
    BY <1>1, <1>2, AllMeaningsAgree, Zenon DEF MeaningsAgree
  <1>12. Means(p, d)' = Shown(<<"file", x.path>>, f, x.pos)
    <2>1. IsFile(fds[p][d], h)' /\ g_open'[h].in_use
      BY <1>3, <1>4, Zenon DEF IsFile
    <2>2. (Means(p, d) = Shown(<<"file", g_open[h].path>>, fds[p][d], g_open[h].pos))'
      BY <2>1, MeaningsAgreeNext, Zenon DEF MeaningsAgree
    <2> QED BY <1>3, <1>4, <2>2, Zenon DEF Shown
  <1>13. Moving(p, d)
    <2>1. Means(p, d) # Unused
      BY <1>11, ShownIsUsed, Zenon DEF Unused
    <2>2. Means(p, d).object[1] = "file" /\ Means(p, d)' = [Means(p, d) EXCEPT !.pos = x.pos]
      BY <1>11, <1>12 DEF Shown
    <2> QED BY <1>4, <2>1, <2>2, Zenon DEF Moving
  <1> QED BY <1>10, <1>13, IsCall, Zenon DEF Keeps

(* The same for a virtual file, whose position is in the descriptor.       *)
LEMMA MoveVirtualKeeps ==
    ASSUME FdInv, NEW p \in Proc, NEW d \in Fd, NEW v \in Virtual, IsVirtual(fds[p][d], v),
           NEW n \in 0 .. MaxSize,
           fds' = [fds EXCEPT ![p][d].fs_handle = n], UNCHANGED <<pipe_fds, g_open, file_size>>
    PROVE  Keeps
  <1>1. VfsTypeOK
    BY DEF FdInv
  <1>2. PICK f : f = [fds[p][d] EXCEPT !.fs_handle = n]
    BY Zenon
  <1>3. fds[p][d] \in InUse
    <2>1. fds[p][d] \in {NotInUse} \cup InUse /\ ~NotInUse.in_use /\ fds[p][d].in_use
      BY <1>1 DEF VfsTypeOK, NotInUse, IsVirtual
    <2> QED BY <2>1, Zenon
  <1>4. /\ f \in InUse /\ f.in_use /\ f.fs_id = fds[p][d].fs_id /\ f.fs_handle = n
        /\ f.open_flags = fds[p][d].open_flags
    <2>1. n \in Int
      BY VfsAssumption
    <2>2. PICK g \in InUse : g = fds[p][d]
      BY <1>3, Zenon
    <2>3. f = [g EXCEPT !.fs_handle = n]
      BY <1>2, <2>2, Zenon
    <2>4. f \in InUse /\ f.in_use /\ f.fs_id = g.fs_id /\ f.fs_handle = n /\ f.open_flags = g.open_flags
      BY <2>1, <2>3, Zenon DEF InUse
    <2> QED BY <2>2, <2>4, Zenon
  <1>5. fds' = [fds EXCEPT ![p][d] = f] /\ fds'[p][d] = f
    BY <1>1, <1>2 DEF VfsTypeOK
  <1>6. /\ pipe_fds' \in [Handle -> {Closed} \cup PipeFds] /\ pipe_fds' = pipe_fds
        /\ g_open' \in [OpenFile -> {NotOpen} \cup Files] /\ g_open' = g_open
        /\ file_size' \in [Paths -> 0 .. MaxSize]
    BY <1>1, Zenon DEF VfsTypeOK
  <1>7. /\ \A k \in Handle : ~IsPipe(f, k) /\ ~IsPipe(fds[p][d], k)
        /\ \A k \in OpenFile : ~IsFile(f, k) /\ ~IsFile(fds[p][d], k)
    BY <1>4, NumbersDiffer, Decodes, Zenon DEF IsPipe, IsFile, IsVirtual
  <1>8. IsVirtual(f, v) /\ Stands(f)'
    BY <1>4, Zenon DEF Stands, IsVirtual, vfs_virtual_fs_id_from_index
  <1>9. Becomes(p, d, f)
    BY <1>4, <1>5, <1>6, <1>7, <1>8, Zenon DEF Becomes
  <1>10. FdInv' /\ OnlyAt(p, d)
    BY <1>9, BecomesKeeps, Zenon DEF OnlyAt
  <1>11. Means(p, d) = Shown(<<"virtual", v>>, f, fds[p][d].fs_handle)
    BY <1>4, AllMeaningsAgree, Zenon DEF MeaningsAgree, Shown
  <1>12. Means(p, d)' = Shown(<<"virtual", v>>, f, n)
    <2>1. IsVirtual(fds[p][d], v)'
      BY <1>5, <1>8, Zenon DEF IsVirtual, vfs_virtual_fs_id_from_index
    <2>2. (Means(p, d) = Shown(<<"virtual", v>>, fds[p][d], fds[p][d].fs_handle))'
      BY <2>1, MeaningsAgreeNext, Zenon DEF MeaningsAgree
    <2> QED BY <1>4, <1>5, <2>2, Zenon DEF Shown
  <1>13. Moving(p, d)
    <2>1. Means(p, d) # Unused
      BY <1>11, ShownIsUsed, Zenon DEF Unused
    <2>2. Means(p, d).object[1] = "virtual" /\ Means(p, d)' = [Means(p, d) EXCEPT !.pos = n]
      BY <1>11, <1>12 DEF Shown
    <2> QED BY <2>1, <2>2, Zenon DEF Moving
  <1> QED BY <1>10, <1>13, IsCall, Zenon DEF Keeps

(* The handle and the open file that vfs_close finds in a descriptor.      *)
LEMMA CloseFinds ==
    ASSUME NEW f, f.in_use, Stands(f)
    PROVE  /\ \A h \in Handle : vfs_pipe_handle_from_fs_id(f.fs_id) = h <=> IsPipe(f, h)
           /\ \A h \in OpenFile :
                 (/\ vfs_pipe_handle_from_fs_id(f.fs_id) < 0
                  /\ vfs_virtual_index_from_fs_id(f.fs_id) < 0
                  /\ f.fs_id >= 0 /\ f.fs_handle = h) <=> IsFile(f, h)
  <1>1. \A h \in Handle : h # -1
    BY PipeAssumption DEF Handle
  <1>2. CASE IsStd(f)
    <2>1. /\ f.fs_id = ConsoleId /\ vfs_pipe_handle_from_fs_id(ConsoleId) = -1 /\ ConsoleId # 0
          /\ ~(ConsoleId >= 0) /\ \A h \in Handle : vfs_pipe_fs_id_from_handle(h) # ConsoleId
      BY <1>2, Decodes DEF IsStd
    <2> QED BY <1>1, <2>1, Zenon DEF IsPipe, IsFile
  <1>3. ASSUME NEW v \in Virtual, IsVirtual(f, v)
        PROVE  /\ \A h \in Handle : vfs_pipe_handle_from_fs_id(f.fs_id) = h <=> IsPipe(f, h)
               /\ \A h \in OpenFile :
                     (/\ vfs_pipe_handle_from_fs_id(f.fs_id) < 0
                      /\ vfs_virtual_index_from_fs_id(f.fs_id) < 0
                      /\ f.fs_id >= 0 /\ f.fs_handle = h) <=> IsFile(f, h)
    <2>1. PICK id : id = vfs_virtual_fs_id_from_index(v)
      BY Zenon
    <2>2. /\ vfs_pipe_handle_from_fs_id(id) = -1 /\ id # 0 /\ ~(id >= 0) /\ f.fs_id = id
          /\ \A h \in Handle : vfs_pipe_fs_id_from_handle(h) # id
      BY <1>3, <2>1, Decodes, NumbersDiffer DEF IsVirtual
    <2> QED BY <1>1, <2>2, Zenon DEF IsPipe, IsFile
  <1>4. ASSUME NEW k \in Handle, IsPipe(f, k)
        PROVE  /\ \A h \in Handle : vfs_pipe_handle_from_fs_id(f.fs_id) = h <=> IsPipe(f, h)
               /\ \A h \in OpenFile :
                     (/\ vfs_pipe_handle_from_fs_id(f.fs_id) < 0
                      /\ vfs_virtual_index_from_fs_id(f.fs_id) < 0
                      /\ f.fs_id >= 0 /\ f.fs_handle = h) <=> IsFile(f, h)
    <2>1. PICK id : id = vfs_pipe_fs_id_from_handle(k)
      BY Zenon
    <2>2. /\ vfs_pipe_handle_from_fs_id(id) = k /\ id # 0 /\ ~(id >= 0) /\ f.fs_id = id
          /\ \A h \in Handle : vfs_pipe_fs_id_from_handle(h) = id <=> h = k
      BY <1>4, <2>1, Decodes, NumbersDiffer DEF IsPipe
    <2> QED BY <2>2, Zenon DEF IsPipe, IsFile
  <1>5. ASSUME NEW k \in OpenFile, IsFile(f, k)
        PROVE  /\ \A h \in Handle : vfs_pipe_handle_from_fs_id(f.fs_id) = h <=> IsPipe(f, h)
               /\ \A h \in OpenFile :
                     (/\ vfs_pipe_handle_from_fs_id(f.fs_id) < 0
                      /\ vfs_virtual_index_from_fs_id(f.fs_id) < 0
                      /\ f.fs_id >= 0 /\ f.fs_handle = h) <=> IsFile(f, h)
    <2>1. /\ vfs_pipe_handle_from_fs_id(0) = -1 /\ f.fs_id = 0 /\ 0 >= 0
          /\ vfs_pipe_handle_from_fs_id(0) < 0 /\ vfs_virtual_index_from_fs_id(0) < 0
          /\ \A h \in Handle : vfs_pipe_fs_id_from_handle(h) # 0
      BY <1>5, Decodes DEF IsFile
    <2> QED BY <1>1, <1>5, <2>1, Zenon DEF IsPipe, IsFile
  <1> QED BY <1>2, <1>3, <1>4, <1>5, Zenon DEF Stands

(* vfs_close of descriptors with contents D frees what they refer to.      *)
LEMMA ClosesThose ==
    ASSUME NEW D, \A f \in D : f.in_use /\ Stands(f), vfs_close_of(D)
    PROVE  /\ pipe_fds' = [h \in Handle |-> IF \E f \in D : IsPipe(f, h) THEN Closed ELSE pipe_fds[h]]
           /\ g_open' = [h \in OpenFile |-> IF \E f \in D : IsFile(f, h) THEN NotOpen ELSE g_open[h]]
  <1> DEFINE handles == {vfs_pipe_handle_from_fs_id(f.fs_id) : f \in D}
             files == {f.fs_handle : f \in {g \in D :
                         /\ vfs_pipe_handle_from_fs_id(g.fs_id) < 0
                         /\ vfs_virtual_index_from_fs_id(g.fs_id) < 0
                         /\ g.fs_id >= 0}}
  <1>1. /\ pipe_fds' = [h \in Handle |-> IF h \in handles THEN Closed ELSE pipe_fds[h]]
        /\ g_open' = [h \in OpenFile |-> IF h \in files THEN NotOpen ELSE g_open[h]]
    BY Zenon DEF vfs_close_of, Released
  <1>2. \A h \in Handle : h \in handles <=> \E f \in D : IsPipe(f, h)
    <2>1. \A f \in D, h \in Handle : vfs_pipe_handle_from_fs_id(f.fs_id) = h <=> IsPipe(f, h)
      BY CloseFinds, Zenon
    <2> QED BY <2>1, Zenon
  <1>3. \A h \in OpenFile : h \in files <=> \E f \in D : IsFile(f, h)
    <2>1. \A f \in D, h \in OpenFile :
             (/\ vfs_pipe_handle_from_fs_id(f.fs_id) < 0
              /\ vfs_virtual_index_from_fs_id(f.fs_id) < 0
              /\ f.fs_id >= 0 /\ f.fs_handle = h) <=> IsFile(f, h)
      BY CloseFinds, Zenon
    <2> QED BY <2>1, Zenon
  <1> HIDE DEF handles, files
  <1> QED BY <1>1, <1>2, <1>3

(* vfs_close.                                                              *)
LEMMA CloseKeeps ==
    ASSUME FdInv, NEW p \in Proc, NEW d \in Fd, vfs_close(p, d)
    PROVE  Keeps
  <1>1. VfsTypeOK /\ fds[p][d].in_use /\ Stands(fds[p][d])
    BY Zenon DEF FdInv, vfs_close
  <1>2. /\ pipe_fds' = [h \in Handle |-> IF IsPipe(fds[p][d], h) THEN Closed ELSE pipe_fds[h]]
        /\ g_open' = [h \in OpenFile |-> IF IsFile(fds[p][d], h) THEN NotOpen ELSE g_open[h]]
    <2>1. PICK D : D = {fds[p][d]}
      BY Zenon
    <2>2. (\A f \in D : f.in_use /\ Stands(f)) /\ vfs_close_of(D)
      BY <1>1, <2>1, Zenon DEF vfs_close
    <2>3. /\ pipe_fds' = [h \in Handle |-> IF \E f \in D : IsPipe(f, h) THEN Closed ELSE pipe_fds[h]]
          /\ g_open' = [h \in OpenFile |-> IF \E f \in D : IsFile(f, h) THEN NotOpen ELSE g_open[h]]
      BY <2>2, ClosesThose, Zenon
    <2>4. /\ \A h \in Handle : (\E f \in D : IsPipe(f, h)) <=> IsPipe(fds[p][d], h)
          /\ \A h \in OpenFile : (\E f \in D : IsFile(f, h)) <=> IsFile(fds[p][d], h)
      BY <2>1, Zenon
    <2> QED BY <2>3, <2>4
  <1>3. ~Closed.in_use /\ ~NotOpen.in_use /\ ~NotInUse.in_use
    BY DEF Closed, NotOpen, NotInUse
  <1>4. /\ fds' = [fds EXCEPT ![p][d] = NotInUse] /\ file_size' = file_size
        /\ file_size' \in [Paths -> 0 .. MaxSize]
    BY <1>1, Zenon DEF vfs_close, VfsTypeOK
  <1>5. /\ pipe_fds' \in [Handle -> {Closed} \cup PipeFds]
        /\ g_open' \in [OpenFile -> {NotOpen} \cup Files]
    BY <1>1, <1>2 DEF VfsTypeOK
  <1>6. \A h \in Handle : pipe_fds'[h] = IF IsPipe(fds[p][d], h) THEN Closed ELSE pipe_fds[h]
    BY <1>2, Zenon
  <1>7. \A h \in OpenFile : g_open'[h] = IF IsFile(fds[p][d], h) THEN NotOpen ELSE g_open[h]
    BY <1>2, Zenon
  <1>8. (\A h : ~IsPipe(NotInUse, h)) /\ \A h : ~IsFile(NotInUse, h)
    BY <1>3, Zenon DEF IsPipe, IsFile
  <1>9. Becomes(p, d, NotInUse)
    BY <1>3, <1>4, <1>5, <1>6, <1>7, <1>8, Zenon DEF Becomes
  <1>10. FdInv' /\ OnlyAt(p, d)
    BY <1>9, BecomesKeeps, Zenon DEF OnlyAt
  <1>11. fds'[p][d] = NotInUse
    BY <1>1, <1>4, Zenon DEF VfsTypeOK
  <1>12. Means(p, d)' = Unused
    BY <1>3, <1>11, MeaningsAgreeNext, Zenon DEF MeaningsAgree, Unused
  <1> QED BY <1>10, <1>12, IsCall, Zenon DEF Keeps

(* The table a task starts with.                                           *)
LEMMA FreshIs ==
    /\ FreshTable \in [Fd -> {NotInUse} \cup InUse]
    /\ \A d \in Fd : /\ FreshTable[d].in_use => IsStd(FreshTable[d])
                     /\ \A h : ~IsFile(FreshTable[d], h)
                     /\ \A h \in Handle : ~IsPipe(FreshTable[d], h)
  <1>1. ASSUME NEW d \in Fd
        PROVE  /\ FreshTable[d] \in {NotInUse} \cup InUse
               /\ FreshTable[d].in_use => FreshTable[d].fs_id = ConsoleId
    <2>1. CASE d \notin StdFds
      BY <2>1 DEF FreshTable, NotInUse
    <2>2. CASE d \in StdFds
      <3>1. PICK a \in Flags : a = IF d = 0 THEN "O_RDONLY" ELSE "O_WRONLY"
        BY DEF Flags
      <3>2. FreshTable[d] = [in_use |-> TRUE, fs_id |-> ConsoleId, fs_handle |-> d, open_flags |-> a]
        BY <2>2, <3>1, Zenon DEF FreshTable
      <3>3. ConsoleId \in Int /\ d \in Int
        BY VfsAssumption DEF ConsoleId, Fd
      <3> QED BY <3>1, <3>2, <3>3 DEF InUse
    <2> QED BY <2>1, <2>2
  <1>2. FreshTable = [d \in Fd |-> FreshTable[d]]
    BY Zenon DEF FreshTable
  <1>3. FreshTable \in [Fd -> {NotInUse} \cup InUse]
    BY <1>1, <1>2, Zenon
  <1>4. ConsoleId # 0 /\ \A h \in Handle : vfs_pipe_fs_id_from_handle(h) # ConsoleId
    BY Decodes
  <1> QED BY <1>1, <1>3, <1>4, Zenon DEF IsStd, IsFile, IsPipe

(* vfs_close_all: the task ends.                                           *)
LEMMA EndKeeps ==
    ASSUME FdInv, NEW p \in Proc, vfs_close_all(p)
    PROVE  Keeps
  <1>1. VfsTypeOK /\ OwnersAreOne /\ \A q \in Proc, e \in Fd : fds[q][e].in_use => Stands(fds[q][e])
    BY DEF FdInv
  <1> DEFINE Held(h) == \E d \in Fd : IsPipe(fds[p][d], h)
             Kept(h) == \E d \in Fd : IsFile(fds[p][d], h)
  <1>2. /\ pipe_fds' = [h \in Handle |-> IF Held(h) THEN Closed ELSE pipe_fds[h]]
        /\ g_open' = [h \in OpenFile |-> IF Kept(h) THEN NotOpen ELSE g_open[h]]
    <2>1. PICK D : D = {fds[p][d] : d \in {e \in Fd : fds[p][e].in_use}}
      BY Zenon
    <2>2. (\A f \in D : f.in_use /\ Stands(f)) /\ vfs_close_of(D)
      BY <1>1, <2>1, Zenon DEF vfs_close_all
    <2>3. /\ pipe_fds' = [h \in Handle |-> IF \E f \in D : IsPipe(f, h) THEN Closed ELSE pipe_fds[h]]
          /\ g_open' = [h \in OpenFile |-> IF \E f \in D : IsFile(f, h) THEN NotOpen ELSE g_open[h]]
      BY <2>2, ClosesThose, Zenon
    <2>4. /\ \A h \in Handle : (\E f \in D : IsPipe(f, h)) <=> Held(h)
          /\ \A h \in OpenFile : (\E f \in D : IsFile(f, h)) <=> Kept(h)
      BY <2>1, Zenon DEF IsPipe, IsFile
    <2> HIDE DEF Held, Kept
    <2> QED BY <2>3, <2>4
  <1>3. ~Closed.in_use /\ ~NotOpen.in_use
    BY DEF Closed, NotOpen
  <1>4. fds' = [fds EXCEPT ![p] = FreshTable] /\ file_size' = file_size
    BY DEF vfs_close_all
  <1>5. /\ fds' \in [Proc -> [Fd -> {NotInUse} \cup InUse]] /\ fds'[p] = FreshTable
        /\ \A q \in Proc \ {p} : fds'[q] = fds[q]
    BY <1>1, <1>4, FreshIs, Zenon DEF VfsTypeOK
  <1>6. VfsTypeOK'
    <2> HIDE DEF Held, Kept
    <2> QED BY <1>1, <1>2, <1>4, <1>5 DEF VfsTypeOK
  <1>7. /\ \A h \in Handle : pipe_fds'[h] = IF Held(h) THEN Closed ELSE pipe_fds[h]
        /\ \A h \in OpenFile : g_open'[h] = IF Kept(h) THEN NotOpen ELSE g_open[h]
    BY <1>2, Zenon
  <1>8. ASSUME NEW q \in Proc \ {p}, NEW e \in Fd
        PROVE  Means(q, e)' = Means(q, e) /\ (fds[q][e].in_use => Stands(fds[q][e])')
    <2>1. ASSUME NEW h \in Handle, IsPipe(fds[q][e], h) PROVE pipe_fds'[h] = pipe_fds[h]
      <3>1. \A d \in Fd : ~IsPipe(fds[p][d], h)
        BY <1>1, <2>1, Zenon DEF OwnersAreOne
      <3> QED BY <1>7, <3>1, Zenon
    <2>2. ASSUME NEW h \in OpenFile, IsFile(fds[q][e], h) PROVE g_open'[h] = g_open[h]
      <3>1. \A d \in Fd : ~IsFile(fds[p][d], h)
        BY <1>1, <2>2, Zenon DEF OwnersAreOne
      <3> QED BY <1>7, <3>1, Zenon
    <2>3. fds'[q][e] = fds[q][e] /\ (fds[q][e].in_use => Stands(fds[q][e]))
      BY <1>1, <1>5, Zenon
    <2> QED BY <2>1, <2>2, <2>3, MeansTheSame, Zenon
  <1>9. ASSUME NEW q \in Proc, NEW e \in Fd, fds'[q][e].in_use PROVE Stands(fds[q][e])'
    <2>1. CASE q # p
      <3>1. fds'[q][e] = fds[q][e]
        BY <1>5, <2>1, Zenon
      <3>2. Stands(fds[q][e])'
        BY <1>8, <1>9, <2>1, <3>1, Zenon
      <3> QED BY <3>2
    <2>2. CASE q = p
      <3>1. IsStd(fds[q][e])'
        BY <1>5, <1>9, <2>2, FreshIs, Zenon DEF IsStd
      <3> QED BY <3>1, Zenon DEF Stands
    <2> QED BY <2>1, <2>2
  <1>10. \A q \in Proc, e \in Fd, h \in Handle :
            IsPipe(fds[q][e], h)' <=> q # p /\ IsPipe(fds[q][e], h)
    <2>1. \A e \in Fd, h \in Handle : ~IsPipe(fds[p][e], h)'
      BY <1>5, FreshIs, Zenon DEF IsPipe, vfs_pipe_fs_id_from_handle
    <2>2. \A q \in Proc \ {p}, e \in Fd, h \in Handle : IsPipe(fds[q][e], h)' <=> IsPipe(fds[q][e], h)
      BY <1>5, Zenon DEF IsPipe, vfs_pipe_fs_id_from_handle
    <2> QED BY <2>1, <2>2, Zenon
  <1>11. \A q \in Proc, e \in Fd, h \in OpenFile :
            IsFile(fds[q][e], h)' <=> q # p /\ IsFile(fds[q][e], h)
    <2>1. \A e \in Fd, h \in OpenFile : ~IsFile(fds[p][e], h)'
      BY <1>5, FreshIs, Zenon DEF IsFile
    <2>2. \A q \in Proc \ {p}, e \in Fd, h \in OpenFile : IsFile(fds[q][e], h)' <=> IsFile(fds[q][e], h)
      BY <1>5, Zenon DEF IsFile
    <2> QED BY <2>1, <2>2, Zenon
  <1>12. ASSUME NEW h \in Handle, pipe_fds'[h].in_use
         PROVE  \E q \in Proc, e \in Fd : IsPipe(fds[q][e], h)'
    <2>1. pipe_fds[h].in_use /\ ~Held(h)
      BY <1>3, <1>7, <1>12, Zenon
    <2>2. PICK q \in Proc, e \in Fd : IsPipe(fds[q][e], h)
      BY <1>1, <2>1, Zenon DEF OwnersAreOne
    <2>3. q # p
      BY <2>1, <2>2, Zenon
    <2> QED BY <1>10, <2>2, <2>3, Zenon
  <1>13. ASSUME NEW h \in OpenFile, g_open'[h].in_use
         PROVE  \E q \in Proc, e \in Fd : IsFile(fds[q][e], h)'
    <2>1. g_open[h].in_use /\ ~Kept(h)
      BY <1>3, <1>7, <1>13, Zenon
    <2>2. PICK q \in Proc, e \in Fd : IsFile(fds[q][e], h)
      BY <1>1, <2>1, Zenon DEF OwnersAreOne
    <2>3. q # p
      BY <2>1, <2>2, Zenon
    <2> QED BY <1>11, <2>2, <2>3, Zenon
  <1>14. ASSUME NEW h \in Handle, NEW q \in Proc, NEW r \in Proc, NEW e \in Fd, NEW g \in Fd,
                IsPipe(fds[q][e], h)', IsPipe(fds[r][g], h)'
         PROVE  q = r /\ e = g
    <2>1. IsPipe(fds[q][e], h) /\ IsPipe(fds[r][g], h)
      BY <1>10, <1>14, Zenon
    <2> QED BY <1>1, <2>1, Zenon DEF OwnersAreOne
  <1>15. ASSUME NEW h \in OpenFile, NEW q \in Proc, NEW r \in Proc, NEW e \in Fd, NEW g \in Fd,
                IsFile(fds[q][e], h)', IsFile(fds[r][g], h)'
         PROVE  q = r /\ e = g
    <2>1. IsFile(fds[q][e], h) /\ IsFile(fds[r][g], h)
      BY <1>11, <1>15, Zenon
    <2> QED BY <1>1, <2>1, Zenon DEF OwnersAreOne
  <1>16. OwnersAreOne'
    BY <1>12, <1>13, <1>14, <1>15, Zenon DEF OwnersAreOne
  <1>17. FdInv'
    BY <1>6, <1>9, <1>16, Zenon DEF FdInv
  <1>18. ASSUME NEW d \in Fd PROVE Means(p, d)' = ConsoleTable[d]
    <2>1. fds'[p][d] = FreshTable[d]
      BY <1>5, Zenon
    <2>2. CASE d \in StdFds
      <3>1. /\ FreshTable[d].in_use /\ FreshTable[d].fs_id = ConsoleId /\ FreshTable[d].fs_handle = d
        BY <2>2 DEF FreshTable
      <3>2. IsStd(fds[p][d])'
        BY <2>1, <3>1, Zenon DEF IsStd
      <3>3. (Means(p, d) = Shown(<<"console", fds[p][d].fs_handle>>, fds[p][d], 0))'
        BY <3>2, MeaningsAgreeNext, Zenon DEF MeaningsAgree
      <3>4. Means(p, d)' = Shown(<<"console", d>>, FreshTable[d], 0)
        BY <2>1, <3>1, <3>3, Zenon DEF Shown
      <3> QED BY <2>2, <3>4, Zenon DEF Shown, ConsoleTable
    <2>3. CASE d \notin StdFds
      <3>1. ~fds'[p][d].in_use
        BY <2>1, <2>3 DEF FreshTable, NotInUse
      <3>2. Means(p, d)' = Unused
        BY <3>1, MeaningsAgreeNext, Zenon DEF MeaningsAgree, Unused
      <3> QED BY <2>3, <3>2, Zenon DEF ConsoleTable, Unused
    <2> QED BY <2>2, <2>3
  <1>19. Promised!Next
    <2> DEFINE t == [q \in Proc |-> [e \in Fd |-> Meaning(fds[q][e])]]
    <2>1. ASSUME NEW q \in Proc \ {p} PROVE t'[q] = t[q]
      <3>1. \A e \in Fd : Meaning(fds[q][e])' = Meaning(fds[q][e])
        BY <1>8, Zenon DEF Means
      <3> QED BY <3>1, Zenon
    <2>2. \A d \in Fd : t'[p][d] = ConsoleTable[d]
      BY <1>18, Zenon DEF Means
    <2>3. Promised!End(p)
      BY <2>2, Zenon DEF Promised!End
    <2> QED BY <2>1, <2>3, Zenon DEF Promised!Next
  <1> QED BY <1>17, <1>19, Zenon DEF Keeps

-----------------------------------------------------------------------------
(* What the calls that read, write, seek and truncate find in a descriptor *)
(* of a registered file system, and in one of a virtual file.              *)
LEMMA FileFound ==
    ASSUME FdInv, NEW p \in Proc, NEW d \in Fd, fds[p][d].in_use, fds[p][d].fs_id >= 0
    PROVE  /\ fds[p][d].fs_handle \in OpenFile /\ IsFile(fds[p][d], fds[p][d].fs_handle)
           /\ g_open[fds[p][d].fs_handle] \in Files
  <1>1. Stands(fds[p][d])
    BY Zenon DEF FdInv
  <1>2. PICK h \in OpenFile : IsFile(fds[p][d], h) /\ g_open[h].in_use
    <2>1. /\ \A h \in Handle : ~(vfs_pipe_fs_id_from_handle(h) >= 0)
          /\ \A v \in Virtual : ~(vfs_virtual_fs_id_from_index(v) >= 0)
          /\ ~(ConsoleId >= 0)
      BY Decodes
    <2> QED BY <1>1, <2>1, Zenon DEF Stands, IsPipe, IsVirtual, IsStd
  <1>3. g_open[h] \in Files
    <2>1. g_open[h] \in {NotOpen} \cup Files /\ ~NotOpen.in_use
      BY DEF FdInv, VfsTypeOK, NotOpen
    <2> QED BY <1>2, <2>1, Zenon
  <1> QED BY <1>2, <1>3, Zenon DEF IsFile

(* A descriptor whose file system id is in the range of the virtual files  *)
(* is one of a virtual file, and its position is in bounds.                *)
LEMMA VirtualFound ==
    ASSUME FdInv, NEW p \in Proc, NEW d \in Fd, fds[p][d].in_use,
           vfs_virtual_index_from_fs_id(fds[p][d].fs_id) >= 0
    PROVE  /\ \E v \in Virtual : IsVirtual(fds[p][d], v)
           /\ fds[p][d].fs_handle \in 0 .. MaxSize
  <1>1. Stands(fds[p][d])
    BY Zenon DEF FdInv
  <1>2. /\ \A h \in Handle : ~(vfs_virtual_index_from_fs_id(vfs_pipe_fs_id_from_handle(h)) >= 0)
        /\ ~(vfs_virtual_index_from_fs_id(0) >= 0) /\ ~(vfs_virtual_index_from_fs_id(ConsoleId) >= 0)
    BY Decodes DEF vfs_virtual_index_from_fs_id, vfs_pipe_fs_id_from_handle
  <1> QED BY <1>1, <1>2, Zenon DEF Stands, IsPipe, IsFile, IsStd

(* The pipe behind a handle that a call decodes from a descriptor.         *)
LEMMA PipeFound ==
    ASSUME FdInv, NEW p \in Proc, NEW d \in Fd, fds[p][d].in_use,
           NEW ph, ph = vfs_pipe_handle_from_fs_id(fds[p][d].fs_id), ph >= 0, pipe_fds[ph].in_use
    PROVE  pipe_fds[ph].pipe_idx \in Slot
  <1>1. fds[p][d] \in InUse
    <2>1. fds[p][d] \in {NotInUse} \cup InUse /\ ~NotInUse.in_use
      BY DEF FdInv, VfsTypeOK, NotInUse
    <2> QED BY <2>1, Zenon
  <1>2. PICK id \in Int : id = fds[p][d].fs_id
    BY <1>1, Zenon DEF InUse
  <1>3. ph \in Handle
    BY <1>2, PipeAssumption DEF vfs_pipe_handle_from_fs_id, Handle, VFS_PIPE_BASE_ID
  <1>4. pipe_fds[ph] \in {Closed} \cup PipeFds /\ ~Closed.in_use
    BY <1>3 DEF FdInv, VfsTypeOK, Closed
  <1> QED BY <1>4, Zenon DEF PipeFds

(* Sizes and positions are in bounds.                                      *)
LEMMA Bounded ==
    ASSUME NEW g \in Files
    PROVE  g.pos \in 0 .. MaxSize /\ g.size \in 0 .. MaxSize
  BY Zenon DEF Files

(* A position, or a size, after a call.                                    *)
LEMMA MoveFile ==
    ASSUME FdInv, NEW p \in Proc, NEW d \in Fd, NEW h \in OpenFile, IsFile(fds[p][d], h),
           NEW g \in Files, g = g_open[h], NEW pos \in 0 .. MaxSize, NEW size \in 0 .. MaxSize,
           g_open' = [g_open EXCEPT ![h] = [g EXCEPT !.pos = pos, !.size = size]],
           UNCHANGED <<fds, pipe_fds>>,
           UNCHANGED file_size \/ file_size' = [file_size EXCEPT ![g.path] = size]
    PROVE  Keeps
  <1>1. PICK x : x = [g EXCEPT !.pos = pos, !.size = size]
    BY Zenon
  <1>2. x \in Files /\ x.path = g_open[h].path
    BY <1>1, Zenon DEF Files
  <1>3. file_size' \in [Paths -> 0 .. MaxSize]
    BY DEF FdInv, VfsTypeOK
  <1> QED BY <1>1, <1>2, <1>3, MoveFileKeeps, Zenon

(* vfs_read of a file or of a virtual file.                                *)
LEMMA ReadFileKeeps ==
    ASSUME FdInv, NEW p \in Proc, NEW d \in Fd, NEW len \in Nat, fds[p][d].in_use, fds[p][d].fs_id >= 0,
           fat16_vfs_read(fds[p][d].fs_handle, len), UNCHANGED <<fds, pipe_fds, file_size>>
    PROVE  Keeps
  <1>1. PICK h \in OpenFile : h = fds[p][d].fs_handle /\ IsFile(fds[p][d], h) /\ g_open[h] \in Files
    BY FileFound, Zenon
  <1>2. PICK g \in Files : g = g_open[h]
    BY <1>1, Zenon
  <1>3. PICK pos : pos = g.pos + Lesser(len, g.size - g.pos)
    BY ZenonT(60)
  <1>4. g.pos < g.size /\ g_open' = [g_open EXCEPT ![h].pos = @ + Lesser(len, g.size - g.pos)]
    BY <1>1, <1>2 DEF fat16_vfs_read
  <1>5. pos \in 0 .. MaxSize
    <2>1. PICK a \in 0 .. MaxSize, b \in 0 .. MaxSize : a = g.pos /\ b = g.size
      BY Bounded, Zenon
    <2> QED BY <1>3, <1>4, <2>1, VfsAssumption DEF Lesser
  <1>6. [g EXCEPT !.pos = pos] = [g EXCEPT !.pos = pos, !.size = g.size] /\ g.size \in 0 .. MaxSize
    BY Zenon DEF Files
  <1>7. g_open' = [g_open EXCEPT ![h] = [g EXCEPT !.pos = pos, !.size = g.size]]
    BY <1>2, <1>3, <1>4, <1>6, Zenon
  <1> QED BY <1>1, <1>2, <1>5, <1>6, <1>7, MoveFile, Zenon

(* vfs_read of a virtual file moves that descriptor's position only.       *)
LEMMA ReadVirtualKeeps ==
    ASSUME FdInv, NEW p \in Proc, NEW d \in Fd, NEW len \in Nat, fds[p][d].in_use,
           vfs_virtual_index_from_fs_id(fds[p][d].fs_id) >= 0,
           vfs_read_virtual(p, d, len), UNCHANGED <<pipe_fds, g_open, file_size>>
    PROVE  Keeps
  <1>1. PICK v \in Virtual, old \in 0 .. MaxSize : IsVirtual(fds[p][d], v) /\ old = fds[p][d].fs_handle
    BY VirtualFound, Zenon
  <1>2. PICK size \in 0 .. MaxSize :
           LET n == Lesser(len, Greater(size - old, 0))
           IN  n > 0 /\ fds' = [fds EXCEPT ![p][d].fs_handle = @ + n]
    BY <1>1, Zenon DEF vfs_read_virtual
  <1> DEFINE n == Lesser(len, Greater(size - old, 0))
  <1>3. PICK pos : pos = old + n
    BY Zenon
  <1>4. pos \in 0 .. MaxSize
    BY <1>2, <1>3, VfsAssumption DEF Lesser, Greater
  <1>5. fds' = [fds EXCEPT ![p][d].fs_handle = pos]
    BY <1>1, <1>2, <1>3, Zenon
  <1> QED BY <1>1, <1>4, <1>5, MoveVirtualKeeps, Zenon

(* vfs_write of a file.                                                    *)
LEMMA WriteFileKeeps ==
    ASSUME FdInv, NEW p \in Proc, NEW d \in Fd, NEW len \in Nat, fds[p][d].in_use, fds[p][d].fs_id >= 0,
           fat16_vfs_write(fds[p][d].fs_handle, len), UNCHANGED <<fds, pipe_fds>>
    PROVE  Keeps
  <1>1. PICK h \in OpenFile : h = fds[p][d].fs_handle /\ IsFile(fds[p][d], h) /\ g_open[h] \in Files
    BY FileFound, Zenon
  <1>2. PICK g \in Files : g = g_open[h]
    BY <1>1, Zenon
  <1>3. PICK done \in 1 .. Lesser(len, MaxSize - g.pos) :
           /\ g_open' = [g_open EXCEPT ![h].pos = @ + done, ![h].size = Greater(@, g.pos + done)]
           /\ file_size' = [file_size EXCEPT ![g.path] = Greater(g.size, g.pos + done)]
    BY <1>1, <1>2, Zenon DEF fat16_vfs_write
  <1>4. PICK pos, size : pos = g.pos + done /\ size = Greater(g.size, g.pos + done)
    BY Zenon
  <1>5. pos \in 0 .. MaxSize /\ size \in 0 .. MaxSize
    <2>1. PICK a \in 0 .. MaxSize, b \in 0 .. MaxSize : a = g.pos /\ b = g.size
      BY Bounded, Zenon
    <2>2. done \in 1 .. Lesser(len, MaxSize - a) /\ pos = a + done /\ size = Greater(b, a + done)
      BY <1>3, <1>4, <2>1, Zenon
    <2> QED BY <2>2, VfsAssumption DEF Lesser, Greater
  <1>6. g_open' = [g_open EXCEPT ![h] = [g EXCEPT !.pos = pos, !.size = size]]
    BY <1>1, <1>2, <1>3, <1>4, Zenon DEF FdInv, VfsTypeOK, Files
  <1>7. file_size' = [file_size EXCEPT ![g.path] = size]
    BY <1>3, <1>4
  <1> QED BY <1>1, <1>2, <1>5, <1>6, <1>7, MoveFile, Zenon

(* vfs_seek.                                                               *)
LEMMA SeekKeeps ==
    ASSUME FdInv, NEW p \in Proc, NEW d \in Fd, vfs_seek(p, d)
    PROVE  Keeps
  <1>1. fds[p][d].in_use /\ UNCHANGED <<pipe_fds, file_size>>
    BY DEF vfs_seek, pipeVars
  <1>2. CASE /\ vfs_virtual_index_from_fs_id(fds[p][d].fs_id) >= 0
             /\ \E pos \in 0 .. MaxSize : fds' = [fds EXCEPT ![p][d].fs_handle = pos]
             /\ UNCHANGED g_open
    <2>1. PICK v \in Virtual : IsVirtual(fds[p][d], v)
      BY <1>1, <1>2, VirtualFound, Zenon
    <2> QED BY <1>1, <1>2, <2>1, MoveVirtualKeeps, Zenon
  <1>3. CASE /\ fds[p][d].fs_id \in 0 .. fs_count - 1
             /\ \E pos \in 0 .. g_open[fds[p][d].fs_handle].size :
                   g_open' = [g_open EXCEPT ![fds[p][d].fs_handle].pos = pos]
             /\ UNCHANGED fds
    <2>1. fds[p][d].fs_id >= 0
      BY <1>3 DEF fs_count
    <2>2. PICK h \in OpenFile : h = fds[p][d].fs_handle /\ IsFile(fds[p][d], h) /\ g_open[h] \in Files
      BY <1>1, <2>1, FileFound, Zenon
    <2>3. PICK g \in Files : g = g_open[h]
      BY <2>2, Zenon
    <2>4. PICK pos \in 0 .. g.size : g_open' = [g_open EXCEPT ![h].pos = pos]
      BY <1>3, <2>2, <2>3, Zenon
    <2>5. pos \in 0 .. MaxSize /\ g.size \in 0 .. MaxSize
      <3>1. PICK b \in 0 .. MaxSize : b = g.size
        BY Bounded, Zenon
      <3> QED BY <2>4, <3>1, VfsAssumption
    <2>6. [g EXCEPT !.pos = pos] = [g EXCEPT !.pos = pos, !.size = g.size]
      BY Zenon DEF Files
    <2>7. g_open' = [g_open EXCEPT ![h] = [g EXCEPT !.pos = pos, !.size = g.size]]
      BY <2>3, <2>4, <2>6, Zenon
    <2> QED BY <1>1, <1>3, <2>2, <2>3, <2>5, <2>7, MoveFile, ZenonT(60)
  <1> QED BY <1>2, <1>3, ZenonT(60) DEF vfs_seek

(* vfs_ftruncate.                                                          *)
LEMMA TruncateKeeps ==
    ASSUME FdInv, NEW p \in Proc, NEW d \in Fd, NEW length \in 0 .. MaxSize, vfs_ftruncate(p, d, length)
    PROVE  Keeps
  <1>1. fds[p][d].in_use /\ fds[p][d].fs_id >= 0 /\ UNCHANGED <<fds, pipe_fds>>
    BY DEF vfs_ftruncate, pipeVars
  <1>2. PICK h \in OpenFile : h = fds[p][d].fs_handle /\ IsFile(fds[p][d], h) /\ g_open[h] \in Files
    BY <1>1, FileFound, Zenon
  <1>3. PICK g \in Files : g = g_open[h]
    BY <1>2, Zenon
  <1>4. /\ g_open' = [g_open EXCEPT ![h].size = length, ![h].pos = Lesser(@, length)]
        /\ file_size' = [file_size EXCEPT ![g.path] = length]
    BY <1>2, <1>3, Zenon DEF vfs_ftruncate
  <1>5. PICK pos : pos = Lesser(g.pos, length)
    BY Zenon
  <1>6. pos \in 0 .. MaxSize
    BY <1>5, Bounded, Zenon DEF Lesser
  <1>7. g_open' = [g_open EXCEPT ![h] = [g EXCEPT !.pos = pos, !.size = length]]
    BY <1>3, <1>4, <1>5, Zenon DEF FdInv, VfsTypeOK, Files
  <1>8. UNCHANGED <<fds, pipe_fds>> /\ file_size' = [file_size EXCEPT ![g.path] = length]
    BY <1>1, <1>4, Zenon
  <1> QED BY <1>2, <1>3, <1>6, <1>7, <1>8, MoveFile, ZenonT(60)

-----------------------------------------------------------------------------
(* The descriptors and the pipes under them.                               *)
IndInv == FdInv /\ PipeInv

(* A step that leaves the pipes as they are.                               *)
LEMMA PipesStay ==
    ASSUME PipeInv, UNCHANGED <<pipes, call, sent, got>>
    PROVE  PipeInv'
  <1>1. call' \in [Proc -> {Running} \cup Calls]
    BY DEF PipeInv, PipeTypeOK
  <1> QED BY <1>1, CallKeeps

(* vfs_open, whatever the path names.                                      *)
LEMMA OpenStep ==
    ASSUME IndInv, NEW p \in Proc, vfs_open(p)
    PROVE  Keeps /\ PipeInv'
  <1>1. UNCHANGED <<pipes, call, sent, got>>
    BY Zenon DEF vfs_open, vfs_open_pipe, vfs_open_virtual, vfs_open_file, pipeVars
  <1>2. Keeps
    BY OpenPipeKeeps, OpenVirtualKeeps, OpenFileKeeps, Zenon DEF IndInv, vfs_open
  <1> QED BY <1>1, <1>2, PipesStay DEF IndInv

(* vfs_read, whatever the descriptor stands for.                           *)
LEMMA ReadStep ==
    ASSUME IndInv, NEW p \in Proc, NEW d \in Fd, NEW len \in Lens, vfs_read(p, d, len)
    PROVE  Keeps /\ PipeInv'
  <1> DEFINE f == fds[p][d]
             ph == vfs_pipe_handle_from_fs_id(f.fs_id)
             vfi == vfs_virtual_index_from_fs_id(f.fs_id)
  <1>1. f.in_use /\ len \in Nat /\ FdInv /\ PipeInv
    BY PipeAssumption, Zenon DEF vfs_read, IndInv
  <1>2. CASE /\ ph >= 0 /\ pipe_fds[ph].in_use /\ ~pipe_fds[ph].writable
             /\ ReadTurn(p, pipe_fds[ph].pipe_idx, len)
             /\ UNCHANGED <<pipe_fds, vfsVars>>
    <2>1. pipe_fds[ph].pipe_idx \in Slot
      BY <1>1, <1>2, PipeFound, Zenon
    <2>2. PipeInv'
      BY <1>1, <1>2, <2>1, ReadKeeps, Zenon
    <2>3. UNCHANGED <<fds, pipe_fds, g_open, file_size>>
      BY <1>2 DEF vfsVars
    <2> QED BY <1>1, <2>2, <2>3, StutterKeeps
  <1>3. CASE vfi >= 0 /\ vfs_read_virtual(p, d, len) /\ UNCHANGED <<pipeVars, g_open, file_size>>
    <2>1. UNCHANGED <<pipes, call, sent, got>> /\ UNCHANGED <<pipe_fds, g_open, file_size>>
      BY <1>3 DEF pipeVars
    <2>2. Keeps
      BY <1>1, <1>3, <2>1, ReadVirtualKeeps, Zenon
    <2> QED BY <1>1, <2>1, <2>2, PipesStay, Zenon
  <1>4. CASE f.fs_id \in 0 .. fs_count - 1 /\ fat16_vfs_read(f.fs_handle, len)
             /\ UNCHANGED <<pipeVars, fds, file_size>>
    <2>1. UNCHANGED <<pipes, call, sent, got>> /\ UNCHANGED <<pipe_fds, fds, file_size>>
      BY <1>4, Zenon DEF pipeVars
    <2>2. f.fs_id >= 0
      BY <1>4 DEF fs_count
    <2>3. Keeps
      BY <1>1, <1>4, <2>1, <2>2, ReadFileKeeps, ZenonT(60)
    <2> QED BY <1>1, <2>1, <2>3, PipesStay, ZenonT(60)
  <1> QED BY <1>2, <1>3, <1>4, Zenon DEF vfs_read

(* vfs_write, whatever the descriptor stands for.                          *)
LEMMA WriteStep ==
    ASSUME IndInv, NEW p \in Proc, NEW d \in Fd, NEW len \in Lens, vfs_write(p, d, len)
    PROVE  Keeps /\ PipeInv'
  <1> DEFINE f == fds[p][d]
             ph == vfs_pipe_handle_from_fs_id(f.fs_id)
  <1>1. f.in_use /\ len \in Nat /\ FdInv /\ PipeInv
    BY PipeAssumption, Zenon DEF vfs_write, IndInv
  <1>2. CASE /\ ph >= 0 /\ pipe_fds[ph].in_use /\ pipe_fds[ph].writable
             /\ WriteTurn(p, pipe_fds[ph].pipe_idx, len)
             /\ UNCHANGED <<pipe_fds, vfsVars>>
    <2>1. pipe_fds[ph].pipe_idx \in Slot
      BY <1>1, <1>2, PipeFound, Zenon
    <2>2. PipeInv'
      BY <1>1, <1>2, <2>1, WriteKeeps, Zenon
    <2>3. UNCHANGED <<fds, pipe_fds, g_open, file_size>>
      BY <1>2 DEF vfsVars
    <2> QED BY <1>1, <2>2, <2>3, StutterKeeps
  <1>3. CASE f.fs_id \in 0 .. fs_count - 1 /\ fat16_vfs_write(f.fs_handle, len)
             /\ UNCHANGED <<pipeVars, fds>>
    <2>1. UNCHANGED <<pipes, call, sent, got>> /\ UNCHANGED <<pipe_fds, fds>>
      BY <1>3, Zenon DEF pipeVars
    <2>2. f.fs_id >= 0
      BY <1>3 DEF fs_count
    <2>3. Keeps
      BY <1>1, <1>3, <2>1, <2>2, WriteFileKeeps, ZenonT(60)
    <2> QED BY <1>1, <2>1, <2>3, PipesStay, ZenonT(60)
  <1> QED BY <1>2, <1>3, Zenon DEF vfs_write

(* A task comes back to a pipe call it yielded in.                         *)
LEMMA ResumeStep ==
    ASSUME IndInv, NEW p \in Proc, Resume(p), UNCHANGED vfsVars
    PROVE  Keeps /\ PipeInv'
  <1>1. FdInv /\ PipeInv /\ UNCHANGED <<fds, pipe_fds, g_open, file_size>>
    BY DEF IndInv, Resume, vfsVars
  <1>2. call[p] \in Calls
    <2>1. call[p] \in {Running} \cup Calls /\ Running.op # "read" /\ Running.op # "write"
      BY DEF IndInv, PipeInv, PipeTypeOK, Running
    <2> QED BY <2>1, Zenon DEF Resume
  <1>3. call[p].idx \in Slot /\ call[p].len \in Nat
    BY <1>2, Zenon DEF Calls
  <1>4. PipeInv'
    BY <1>1, <1>3, ReadKeeps, WriteKeeps, Zenon DEF Resume
  <1> QED BY <1>1, <1>4, StutterKeeps, Zenon

(* vfs_seek, vfs_ftruncate, vfs_close and vfs_close_all do not touch the   *)
(* bytes in the pipes.                                                     *)
LEMMA OtherStep ==
    ASSUME IndInv, NEW p \in Proc,
           \/ \E d \in Fd : vfs_seek(p, d)
           \/ \E d \in Fd, length \in 0 .. MaxSize : vfs_ftruncate(p, d, length)
           \/ \E d \in Fd : vfs_close(p, d)
           \/ vfs_close_all(p)
    PROVE  Keeps /\ PipeInv'
  <1>1. Keeps
    BY SeekKeeps, TruncateKeeps, CloseKeeps, EndKeeps, Zenon DEF IndInv
  <1>2. UNCHANGED <<pipes, sent, got>> /\ (UNCHANGED call \/ call' = [call EXCEPT ![p] = Running])
    BY Zenon DEF vfs_seek, vfs_ftruncate, vfs_close, vfs_close_all, pipeVars
  <1>3. call' \in [Proc -> {Running} \cup Calls]
    BY <1>2 DEF IndInv, PipeInv, PipeTypeOK
  <1>4. PipeInv'
    BY <1>2, <1>3, CallKeeps DEF IndInv
  <1> QED BY <1>1, <1>4

(* Every step.                                                             *)
LEMMA NextKeeps ==
    ASSUME IndInv, Next
    PROVE  Keeps /\ PipeInv'
  <1>1. ASSUME NEW p \in Proc, Step(p) PROVE Keeps /\ PipeInv'
    BY <1>1, OpenStep, ReadStep, WriteStep, ResumeStep, OtherStep, Zenon DEF Step
  <1>2. ASSUME NEW name \in Names, pipe_create(name) /\ UNCHANGED vfsVars PROVE Keeps /\ PipeInv'
    <2>1. UNCHANGED <<fds, pipe_fds, g_open, file_size>>
      BY <1>2, Zenon DEF pipe_create, vfsVars
    <2> QED BY <1>2, <2>1, StutterKeeps, CreateKeeps, Zenon DEF IndInv
  <1>3. ASSUME NEW name \in Names, pipe_destroy(name) /\ UNCHANGED vfsVars PROVE Keeps /\ PipeInv'
    <2>1. UNCHANGED <<fds, pipe_fds, g_open, file_size>>
      BY <1>3 DEF pipe_destroy, vfsVars
    <2> QED BY <1>3, <2>1, StutterKeeps, DestroyKeeps, Zenon DEF IndInv
  <1>4. ASSUME NEW name \in Names, load_elf_into(name) PROVE Keeps /\ PipeInv'
    <2>1. UNCHANGED <<fds, pipe_fds, g_open, file_size>>
      BY <1>4 DEF load_elf_into, vfsVars
    <2> QED BY <1>4, <2>1, StutterKeeps, LoadKeeps, ZenonT(60) DEF IndInv
  <1> QED BY <1>1, <1>2, <1>3, <1>4, Zenon DEF Next

(* The initial state.                                                      *)
LEMMA InitIs == Init => IndInv /\ Promised!Init
  <1> SUFFICES ASSUME Init PROVE IndInv /\ Promised!Init
    OBVIOUS
  <1>1. /\ pipes = [i \in Slot |-> NoPipe] /\ call = [p \in Proc |-> Running]
        /\ pipe_fds = [h \in Handle |-> Closed] /\ sent = <<>> /\ got = <<>>
        /\ fds = [p \in Proc |-> FreshTable] /\ g_open = [h \in OpenFile |-> NotOpen]
        /\ file_size = [path \in Paths |-> 0]
    BY DEF Init, pipe_init
  <1>2. PipeInv
    <2>1. <<>> \in Seq(Seq(Data)) /\ <<>> \in Seq(Data) /\ Len(<<>>) = 0
      BY Nothing
    <2>2. Lives = 0 /\ Len(got) = Len(sent) /\ sent \in Seq(Seq(Data)) /\ got \in Seq(Seq(Data))
      BY <1>1, <2>1, Zenon DEF Lives
    <2>3. NoPipe \in PipeSlots /\ ~NoPipe.in_use /\ NoPipe.life = 0
      BY <2>1 DEF NoPipe, PipeSlots, PipeName
    <2>4. PipeTypeOK
      BY <1>1, <2>2, <2>3 DEF PipeTypeOK
    <2>5. /\ \A i \in Slot : pipes[i].life \in 0 .. Lives /\ (pipes[i].in_use <=> pipes[i].life # 0)
          /\ \A i \in Slot : ~pipes[i].in_use
      BY <1>1, <2>2, <2>3
    <2>6. 1 .. Lives = {}
      BY <2>2
    <2> QED BY <2>4, <2>5, <2>6, Zenon DEF PipeInv, RingsAgree
  <1>3. ~Closed.in_use /\ ~NotOpen.in_use
    BY DEF Closed, NotOpen
  <1>4. VfsTypeOK
    <2>1. 0 \in 0 .. MaxSize
      BY VfsAssumption
    <2> QED BY <1>1, <2>1, FreshIs, Zenon DEF VfsTypeOK
  <1>5. \A p \in Proc, d \in Fd : fds[p][d].in_use => Stands(fds[p][d])
    BY <1>1, FreshIs, Zenon DEF Stands
  <1>6. OwnersAreOne
    <2>1. /\ \A h \in Handle : ~pipe_fds[h].in_use
          /\ \A h \in OpenFile : ~g_open[h].in_use
          /\ \A p \in Proc, d \in Fd : /\ \A h \in Handle : ~IsPipe(fds[p][d], h)
                                       /\ \A h \in OpenFile : ~IsFile(fds[p][d], h)
      BY <1>1, <1>3, FreshIs, Zenon
    <2> QED BY <2>1, Zenon DEF OwnersAreOne
  <1>7. ASSUME NEW p \in Proc, NEW d \in Fd PROVE Meaning(fds[p][d]) = ConsoleTable[d]
    <2>1. fds[p][d] = FreshTable[d]
      BY <1>1, Zenon
    <2>2. CASE d \in StdFds
      <3>1. /\ FreshTable[d].in_use /\ FreshTable[d].fs_id = ConsoleId /\ FreshTable[d].fs_handle = d
        BY <2>2 DEF FreshTable
      <3>2. Meaning(FreshTable[d]) = Shown(<<"console", d>>, FreshTable[d], 0)
        BY <3>1, MeaningIs, Zenon DEF IsStd
      <3> QED BY <2>1, <2>2, <3>2, Zenon DEF Shown, ConsoleTable
    <2>3. CASE d \notin StdFds
      <3>1. ~FreshTable[d].in_use
        BY <2>3 DEF FreshTable, NotInUse
      <3>2. Meaning(FreshTable[d]) = Unused
        BY <3>1, MeaningIs, Zenon DEF Unused
      <3> QED BY <2>1, <2>3, <3>2, Zenon DEF ConsoleTable, Unused
    <2> QED BY <2>2, <2>3
  <1>8. Promised!Init
    <2>1. ASSUME NEW p \in Proc PROVE [d \in Fd |-> Meaning(fds[p][d])] = ConsoleTable
      <3>1. ConsoleTable = [d \in Fd |-> ConsoleTable[d]]
        BY Zenon DEF ConsoleTable
      <3> QED BY <1>7, <3>1, Zenon
    <2> QED BY <2>1, Zenon DEF Promised!Init
  <1> QED BY <1>2, <1>4, <1>5, <1>6, <1>8, Zenon DEF IndInv, FdInv

(* A step of the specification keeps the invariant and is a promised one.  *)
LEMMA StepKeeps ==
    IndInv /\ [Next]_vars =>
       IndInv' /\ [Promised!Next]_([p \in Proc |-> [d \in Fd |-> Meaning(fds[p][d])]])
  <1> DEFINE t == [p \in Proc |-> [d \in Fd |-> Meaning(fds[p][d])]]
  <1>1. ASSUME UNCHANGED <<fds, pipe_fds, g_open>> PROVE t' = t
    <2>1. fds' = fds /\ pipe_fds' = pipe_fds /\ g_open' = g_open
      BY <1>1
    <2> QED BY <2>1 DEF Meaning
  <1>2. ASSUME IndInv, Next PROVE IndInv' /\ (Promised!Next \/ t' = t)
    BY <1>1, <1>2, NextKeeps, Zenon DEF Keeps, IndInv
  <1>3. ASSUME IndInv, UNCHANGED vars PROVE IndInv' /\ t' = t
    <2>1. UNCHANGED <<fds, pipe_fds, g_open, file_size>> /\ UNCHANGED <<pipes, call, sent, got>>
      BY <1>3 DEF vars, pipeVars, vfsVars
    <2>2. FdInv' /\ PipeInv'
      BY <1>3, <2>1, StutterKeeps, PipesStay, Zenon DEF IndInv, Keeps
    <2> QED BY <1>1, <2>1, <2>2, Zenon DEF IndInv
  <1> HIDE DEF t
  <1> QED BY <1>2, <1>3, ZenonT(60) DEF t

(* A handle in use has one descriptor, one that is free has none.          *)
LEMMA OwnersCount == IndInv => EveryHandleHasOneOwner
  <1> SUFFICES ASSUME IndInv PROVE EveryHandleHasOneOwner
    OBVIOUS
  <1>1. ASSUME NEW h \in Handle
        PROVE  IF pipe_fds[h].in_use THEN \E pd \in Proc \X Fd : Owners(h, IsPipe) = {pd}
               ELSE Owners(h, IsPipe) = {}
    <2> DEFINE O == {pd \in Proc \X Fd : IsPipe(fds[pd[1]][pd[2]], h)}
    <2>1. CASE pipe_fds[h].in_use
      <3>1. PICK p \in Proc, d \in Fd : IsPipe(fds[p][d], h)
        BY <2>1, Zenon DEF IndInv, FdInv, OwnersAreOne
      <3>2. \A q \in Proc, e \in Fd : IsPipe(fds[q][e], h) => q = p /\ e = d
        BY <3>1, Zenon DEF IndInv, FdInv, OwnersAreOne
      <3>3. O = {<<p, d>>} /\ <<p, d>> \in Proc \X Fd
        BY <3>1, <3>2
      <3> QED BY <2>1, <3>3, Zenon DEF Owners
    <2>2. CASE ~pipe_fds[h].in_use
      <3>1. \A q \in Proc, e \in Fd : ~IsPipe(fds[q][e], h)
        BY <2>2, RefersInUse, Zenon DEF IndInv
      <3>2. O = {}
        BY <3>1
      <3> QED BY <2>2, <3>2, Zenon DEF Owners
    <2> QED BY <2>1, <2>2
  <1>2. ASSUME NEW h \in OpenFile
        PROVE  IF g_open[h].in_use THEN \E pd \in Proc \X Fd : Owners(h, IsFile) = {pd}
               ELSE Owners(h, IsFile) = {}
    <2> DEFINE O == {pd \in Proc \X Fd : IsFile(fds[pd[1]][pd[2]], h)}
    <2>1. CASE g_open[h].in_use
      <3>1. PICK p \in Proc, d \in Fd : IsFile(fds[p][d], h)
        BY <2>1, Zenon DEF IndInv, FdInv, OwnersAreOne
      <3>2. \A q \in Proc, e \in Fd : IsFile(fds[q][e], h) => q = p /\ e = d
        BY <3>1, Zenon DEF IndInv, FdInv, OwnersAreOne
      <3>3. O = {<<p, d>>} /\ <<p, d>> \in Proc \X Fd
        BY <3>1, <3>2
      <3> QED BY <2>1, <3>3, Zenon DEF Owners
    <2>2. CASE ~g_open[h].in_use
      <3>1. \A q \in Proc, e \in Fd : ~IsFile(fds[q][e], h)
        BY <2>2, RefersInUse, Zenon DEF IndInv
      <3>2. O = {}
        BY <3>1
      <3> QED BY <2>2, <3>2, Zenon DEF Owners
    <2> QED BY <2>1, <2>2
  <1> QED BY <1>1, <1>2, Zenon DEF EveryHandleHasOneOwner

-----------------------------------------------------------------------------
(* The invariant of both holds in every state.                             *)
THEOREM VfsInductive == Spec => []IndInv
  <1>1. Init => IndInv
    BY InitIs
  <1>2. IndInv /\ [Next]_vars => IndInv'
    BY StepKeeps
  <1> QED BY <1>1, <1>2, PTL DEF Spec

(* pipe_read and pipe_write, with the tasks that wait in them, pipes that  *)
(* are destroyed and tasks that end: for any number of each, what a pipe's *)
(* readers got and what its ring holds is what its writers were told was   *)
(* sent, in that order.                                                    *)
THEOREM BytesStayInOrder == Spec => []BytesInOrder
  BY VfsInductive, BytesAreInOrder, PTL DEF IndInv

(* vfs_open, vfs_close and vfs_close_all: a pipe handle and an open file   *)
(* of fat16 are in use exactly when one descriptor of one task refers to   *)
(* them, whatever the sizes of the tables.                                 *)
THEOREM HandlesHaveOneOwner == Spec => []EveryHandleHasOneOwner
  BY VfsInductive, OwnersCount, PTL

(* Decoded from their numbers, and with handles and open files shared, the *)
(* descriptors are what fs/vfs.h promises: a call changes one descriptor   *)
(* of its own task, an open takes the lowest free one, the end of a task   *)
(* leaves a fresh table.                                                   *)
THEOREM VfsImplementsDescriptors == Spec => ImplementsDescriptors
  <1>1. Init => Promised!Init
    BY InitIs
  <1>2. IndInv /\ [Next]_vars => [Promised!Next]_([p \in Proc |-> [d \in Fd |-> Meaning(fds[p][d])]])
    BY StepKeeps
  <1> QED BY <1>1, <1>2, VfsInductive, PTL DEF Spec, ImplementsDescriptors, Promised!Spec
=============================================================================
