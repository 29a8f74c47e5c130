------------------------ MODULE CwmpExchange_proofs ------------------------
(***************************************************************************)
(* Proofs about CwmpExchange and what it is made of: the parser of the     *)
(* envelope, the version of a session, the devices, calls and responses    *)
(* that pass through it, and the replies of the handler.                   *)
(***************************************************************************)
EXTENDS CwmpExchange, SequenceTheorems, FiniteSetTheorems, TLAPS

-----------------------------------------------------------------------------
(* The ancestors of the elements of a document: the recursive definition    *)
(* has one solution as long as every element stands after its parent, which *)
(* is carried from document to document as it grows.                        *)

Element == [name : Names, parent : Elements \cup {None}]

Above(d, f) ==
    f = [n \in DOMAIN d |->
            IF d[n].parent = None THEN {} ELSE {d[n].parent} \cup f[d[n].parent]]

AncestorsOf(d) == CHOOSE f : Above(d, f)

AncestorsFit(d) ==
    /\ \A n \in DOMAIN d : /\ d[n].parent \in 0 .. (n - 1)
                           /\ AncestorsOf(d)[n] \subseteq 1 .. (n - 1)
    /\ Above(d, AncestorsOf(d))
    /\ \A f, g : Above(d, f) /\ Above(d, g) => f = g

\* What the properties call Ancestors.
LEMMA AncestorsOfDoc == Ancestors = AncestorsOf(doc)
BY DEF Ancestors, AncestorsOf, Above

\* The empty document has the empty function.
LEMMA NoAncestors == AncestorsFit(<<>>)
<1> DEFINE none == [n \in {} |-> {}]
<1>1. DOMAIN <<>> = {}
  OBVIOUS
<1>2. \A f : Above(<<>>, f) => f = none
  BY <1>1 DEF Above
<1>3. Above(<<>>, none)
  BY <1>1 DEF Above
<1>4. Above(<<>>, AncestorsOf(<<>>))
  BY <1>3 DEF AncestorsOf
<1> QED BY <1>1, <1>2, <1>4 DEF AncestorsFit

\* A new element e leaves those of the others as they are; its own are its parent
\* and what stands above that.
AncestorsGrow(d, d2, e, new) ==
    /\ AncestorsFit(d2)
    /\ \A n \in DOMAIN d : AncestorsOf(d2)[n] = AncestorsOf(d)[n]
    /\ AncestorsOf(d2)[new] =
          IF e.parent = None THEN {} ELSE {e.parent} \cup AncestorsOf(d)[e.parent]

LEMMA AppendAncestors ==
  ASSUME NEW len \in Nat, NEW d, NEW d2, NEW e,
         AncestorsFit(d), DOMAIN d = 1 .. len,
         DOMAIN d2 = 1 .. (len + 1), \A n \in DOMAIN d : d2[n] = d[n], d2[len + 1] = e,
         e.parent \in 0 .. len
  PROVE  AncestorsGrow(d, d2, e, len + 1)
<1> DEFINE A == AncestorsOf(d)
           last == IF e.parent = None THEN {} ELSE {e.parent} \cup A[e.parent]
           g == [n \in DOMAIN d2 |-> IF n \in DOMAIN d THEN A[n] ELSE last]
<1>1. /\ DOMAIN d \subseteq DOMAIN d2 /\ len + 1 \in DOMAIN d2 /\ len + 1 \notin DOMAIN d
      /\ \A n \in DOMAIN d2 : n \in DOMAIN d \/ n = len + 1
  OBVIOUS
<1>2. \A n \in DOMAIN d : A[n] = IF d[n].parent = None THEN {}
                                 ELSE {d[n].parent} \cup A[d[n].parent]
  BY DEF AncestorsFit, Above
<1>3. \A n \in DOMAIN d : d[n].parent \in 0 .. (n - 1) /\ A[n] \subseteq 1 .. (n - 1)
  BY DEF AncestorsFit
<1>4. /\ \A n \in DOMAIN d : d[n].parent # None => d[n].parent \in DOMAIN d
      /\ e.parent # None => e.parent \in DOMAIN d
  BY <1>1, <1>3 DEF None
<1>5. /\ \A n \in DOMAIN d : g[n] = A[n]
      /\ g[len + 1] = last
      /\ g = [n \in DOMAIN d2 |-> g[n]]
  BY <1>1
<1>6. Above(d2, g)
  <2> HIDE DEF g, A
  <2>1. ASSUME NEW n \in DOMAIN d2
        PROVE  g[n] = IF d2[n].parent = None THEN {} ELSE {d2[n].parent} \cup g[d2[n].parent]
    <3>1. CASE n \in DOMAIN d
      <4>1. d2[n].parent = d[n].parent /\ g[n] = A[n]
        BY <3>1, <1>1, <1>5
      <4>2. d[n].parent # None => g[d[n].parent] = A[d[n].parent]
        BY <3>1, <1>4, <1>5
      <4> QED BY <3>1, <4>1, <4>2, <1>2
    <3>2. CASE n = len + 1
      <4>1. d2[n].parent = e.parent /\ g[n] = last
        BY <3>2, <1>1, <1>5
      <4>2. e.parent # None => g[e.parent] = A[e.parent]
        BY <1>4, <1>5
      <4> QED BY <4>1, <4>2
    <3> QED BY <3>1, <3>2, <1>1
  <2> QED BY <2>1, <1>5 DEF Above
<1>7. ASSUME NEW f, Above(d2, f)
      PROVE  f = g
  <2> DEFINE r == [n \in DOMAIN d |-> f[n]]
  <2>1. \A n \in DOMAIN d2 : f[n] = IF d2[n].parent = None THEN {}
                                    ELSE {d2[n].parent} \cup f[d2[n].parent]
    BY <1>7 DEF Above
  <2>2. f = [n \in DOMAIN d2 |-> f[n]]
    <3> DEFINE above(n) == IF d2[n].parent = None THEN {}
                           ELSE {d2[n].parent} \cup f[d2[n].parent]
    <3>1. f = [n \in DOMAIN d2 |-> above(n)]
      BY <1>7 DEF Above
    <3> HIDE DEF above
    <3> QED BY <3>1
  <2>3. /\ \A n \in DOMAIN d : r[n] = f[n]
        /\ r = [n \in DOMAIN d |-> r[n]]
    OBVIOUS
  <2>4. Above(d, r)
    <3> HIDE DEF r, g, A, last
    <3>1. ASSUME NEW n \in DOMAIN d
          PROVE  r[n] = IF d[n].parent = None THEN {} ELSE {d[n].parent} \cup r[d[n].parent]
      <4>1. d2[n].parent = d[n].parent /\ n \in DOMAIN d2 /\ r[n] = f[n]
        BY <1>1, <2>3
      <4>2. d[n].parent # None => r[d[n].parent] = f[d[n].parent]
        BY <1>4, <2>3
      <4> QED BY <4>1, <4>2, <2>1
    <3> QED BY <3>1, <2>3 DEF Above
  <2>5. r = A
    <3> HIDE DEF r
    <3> QED BY <2>4 DEF AncestorsFit
  <2> HIDE DEF last, r, A, g
  <2>6. \A n \in DOMAIN d : f[n] = A[n]
    BY <2>3, <2>5
  <2>7. f[len + 1] = last
    <3>1. d2[len + 1].parent = e.parent /\ len + 1 \in DOMAIN d2
      BY <1>1
    <3>2. e.parent # None => f[e.parent] = A[e.parent]
      BY <1>4, <2>6
    <3> QED BY <3>1, <3>2, <2>1 DEF last
  <2>8. \A n \in DOMAIN d2 : f[n] = g[n]
    BY <2>6, <2>7, <1>1, <1>5
  <2> QED BY <2>2, <2>8, <1>5
<1>8. Above(d2, AncestorsOf(d2)) /\ AncestorsOf(d2) = g
  <2> HIDE DEF g
  <2> QED BY <1>6, <1>7 DEF AncestorsOf
<1>9. /\ \A n \in DOMAIN d : AncestorsOf(d2)[n] = A[n]
      /\ AncestorsOf(d2)[len + 1] = last
  <2> HIDE DEF g, last, A
  <2> QED BY <1>5, <1>8
<1>10. last \subseteq 1 .. len
  <2>1. ASSUME e.parent # None
        PROVE  e.parent \in 1 .. len /\ A[e.parent] \subseteq 1 .. (e.parent - 1)
    BY <2>1, <1>1, <1>3, <1>4
  <2> HIDE DEF A
  <2> QED BY <2>1, <1>1
<1>11. ASSUME NEW n \in DOMAIN d2
       PROVE  d2[n].parent \in 0 .. (n - 1) /\ AncestorsOf(d2)[n] \subseteq 1 .. (n - 1)
  <2> HIDE DEF A, last
  <2>1. CASE n \in DOMAIN d
    BY <2>1, <1>1, <1>3, <1>9
  <2>2. CASE n = len + 1
    BY <2>2, <1>1, <1>9, <1>10
  <2> QED BY <2>1, <2>2, <1>1
<1>12. \A f1, f2 : Above(d2, f1) /\ Above(d2, f2) => f1 = f2
  <2> HIDE DEF g
  <2> QED BY <1>7
<1>13. AncestorsFit(d2)
  BY <1>8, <1>11, <1>12 DEF AncestorsFit
<1> QED BY <1>9, <1>13 DEF AncestorsGrow

-----------------------------------------------------------------------------
(* Stacks that end as the path does. *)

\* The stack is the end of path p that begins with the element first.
Follows(p, stack, first) ==
    \E k \in DOMAIN p : p[k] = first /\ stack = SubSeq(p, k, Len(p))

LEMMA IsEnd ==
  ASSUME NEW p \in Seq(Elements), NEW s \in Seq(Elements), NEW k \in 1 .. Len(p)
  PROVE  s = SubSeq(p, k, Len(p)) <=>
            /\ Len(s) = Len(p) + 1 - k
            /\ \A i \in 1 .. Len(s) : s[i] = p[k + i - 1]
<1> DEFINE t == SubSeq(p, k, Len(p))
<1>1. /\ Len(p) \in Nat /\ Len(s) \in Nat /\ k \in Int /\ k <= Len(p)
      /\ \A i \in k .. Len(p) : p[i] \in Elements
  OBVIOUS
<1>2. /\ t \in Seq(Elements)
      /\ Len(t) = Len(p) + 1 - k
      /\ \A i \in 1 .. (Len(p) - k + 1) : t[i] = p[k + i - 1]
  BY <1>1, SubSeqProperties
<1> HIDE DEF t
<1>3. /\ Len(t) \in Nat /\ Len(p) - k + 1 = Len(t)
  BY <1>1, <1>2
<1>4. \A i \in 1 .. Len(t) : t[i] = p[k + i - 1]
  BY <1>2, <1>3
<1>5. ASSUME s = t
      PROVE  Len(s) = Len(p) + 1 - k /\ \A i \in 1 .. Len(s) : s[i] = p[k + i - 1]
  BY <1>2, <1>4, <1>5
<1>6. ASSUME Len(s) = Len(p) + 1 - k, \A i \in 1 .. Len(s) : s[i] = p[k + i - 1]
      PROVE  s = t
  <2>1. Len(s) = Len(t)
    BY <1>2, <1>6
  <2>2. \A i \in 1 .. Len(s) : s[i] = t[i]
    BY <1>4, <1>6, <2>1
  <2> QED BY <1>2, <2>1, <2>2, SeqEqual
<1> QED BY <1>5, <1>6 DEF t

LEMMA FollowsTop ==
  ASSUME NEW p \in Seq(Elements), NEW first, NEW s \in Seq(Elements), Follows(p, s, first)
  PROVE  s # <<>> /\ p # <<>> /\ Top(s) = Top(p)
<1>1. PICK k \in DOMAIN p : p[k] = first /\ s = SubSeq(p, k, Len(p))
  BY DEF Follows
<1>2. k \in 1 .. Len(p) /\ Len(p) \in Nat
  OBVIOUS
<1>3. Len(s) = Len(p) + 1 - k /\ \A i \in 1 .. Len(s) : s[i] = p[k + i - 1]
  BY <1>1, <1>2, IsEnd
<1>4. Len(s) \in 1 .. Len(s) /\ k + Len(s) - 1 = Len(p)
  BY <1>2, <1>3
<1>5. s[Len(s)] = p[Len(p)]
  BY <1>3, <1>4
<1>6. s # <<>> /\ p # <<>>
  BY <1>2, <1>4
<1> QED BY <1>5, <1>6 DEF Top

LEMMA FollowsPush ==
  ASSUME NEW p \in Seq(Elements), NEW first, NEW s \in Seq(Elements), Follows(p, s, first),
         NEW x \in Elements
  PROVE  Follows(Append(p, x), Append(s, x), first)
<1>1. PICK k \in DOMAIN p : p[k] = first /\ s = SubSeq(p, k, Len(p))
  BY DEF Follows
<1>2. k \in 1 .. Len(p) /\ Len(p) \in Nat
  OBVIOUS
<1>3. Len(s) = Len(p) + 1 - k /\ \A i \in 1 .. Len(s) : s[i] = p[k + i - 1]
  BY <1>1, <1>2, IsEnd
<1> DEFINE q == Append(p, x)
           t == Append(s, x)
<1>4. /\ q \in Seq(Elements) /\ Len(q) = Len(p) + 1 /\ q[Len(p) + 1] = x
      /\ \A i \in 1 .. Len(p) : q[i] = p[i]
  BY AppendProperties
<1>5. /\ t \in Seq(Elements) /\ Len(t) = Len(s) + 1 /\ t[Len(s) + 1] = x
      /\ \A i \in 1 .. Len(s) : t[i] = s[i]
  BY AppendProperties
<1> HIDE DEF q, t
<1>6. k \in 1 .. Len(q) /\ k \in DOMAIN q /\ q[k] = first
  BY <1>1, <1>2, <1>4
<1>7. Len(t) = Len(q) + 1 - k
  BY <1>2, <1>3, <1>4, <1>5
<1>8. ASSUME NEW i \in 1 .. Len(t)
      PROVE  t[i] = q[k + i - 1]
  <2>1. CASE i = Len(s) + 1
    BY <2>1, <1>2, <1>3, <1>4, <1>5
  <2>2. CASE i \in 1 .. Len(s)
    <3>1. k + i - 1 \in 1 .. Len(p)
      BY <2>2, <1>2, <1>3
    <3> QED BY <2>2, <3>1, <1>3, <1>4, <1>5
  <2> QED BY <2>1, <2>2, <1>5
<1>9. t = SubSeq(q, k, Len(q))
  BY <1>4, <1>5, <1>6, <1>7, <1>8, IsEnd
<1>10. Follows(q, t, first)
  BY <1>6, <1>9 DEF Follows
<1> QED BY <1>10 DEF q, t

LEMMA FollowsNew ==
  ASSUME NEW p \in Seq(Elements), NEW x \in Elements
  PROVE  Follows(Append(p, x), <<x>>, x)
<1> DEFINE q == Append(p, x)
           t == <<x>>
<1>1. q \in Seq(Elements) /\ Len(q) = Len(p) + 1 /\ q[Len(p) + 1] = x /\ Len(p) \in Nat
  BY AppendProperties
<1>2. t \in Seq(Elements) /\ Len(t) = 1 /\ t[1] = x
  OBVIOUS
<1> HIDE DEF q, t
<1>3. Len(q) \in 1 .. Len(q) /\ Len(q) \in DOMAIN q /\ q[Len(q)] = x
  BY <1>1
<1>4. Len(t) = Len(q) + 1 - Len(q) /\ \A i \in 1 .. Len(t) : t[i] = q[Len(q) + i - 1]
  BY <1>1, <1>2
<1>5. t = SubSeq(q, Len(q), Len(q))
  BY <1>1, <1>2, <1>3, <1>4, IsEnd
<1>6. Follows(q, t, x)
  BY <1>3, <1>5 DEF Follows
<1> QED BY <1>6 DEF q, t

\* All but the last.
LEMMA PopIs ==
  ASSUME NEW p \in Seq(Elements), p # <<>>
  PROVE  /\ Pop(p) \in Seq(Elements) /\ Len(Pop(p)) = Len(p) - 1
         /\ \A i \in 1 .. (Len(p) - 1) : Pop(p)[i] = p[i]
<1>1. Len(p) \in Nat /\ Len(p) > 0
  OBVIOUS
<1> DEFINE last == Len(p) - 1
           q == SubSeq(p, 1, last)
<1>2. last \in Nat /\ \A i \in 1 .. last : p[i] \in Elements
  BY <1>1
<1> HIDE DEF last
<1>3. /\ q \in Seq(Elements)
      /\ Len(q) = IF 1 <= last THEN last - 1 + 1 ELSE 0
      /\ \A i \in 1 .. (last - 1 + 1) : q[i] = p[1 + i - 1]
  BY <1>2, SubSeqProperties
<1>4. last - 1 + 1 = last /\ Len(q) = last
  BY <1>2, <1>3
<1>5. \A i \in 1 .. last : i \in Int /\ 1 + i - 1 = i
  BY <1>2
<1> HIDE DEF q
<1>6. \A i \in 1 .. last : q[i] = p[i]
  BY <1>3, <1>4, <1>5
<1> QED BY <1>3, <1>4, <1>6 DEF Pop, last, q

LEMMA FollowsPop ==
  ASSUME NEW p \in Seq(Elements), NEW first, NEW s \in Seq(Elements), Follows(p, s, first)
  PROVE  /\ Len(s) > 1 => Follows(Pop(p), Pop(s), first)
         /\ ~(Len(s) > 1) => p[Len(p)] = first /\ Pop(s) = <<>>
<1>1. PICK k \in DOMAIN p : p[k] = first /\ s = SubSeq(p, k, Len(p))
  BY DEF Follows
<1>2. k \in 1 .. Len(p) /\ Len(p) \in Nat /\ Len(s) \in Nat
  OBVIOUS
<1>3. Len(s) = Len(p) + 1 - k /\ \A i \in 1 .. Len(s) : s[i] = p[k + i - 1]
  BY <1>1, <1>2, IsEnd
<1> DEFINE q == Pop(p)
           t == Pop(s)
<1>4. /\ q \in Seq(Elements) /\ Len(q) = Len(p) - 1
      /\ \A i \in 1 .. (Len(p) - 1) : q[i] = p[i]
  <2>1. p # <<>>
    BY <1>2
  <2> QED BY <2>1, PopIs
<1>5. /\ t \in Seq(Elements) /\ Len(t) = Len(s) - 1
      /\ \A i \in 1 .. (Len(s) - 1) : t[i] = s[i]
  <2>1. s # <<>>
    BY <1>2, <1>3
  <2> QED BY <2>1, PopIs
<1> HIDE DEF q, t
<1>6. CASE Len(s) > 1
  <2>1. k \in 1 .. Len(q) /\ k \in DOMAIN q /\ q[k] = first /\ Len(t) = Len(q) + 1 - k
    <3>1. Len(q) \in Nat /\ k <= Len(q) /\ k \in 1 .. (Len(p) - 1)
      BY <1>2, <1>3, <1>4, <1>6
    <3>2. q[k] = first
      BY <3>1, <1>1, <1>4
    <3>3. k \in 1 .. Len(q) /\ k \in DOMAIN q
      BY <3>1, <1>4
    <3>4. Len(t) = Len(q) + 1 - k
      BY <1>2, <1>3, <1>4, <1>5
    <3> QED BY <3>2, <3>3, <3>4
  <2>2. ASSUME NEW i \in 1 .. Len(t)
        PROVE  t[i] = q[k + i - 1]
    <3>1. i \in 1 .. Len(s) /\ i \in 1 .. (Len(s) - 1) /\ k + i - 1 \in 1 .. (Len(p) - 1)
      BY <1>2, <1>3, <1>5
    <3> QED BY <3>1, <1>3, <1>4, <1>5
  <2>3. t = SubSeq(q, k, Len(q))
    BY <1>4, <1>5, <2>1, <2>2, IsEnd
  <2>4. Follows(q, t, first)
    BY <2>1, <2>3 DEF Follows
  <2> QED BY <1>6, <2>4 DEF q, t
<1>7. CASE ~(Len(s) > 1)
  <2>1. k = Len(p) /\ Len(t) = 0
    BY <1>2, <1>3, <1>5, <1>7
  <2>2. t = <<>>
    BY <1>5, <2>1
  <2> QED BY <1>1, <1>7, <2>1, <2>2 DEF t
<1> QED BY <1>6, <1>7

-----------------------------------------------------------------------------
(* The invariant of the parser: the decoder's path is a line of ancestors,  *)
(* and while the Header or the Body is in use, its stack is the part of     *)
(* that line from its own element on.                                       *)

OnPath == {path[i] : i \in DOMAIN path}

PathFits ==
    \A i \in DOMAIN path : /\ path[i] \in DOMAIN doc
                           /\ Ancestors[path[i]] = {path[j] : j \in 1 .. (i - 1)}

PartsFit ==
    /\ {envelope, header, body} \subseteq DOMAIN doc \cup {None}
    /\ header # None \/ body # None => envelope # None
    /\ outcome = "accepted" => None \notin {envelope, header, body}

\* A Header in the Body does no harm to its own stack, only to the Body's.
HeaderFollows ==
    outcome = "parsing" =>
        /\ inHeader <=> header \in OnPath
        /\ inHeader => Follows(path, headerStack, header)

BodyFollows ==
    outcome = "parsing" /\ HeaderOutsideBody =>
        /\ inBody <=> body \in OnPath
        /\ inBody => Follows(path, bodyStack, body)
        /\ ~(inHeader /\ inBody)

TextsFit == \A text \in texts : text.in \in DOMAIN doc \cup {None}

Structure ==
    outcome # "rejected" =>
        /\ IF envelope = None THEN doc = <<>> ELSE doc # <<>> /\ doc[1].name = "Envelope"
        /\ Named("Header") = {header} \ {None}
        /\ {n \in Named("Body") : header \notin Ancestors[n]} = {body} \ {None}

DocumentFits ==
    /\ EnvelopeTypeOK
    /\ AncestorsFit(doc)
    /\ PathFits
    /\ PartsFit
    /\ TextsFit
    /\ TreesMirrorDocument

EnvelopeInv ==
    /\ DocumentFits
    /\ HeaderFollows
    /\ BodyFollows
    /\ Structure

LEMMA EnvelopeInitInv == EnvelopeInit => EnvelopeInv
<1> SUFFICES ASSUME EnvelopeInit
             PROVE  EnvelopeInv
  OBVIOUS
<1> USE DEF EnvelopeInit
<1>1. DOMAIN doc = {} /\ DOMAIN path = {} /\ DOMAIN built = {}
  OBVIOUS
<1>2. EnvelopeTypeOK
  <2>1. \A S : <<>> \in Seq(S)
    OBVIOUS
  <2>2. Len(doc) = 0 /\ Len(built) = 0 /\ Len(doc) <= MaxElements
    BY EnvelopeAssumption
  <2>3. /\ headerStack \in Seq(Elements) /\ (headerStack = <<>> <=> ~inHeader)
        /\ bodyStack \in Seq(Elements) /\ (bodyStack = <<>> <=> ~inBody)
        /\ inHeader \in BOOLEAN /\ inBody \in BOOLEAN
    BY <2>1
  <2>4. /\ doc \in Seq([name : Names, parent : Elements \cup {None}])
        /\ path \in Seq(Elements) /\ built \in Seq(Elements \cup {None})
    BY <2>1
  <2>5. texts \subseteq [in : Elements \cup {None}, to : SUBSET Elements]
    OBVIOUS
  <2>6. outcome \in {"parsing", "accepted", "rejected"}
        /\ {envelope, header, body} \subseteq Elements \cup {None}
    OBVIOUS
  <2> QED BY <2>2, <2>3, <2>4, <2>5, <2>6 DEF EnvelopeTypeOK
<1>3. AncestorsFit(doc)
  BY NoAncestors
<1>4. PathFits /\ PartsFit /\ TextsFit
  BY <1>1 DEF PathFits, PartsFit, TextsFit, None
<1>5. HeaderFollows /\ BodyFollows
  BY <1>1 DEF HeaderFollows, BodyFollows, OnPath
<1>6. TreesMirrorDocument /\ Structure
  BY <1>1 DEF TreesMirrorDocument, Structure, Named
<1> QED BY <1>2, <1>3, <1>4, <1>5, <1>6 DEF EnvelopeInv, DocumentFits

\* What every start tag does to the document and the path.
Grown(name, parent, new) ==
    /\ new \in Elements /\ new \notin DOMAIN doc /\ DOMAIN doc' = DOMAIN doc \cup {new}
    /\ \A n \in DOMAIN doc : /\ doc'[n] = doc[n] /\ built'[n] = built[n]
                             /\ Ancestors'[n] = Ancestors[n]
                             /\ Ancestors[n] \subseteq DOMAIN doc
    /\ doc'[new].name = name /\ built'[new] = parent
    /\ doc'[new].parent = IF path = <<>> THEN None ELSE Top(path)
    /\ Ancestors'[new] = OnPath
    /\ path' = Append(path, new) /\ path' \in Seq(Elements)
    /\ OnPath' = OnPath \cup {new} /\ OnPath \subseteq DOMAIN doc
    /\ doc' \in Seq(Element) /\ Len(doc') <= MaxElements
    /\ built' \in Seq(Elements \cup {None}) /\ Len(built') = Len(doc')
    /\ AncestorsFit(doc')
    /\ PathFits'

LEMMA Started ==
  ASSUME EnvelopeInv, NEW name \in Names, NEW parent \in Elements \cup {None},
         Start(name, parent), NEW new, new = New
  PROVE  Grown(name, parent, new)
<1> DEFINE above == IF path = <<>> THEN None ELSE Top(path)
           e == [name |-> name, parent |-> above]
<1>1. /\ doc \in Seq(Element) /\ path \in Seq(Elements) /\ built \in Seq(Elements \cup {None})
      /\ Len(built) = Len(doc)
  BY DEF EnvelopeInv, DocumentFits, EnvelopeTypeOK, Element
<1>2. /\ Len(doc) < MaxElements /\ doc' = Append(doc, e) /\ path' = Append(path, Len(doc) + 1)
      /\ built' = Append(built, parent)
  BY DEF Start
<1>3. /\ Len(doc) \in Nat /\ DOMAIN doc = 1 .. Len(doc)
      /\ Len(path) \in Nat /\ DOMAIN path = 1 .. Len(path)
      /\ Len(built) \in Nat /\ DOMAIN built = 1 .. Len(built)
  BY <1>1
<1>4. new = Len(doc) + 1 /\ new \in Elements /\ new \notin DOMAIN doc
  BY <1>2, <1>3, EnvelopeAssumption DEF New, Elements
<1>5. \A i \in DOMAIN path : /\ path[i] \in DOMAIN doc
                             /\ Ancestors[path[i]] = {path[j] : j \in 1 .. (i - 1)}
  BY DEF EnvelopeInv, DocumentFits, PathFits
<1>6. above \in 0 .. Len(doc) /\ above \in Elements \cup {None}
      /\ (above # None => path # <<>> /\ above = path[Len(path)] /\ Len(path) \in DOMAIN path)
      /\ (above = None => path = <<>>)
  <2>1. CASE path = <<>>
    BY <2>1, <1>3 DEF None
  <2>2. CASE path # <<>>
    <3>1. Len(path) \in DOMAIN path
      BY <2>2, <1>1, <1>3
    <3>2. above = path[Len(path)] /\ above \in DOMAIN doc /\ above \in Elements
      BY <2>2, <3>1, <1>1, <1>5 DEF Top
    <3> QED BY <2>2, <3>1, <3>2, <1>3 DEF None
  <2> QED BY <2>1, <2>2
<1> HIDE DEF above
<1>7. e \in Element /\ e.parent = above /\ e.name = name
  BY <1>6 DEF Element
<1> HIDE DEF e
<1>8. /\ doc' \in Seq(Element) /\ Len(doc') = Len(doc) + 1
      /\ \A n \in 1 .. Len(doc) : doc'[n] = doc[n]
      /\ doc'[Len(doc) + 1] = e
  BY <1>1, <1>2, <1>7, AppendProperties
<1>9. /\ built' \in Seq(Elements \cup {None}) /\ Len(built') = Len(built) + 1
      /\ \A n \in 1 .. Len(built) : built'[n] = built[n]
      /\ built'[Len(built) + 1] = parent
  BY <1>1, <1>2, AppendProperties
<1>10. /\ path' \in Seq(Elements) /\ Len(path') = Len(path) + 1
       /\ \A i \in 1 .. Len(path) : path'[i] = path[i]
       /\ path'[Len(path) + 1] = new
  BY <1>1, <1>2, <1>4, AppendProperties
<1>11. /\ DOMAIN doc' = 1 .. (Len(doc) + 1) /\ DOMAIN path' = 1 .. (Len(path) + 1)
  BY <1>8, <1>10
<1>12. DOMAIN doc' = DOMAIN doc \cup {new} /\ Len(doc') <= MaxElements
  BY <1>2, <1>3, <1>4, <1>8, <1>11, EnvelopeAssumption
<1>13. Ancestors = AncestorsOf(doc) /\ Ancestors' = AncestorsOf(doc')
  BY DEF Ancestors, AncestorsOf, Above
<1>14. AncestorsFit(doc)
  BY DEF EnvelopeInv, DocumentFits
<1>15. /\ AncestorsFit(doc')
       /\ \A n \in DOMAIN doc : Ancestors'[n] = Ancestors[n]
       /\ Ancestors'[Len(doc) + 1] =
             IF above = None THEN {} ELSE {above} \cup Ancestors[above]
  <2> DEFINE d2 == doc'
  <2>1. DOMAIN d2 = 1 .. (Len(doc) + 1)
    BY <1>11
  <2>2. \A n \in DOMAIN doc : d2[n] = doc[n]
    BY <1>3, <1>8
  <2>3. d2[Len(doc) + 1] = e
    BY <1>8
  <2>4. Len(doc) \in Nat
    BY <1>3
  <2>5. DOMAIN doc = 1 .. Len(doc)
    BY <1>3
  <2>6. e.parent \in 0 .. Len(doc)
    BY <1>6, <1>7
  <2> HIDE DEF d2, e
  <2>7. AncestorsGrow(doc, d2, e, Len(doc) + 1)
    BY <2>1, <2>2, <2>3, <2>4, <2>5, <2>6, <1>14, AppendAncestors, Zenon
  <2> QED BY <2>7, <1>7, <1>13 DEF d2, AncestorsGrow
<1>16. Ancestors'[new] = OnPath
  <2>1. CASE above = None
    BY <2>1, <1>3, <1>4, <1>6, <1>15 DEF OnPath
  <2>2. CASE above # None
    <3>1. Ancestors[above] = {path[j] : j \in 1 .. (Len(path) - 1)}
      BY <2>2, <1>5, <1>6
    <3>2. OnPath = {path[Len(path)]} \cup {path[j] : j \in 1 .. (Len(path) - 1)}
      BY <2>2, <1>3, <1>6, SMTT(30) DEF OnPath
    <3> QED BY <2>2, <3>1, <3>2, <1>4, <1>6, <1>15
  <2> QED BY <2>1, <2>2
<1>17. OnPath' = OnPath \cup {new} /\ OnPath \subseteq DOMAIN doc
  BY <1>3, <1>5, <1>10, <1>11 DEF OnPath
<1>18. \A n \in DOMAIN doc : Ancestors[n] \subseteq DOMAIN doc
  BY <1>3, <1>13, <1>14 DEF AncestorsFit
<1>19. PathFits'
  <2>1. ASSUME NEW i \in 1 .. (Len(path) + 1)
        PROVE  /\ path'[i] \in DOMAIN doc'
               /\ Ancestors'[path'[i]] = {path'[j] : j \in 1 .. (i - 1)}
    <3>1. {path'[j] : j \in 1 .. (i - 1)} = {path[j] : j \in 1 .. (i - 1)}
      BY <1>3, <1>10
    <3>2. CASE i \in 1 .. Len(path)
      BY <3>1, <3>2, <1>3, <1>5, <1>10, <1>12, <1>15
    <3>3. CASE i = Len(path) + 1
      <4>1. OnPath = {path[j] : j \in 1 .. (i - 1)}
        BY <3>3, <1>3 DEF OnPath
      <4> QED BY <3>1, <3>3, <4>1, <1>10, <1>12, <1>16
    <3> QED BY <3>2, <3>3, <1>3
  <2> QED BY <2>1, <1>11 DEF PathFits
<1>20. doc'[new].name = name /\ doc'[new].parent = above /\ built'[new] = parent
  BY <1>1, <1>4, <1>7, <1>8, <1>9
<1>21. \A n \in DOMAIN doc : doc'[n] = doc[n] /\ built'[n] = built[n]
  BY <1>1, <1>3, <1>8, <1>9
<1>22. path' = Append(path, new) /\ Len(built') = Len(doc')
  BY <1>1, <1>2, <1>4, <1>8, <1>9
<1> HIDE DEF above, e
<1> QED
  BY <1>4, <1>8, <1>9, <1>10, <1>12, <1>15, <1>16, <1>17, <1>18, <1>19, <1>20, <1>21, <1>22,
     Zenon DEF above, Grown

\* A start tag makes nothing a Header or a Body but perhaps its own element, so
\* that what stood inside them is all that does.
PartsStay(new) ==
    /\ header' = header \/ (header = None /\ header' = new)
    /\ body' = body \/ (body = None /\ body' = new)

LEMMA OldInside ==
  ASSUME EnvelopeInv, NEW name \in Names, NEW parent \in Elements \cup {None},
         Start(name, parent), NEW new, new = New, PartsStay(new)
  PROVE  /\ \A n \in DOMAIN doc :
               /\ {header', body'} \cap Ancestors'[n] = {header, body} \cap Ancestors[n]
               /\ {header', body'} \cap {n} = {header, body} \cap {n}
         /\ HeaderOutsideBody' => HeaderOutsideBody
<1>1. /\ new \notin DOMAIN doc
      /\ \A n \in DOMAIN doc : /\ Ancestors'[n] = Ancestors[n]
                               /\ Ancestors[n] \subseteq DOMAIN doc
  <2>1. Grown(name, parent, new)
    BY Started
  <2> QED BY <2>1 DEF Grown
<1>2. None \notin DOMAIN doc
  <2>1. doc \in Seq(Element)
    BY DEF EnvelopeInv, DocumentFits, EnvelopeTypeOK, Element
  <2> QED BY <2>1 DEF None
<1>3. \A n \in DOMAIN doc : {header', body'} \cap Ancestors'[n] = {header, body} \cap Ancestors[n]
  BY <1>1, <1>2 DEF PartsStay
<1>4. \A n \in DOMAIN doc : {header', body'} \cap {n} = {header, body} \cap {n}
  BY <1>1, <1>2 DEF PartsStay
<1>5. ASSUME HeaderOutsideBody', header # None
      PROVE  body \notin Ancestors[header]
  <2>1. header \in DOMAIN doc
    BY <1>5 DEF EnvelopeInv, DocumentFits, PartsFit
  <2>2. header' = header
    BY <1>5 DEF PartsStay
  <2>3. Ancestors'[header'] = Ancestors[header] /\ Ancestors[header] \subseteq DOMAIN doc
    BY <1>1, <2>1, <2>2
  <2>4. body' \notin Ancestors[header]
    BY <1>5, <2>2, <2>3 DEF HeaderOutsideBody
  <2> QED BY <1>2, <2>3, <2>4 DEF PartsStay
<1> QED BY <1>3, <1>4, <1>5 DEF HeaderOutsideBody

\* The parts of the invariant that all start tags keep for the same reason.
LEMMA StartKeeps ==
  ASSUME EnvelopeInv, NEW name \in Names, NEW parent \in Elements \cup {None},
         Start(name, parent), NEW new, new = New, PartsStay(new),
         texts' \in {texts, {}}, outcome' \in {"parsing", "rejected"},
         envelope' \in {envelope, new},
         inHeader' \in BOOLEAN, headerStack' \in Seq(Elements),
         headerStack' = <<>> <=> ~inHeader',
         inBody' \in BOOLEAN, bodyStack' \in Seq(Elements),
         bodyStack' = <<>> <=> ~inBody',
         header' # None \/ body' # None => envelope' # None,
         outcome' = "parsing" /\ HeaderOutsideBody' =>
            parent = IF {header', body'} \cap OnPath # {} THEN Top(path) ELSE None
  PROVE  DocumentFits'
<1>1. /\ new \in Elements /\ new \notin DOMAIN doc /\ DOMAIN doc' = DOMAIN doc \cup {new}
      /\ \A n \in DOMAIN doc : /\ doc'[n] = doc[n] /\ built'[n] = built[n]
                               /\ Ancestors'[n] = Ancestors[n]
                               /\ Ancestors[n] \subseteq DOMAIN doc
      /\ doc'[new].name = name /\ built'[new] = parent
      /\ doc'[new].parent = IF path = <<>> THEN None ELSE Top(path)
      /\ Ancestors'[new] = OnPath
  <2>1. Grown(name, parent, new)
    BY Started
  <2> QED BY <2>1 DEF Grown
<1>2. /\ path' \in Seq(Elements)
      /\ doc' \in Seq(Element) /\ Len(doc') <= MaxElements
      /\ built' \in Seq(Elements \cup {None}) /\ Len(built') = Len(doc')
      /\ AncestorsFit(doc')
      /\ PathFits'
  <2>1. Grown(name, parent, new)
    BY Started
  <2> QED BY <2>1 DEF Grown
<1>3. /\ {envelope, header, body} \subseteq Elements \cup {None}
      /\ texts \subseteq [in : Elements \cup {None}, to : SUBSET Elements]
  BY DEF EnvelopeInv, DocumentFits, EnvelopeTypeOK
<1>4. {envelope', header', body'} \subseteq Elements \cup {None}
  BY <1>1, <1>3 DEF PartsStay
<1>5. texts' \subseteq [in : Elements \cup {None}, to : SUBSET Elements]
  BY <1>3
<1>6. EnvelopeTypeOK'
  <2>1. outcome' \in {"parsing", "accepted", "rejected"}
    OBVIOUS
  <2> QED BY <2>1, <1>2, <1>4, <1>5, Zenon DEF EnvelopeTypeOK, Element
<1>7. PartsFit'
  BY <1>1 DEF EnvelopeInv, DocumentFits, PartsFit, PartsStay
<1>8. TextsFit'
  BY <1>1 DEF EnvelopeInv, DocumentFits, TextsFit
<1>9. ASSUME outcome' = "parsing", HeaderOutsideBody'
      PROVE  /\ \A n \in DOMAIN doc' :
                   built'[n] = IF {header', body'} \cap Ancestors'[n] # {}
                               THEN doc'[n].parent ELSE None
             /\ \A text \in texts' :
                   text.to = {n \in {text.in} \ {None} :
                                 {header', body'} \cap ({n} \cup Ancestors'[n]) # {}}
  <2>1. /\ \A n \in DOMAIN doc :
              /\ {header', body'} \cap Ancestors'[n] = {header, body} \cap Ancestors[n]
              /\ {header', body'} \cap {n} = {header, body} \cap {n}
        /\ HeaderOutsideBody
    BY <1>9, OldInside
  <2>2. /\ \A n \in DOMAIN doc :
              built[n] = IF {header, body} \cap Ancestors[n] # {} THEN doc[n].parent ELSE None
        /\ \A text \in texts :
              text.to = {n \in {text.in} \ {None} :
                            {header, body} \cap ({n} \cup Ancestors[n]) # {}}
    <3>1. outcome = "parsing"
      BY DEF Start
    <3> QED BY <2>1, <3>1 DEF EnvelopeInv, DocumentFits, TreesMirrorDocument
  <2>3. ASSUME NEW n \in DOMAIN doc
        PROVE  built'[n] = IF {header', body'} \cap Ancestors'[n] # {}
                           THEN doc'[n].parent ELSE None
    <3>1. {header', body'} \cap Ancestors'[n] = {header, body} \cap Ancestors[n]
      BY <2>1
    <3> QED BY <3>1, <2>2, <1>1
  <2>4. built'[new] = IF {header', body'} \cap Ancestors'[new] # {}
                      THEN doc'[new].parent ELSE None
    <3>1. path = <<>> => OnPath = {}
      BY DEF OnPath
    <3> QED BY <1>1, <1>9, <3>1
  <2>5. ASSUME NEW text \in texts'
        PROVE  text.to = {n \in {text.in} \ {None} :
                             {header', body'} \cap ({n} \cup Ancestors'[n]) # {}}
    <3>1. text \in texts /\ text.in \in DOMAIN doc \cup {None}
      BY DEF EnvelopeInv, DocumentFits, TextsFit
    <3>2. \A n \in {text.in} \ {None} :
             {header', body'} \cap ({n} \cup Ancestors'[n]) # {}
             <=> {header, body} \cap ({n} \cup Ancestors[n]) # {}
      BY <2>1, <3>1, ZenonT(30)
    <3>3. {n \in {text.in} \ {None} : {header', body'} \cap ({n} \cup Ancestors'[n]) # {}}
          = {n \in {text.in} \ {None} : {header, body} \cap ({n} \cup Ancestors[n]) # {}}
      BY <3>2
    <3>4. text.to = {n \in {text.in} \ {None} :
                         {header, body} \cap ({n} \cup Ancestors[n]) # {}}
      BY <2>2, <3>1
    <3> QED BY <3>3, <3>4
  <2> QED BY <1>1, <2>3, <2>4, <2>5
<1>10. TreesMirrorDocument'
  BY <1>9 DEF TreesMirrorDocument
<1> QED BY <1>2, <1>6, <1>7, <1>8, <1>10 DEF DocumentFits

\* The structure is kept if exactly the first element named Header, and the first
\* named Body outside it, become the Header and the Body.
LEMMA StructureKept ==
  ASSUME EnvelopeInv, NEW name \in Names, NEW parent \in Elements \cup {None},
         Start(name, parent), NEW new, new = New, PartsStay(new),
         envelope = None => name = "Envelope", envelope' # None,
         IF name = "Header" THEN header' = new ELSE header' = header,
         IF name = "Body" /\ header' \notin OnPath THEN body' = new ELSE body' = body
  PROVE  Structure'
<1>1. Grown(name, parent, new)
  BY Started
<1>2. /\ new \in Elements /\ new \notin DOMAIN doc /\ DOMAIN doc' = DOMAIN doc \cup {new}
      /\ \A n \in DOMAIN doc : /\ doc'[n] = doc[n] /\ Ancestors'[n] = Ancestors[n]
                               /\ Ancestors[n] \subseteq DOMAIN doc
      /\ doc'[new].name = name
      /\ Ancestors'[new] = OnPath
  BY <1>1 DEF Grown
<1>3. doc \in Seq(Element) /\ doc' \in Seq(Element)
  BY <1>1 DEF Grown, EnvelopeInv, DocumentFits, EnvelopeTypeOK, Element
<1>4. None \notin DOMAIN doc /\ None \notin Elements
  BY <1>3 DEF None, Elements
<1>5. /\ IF envelope = None THEN doc = <<>> ELSE doc # <<>> /\ doc[1].name = "Envelope"
      /\ Named("Header") = {header} \ {None}
      /\ {n \in Named("Body") : header \notin Ancestors[n]} = {body} \ {None}
  BY DEF EnvelopeInv, Structure, Start
<1>6. doc' # <<>> /\ doc'[1].name = "Envelope"
  <2>1. CASE envelope = None
    <3>1. new = 1
      BY <2>1, <1>5 DEF New
    <3> QED BY <2>1, <3>1, <1>2, <1>3
  <2>2. CASE envelope # None
    <3>1. 1 \in DOMAIN doc
      BY <2>2, <1>3, <1>5
    <3> QED BY <2>2, <3>1, <1>2, <1>3, <1>5
  <2> QED BY <2>1, <2>2
<1>7. \A x : Named(x)' = IF name = x THEN Named(x) \cup {new} ELSE Named(x)
  BY <1>2 DEF Named
<1>8. Named("Header")' = {header'} \ {None}
  <2>1. name = "Header" => header = None \/ header = new
    BY DEF PartsStay
  <2> QED BY <2>1, <1>2, <1>4, <1>5, <1>7
<1>9. {n \in Named("Body")' : header' \notin Ancestors'[n]} = {body'} \ {None}
  <2>1. \A n \in DOMAIN doc : header' \in Ancestors'[n] <=> header \in Ancestors[n]
    BY <1>2, <1>4 DEF PartsStay
  <2>2. Named("Body") \subseteq DOMAIN doc
    BY DEF Named
  <2>3. \A n \in Named("Body")' :
           header' \notin Ancestors'[n] <=>
              \/ n \in Named("Body") /\ header \notin Ancestors[n]
              \/ n = new /\ header' \notin OnPath
    BY <2>1, <2>2, <1>2, <1>7
  <2>4. {n \in Named("Body")' : header' \notin Ancestors'[n]} =
           ({body} \ {None}) \cup IF name = "Body" /\ header' \notin OnPath THEN {new} ELSE {}
    BY <2>2, <2>3, <1>2, <1>5, <1>7
  <2> QED BY <2>4, <1>2, <1>4 DEF PartsStay
<1>10. IF envelope' = None THEN doc' = <<>> ELSE doc' # <<>> /\ doc'[1].name = "Envelope"
  BY <1>6
<1> QED BY <1>8, <1>9, <1>10 DEF Structure

\* What the steps below know of the state they start in.
LEMMA ParsingFacts ==
  ASSUME EnvelopeInv, outcome = "parsing"
  PROVE  /\ doc \in Seq(Element) /\ path \in Seq(Elements)
         /\ headerStack \in Seq(Elements) /\ bodyStack \in Seq(Elements)
         /\ inHeader \in BOOLEAN /\ inBody \in BOOLEAN
         /\ headerStack = <<>> <=> ~inHeader
         /\ bodyStack = <<>> <=> ~inBody
         /\ {envelope, header, body} \subseteq DOMAIN doc \cup {None}
         /\ header # None \/ body # None => envelope # None
         /\ envelope = None => doc = <<>>
         /\ None \notin DOMAIN doc /\ None \notin Elements
         /\ OnPath \subseteq DOMAIN doc
         /\ inHeader <=> header \in OnPath
         /\ inHeader => Follows(path, headerStack, header)
         /\ HeaderOutsideBody => /\ inBody <=> body \in OnPath
                                 /\ inBody => Follows(path, bodyStack, body)
                                 /\ ~(inHeader /\ inBody)
<1>1. doc \in Seq(Element) /\ None \notin Elements
  BY DEF EnvelopeInv, DocumentFits, EnvelopeTypeOK, Element, None, Elements
<1>2. None \notin DOMAIN doc
  BY <1>1 DEF None
<1>3. OnPath \subseteq DOMAIN doc
  BY DEF EnvelopeInv, DocumentFits, PathFits, OnPath
<1>4. /\ path \in Seq(Elements)
      /\ headerStack \in Seq(Elements) /\ bodyStack \in Seq(Elements)
      /\ inHeader \in BOOLEAN /\ inBody \in BOOLEAN
      /\ headerStack = <<>> <=> ~inHeader
      /\ bodyStack = <<>> <=> ~inBody
  BY DEF EnvelopeInv, DocumentFits, EnvelopeTypeOK
<1>5. /\ {envelope, header, body} \subseteq DOMAIN doc \cup {None}
      /\ header # None \/ body # None => envelope # None
      /\ envelope = None => doc = <<>>
  BY DEF EnvelopeInv, DocumentFits, PartsFit, Structure
<1>6. /\ inHeader <=> header \in OnPath
      /\ inHeader => Follows(path, headerStack, header)
  BY DEF EnvelopeInv, HeaderFollows
<1>7. HeaderOutsideBody => /\ inBody <=> body \in OnPath
                           /\ inBody => Follows(path, bodyStack, body)
                           /\ ~(inHeader /\ inBody)
  BY DEF EnvelopeInv, BodyFollows
<1> QED BY <1>1, <1>2, <1>3, <1>4, <1>5, <1>6, <1>7

LEMMA StartEnvelopeKeeps == EnvelopeInv /\ StartEnvelope => EnvelopeInv'
<1> SUFFICES ASSUME EnvelopeInv, StartEnvelope, NEW new, new = New
             PROVE  EnvelopeInv'
  OBVIOUS
<1>1. /\ Start("Envelope", None) /\ envelope = None /\ envelope' = new
      /\ header' = header /\ body' = body /\ outcome' = outcome /\ outcome = "parsing"
      /\ inHeader' = inHeader /\ inBody' = inBody
      /\ headerStack' = headerStack /\ bodyStack' = bodyStack /\ texts' = texts
      /\ "Envelope" \in Names /\ None \in Elements \cup {None}
  BY DEF StartEnvelope, Start, stackVars, Names
<1>2. Grown("Envelope", None, new) /\ PartsStay(new)
  <2>1. PartsStay(new)
    BY <1>1 DEF PartsStay
  <2> QED BY <2>1, <1>1, Started, Zenon
<1>3. /\ header = None /\ body = None /\ OnPath = {} /\ ~inHeader /\ new # None
      /\ headerStack \in Seq(Elements) /\ bodyStack \in Seq(Elements)
      /\ inHeader \in BOOLEAN /\ inBody \in BOOLEAN
      /\ headerStack = <<>> <=> ~inHeader
      /\ bodyStack = <<>> <=> ~inBody
  <2>1. doc = <<>> => DOMAIN doc = {}
    OBVIOUS
  <2> QED BY <2>1, <1>1, <1>2, ParsingFacts DEF Grown
<1>4. OnPath' = {new}
  BY <1>2, <1>3 DEF Grown
<1>5. DocumentFits'
  BY <1>1, <1>2, <1>3, StartKeeps
<1>6. Structure'
  BY <1>1, <1>2, <1>3, StructureKept
<1>7. HeaderFollows'
  BY <1>1, <1>3, <1>4 DEF HeaderFollows
<1>8. BodyFollows'
  <2>1. ~inBody
    BY <1>1, <1>3, ParsingFacts DEF HeaderOutsideBody
  <2> QED BY <2>1, <1>1, <1>3, <1>4 DEF BodyFollows
<1> QED BY <1>5, <1>6, <1>7, <1>8 DEF EnvelopeInv

LEMMA StartHeaderKeeps == EnvelopeInv /\ StartHeader => EnvelopeInv'
<1> SUFFICES ASSUME EnvelopeInv, StartHeader, NEW new, new = New
             PROVE  EnvelopeInv'
  OBVIOUS
<1>1. /\ Start("Header", None) /\ envelope # None /\ envelope' = envelope
      /\ header = None /\ header' = new /\ body' = body
      /\ outcome' = outcome /\ outcome = "parsing"
      /\ inHeader' = TRUE /\ inBody' = inBody
      /\ headerStack' = <<new>> /\ bodyStack' = bodyStack /\ texts' = texts
      /\ "Header" \in Names /\ None \in Elements \cup {None}
  BY DEF StartHeader, Start, Names
<1>2. Grown("Header", None, new) /\ PartsStay(new)
  <2>1. PartsStay(new)
    BY <1>1 DEF PartsStay
  <2> QED BY <2>1, <1>1, Started, Zenon
<1>3. /\ path \in Seq(Elements) /\ new \in Elements /\ new # None
      /\ path' = Append(path, new) /\ OnPath' = OnPath \cup {new} /\ new \notin OnPath
      /\ Ancestors'[new] = OnPath
  BY <1>1, <1>2, ParsingFacts DEF Grown
<1>4. /\ headerStack' \in Seq(Elements) /\ headerStack' # <<>>
      /\ bodyStack \in Seq(Elements) /\ inBody \in BOOLEAN
      /\ bodyStack = <<>> <=> ~inBody
  BY <1>1, <1>3, ParsingFacts
<1>5. HeaderOutsideBody' => HeaderOutsideBody /\ body \notin OnPath
  BY <1>1, <1>2, <1>3, OldInside DEF HeaderOutsideBody
<1>6. HeaderOutsideBody' => {header', body'} \cap OnPath = {}
  BY <1>1, <1>3, <1>5
<1>7. DocumentFits'
  BY <1>1, <1>2, <1>4, <1>6, StartKeeps
<1>8. Structure'
  BY <1>1, <1>2, StructureKept
<1>9. HeaderFollows'
  BY <1>1, <1>3, FollowsNew DEF HeaderFollows
<1>10. BodyFollows'
  <2> SUFFICES ASSUME HeaderOutsideBody'
               PROVE  ~inBody /\ body \notin OnPath'
    BY <1>1 DEF BodyFollows
  <2> QED BY <1>1, <1>2, <1>3, <1>5, ParsingFacts DEF Grown
<1> QED BY <1>7, <1>8, <1>9, <1>10 DEF EnvelopeInv

LEMMA StartInHeaderKeeps == EnvelopeInv /\ StartInHeader => EnvelopeInv'
<1> SUFFICES ASSUME EnvelopeInv, StartInHeader, NEW new, new = New
             PROVE  EnvelopeInv'
  OBVIOUS
<1> DEFINE top == Top(headerStack)
<1>0. PICK name \in Names \ {"Header"} : Start(name, top)
  BY DEF StartInHeader
<1>1. /\ name \in Names /\ Start(name, top) /\ envelope # None /\ envelope' = envelope
      /\ header' = header /\ body' = body /\ outcome' = outcome /\ outcome = "parsing"
      /\ inHeader /\ inHeader' = inHeader /\ inBody' = inBody
      /\ headerStack' = Append(headerStack, new) /\ bodyStack' = bodyStack /\ texts' = texts
  BY <1>0 DEF StartInHeader, Start
<1>2. /\ path \in Seq(Elements) /\ headerStack \in Seq(Elements)
      /\ bodyStack \in Seq(Elements) /\ inBody \in BOOLEAN /\ inHeader \in BOOLEAN
      /\ bodyStack = <<>> <=> ~inBody
      /\ header \in OnPath /\ Follows(path, headerStack, header)
      /\ HeaderOutsideBody => ~inBody /\ body \notin OnPath
      /\ body \in DOMAIN doc \cup {None}
  BY <1>1, ParsingFacts
<1>3. top = Top(path) /\ top \in Elements \cup {None}
  <2>1. headerStack # <<>> /\ top = Top(path)
    BY <1>2, FollowsTop
  <2> QED BY <2>1, <1>2 DEF Top
<1> HIDE DEF top
<1>4. Grown(name, top, new) /\ PartsStay(new)
  <2>1. PartsStay(new)
    BY <1>1 DEF PartsStay
  <2> QED BY <2>1, <1>1, <1>3, Started, Zenon
<1>5. /\ new \in Elements /\ path' = Append(path, new) /\ OnPath' = OnPath \cup {new}
      /\ new \notin DOMAIN doc /\ new # None
  BY <1>1, <1>4, ParsingFacts DEF Grown
<1>6. headerStack' \in Seq(Elements) /\ headerStack' # <<>>
  <2>1. headerStack \in Seq(Elements) /\ new \in Elements
    BY <1>2, <1>5
  <2>2. Append(headerStack, new) \in Seq(Elements) /\ Append(headerStack, new) # <<>>
    BY <2>1, AppendProperties
  <2> QED BY <2>2, <1>1
<1>7. DocumentFits'
  <2>1. {header', body'} \cap OnPath # {}
    BY <1>1, <1>2
  <2> QED BY <2>1, <1>1, <1>2, <1>3, <1>4, <1>6, ParsingFacts, StartKeeps
<1>8. Structure'
  <2>1. name # "Header" /\ envelope # None /\ envelope' # None
        /\ header' = header /\ header' \in OnPath /\ body' = body
    BY <1>0, <1>1, <1>2
  <2> QED BY <2>1, <1>1, <1>3, <1>4, StructureKept
<1>9. HeaderFollows'
  <2>1. Follows(path', headerStack', header')
    BY <1>1, <1>2, <1>5, FollowsPush
  <2> QED BY <2>1, <1>1, <1>2, <1>5 DEF HeaderFollows
<1>10. BodyFollows'
  <2> SUFFICES ASSUME HeaderOutsideBody'
               PROVE  ~inBody /\ body \notin OnPath'
    BY <1>1 DEF BodyFollows
  <2>1. HeaderOutsideBody
    BY <1>1, <1>3, <1>4, OldInside
  <2> QED BY <2>1, <1>2, <1>5
<1> QED BY <1>7, <1>8, <1>9, <1>10 DEF EnvelopeInv

LEMMA StartBodyKeeps == EnvelopeInv /\ StartBody => EnvelopeInv'
<1> SUFFICES ASSUME EnvelopeInv, StartBody, NEW new, new = New
             PROVE  EnvelopeInv'
  OBVIOUS
<1>1. /\ Start("Body", None) /\ envelope # None /\ envelope' = envelope
      /\ body = None /\ body' = new /\ header' = header
      /\ outcome' = outcome /\ outcome = "parsing"
      /\ ~inHeader /\ inHeader' = inHeader /\ inBody' = TRUE
      /\ headerStack' = headerStack /\ bodyStack' = <<new>> /\ texts' = texts
      /\ "Body" \in Names /\ None \in Elements \cup {None}
  BY DEF StartBody, Start, Names
<1>2. Grown("Body", None, new) /\ PartsStay(new)
  <2>1. PartsStay(new)
    BY <1>1 DEF PartsStay
  <2> QED BY <2>1, <1>1, Started, Zenon
<1>3. /\ path \in Seq(Elements) /\ new \in Elements /\ new # None
      /\ path' = Append(path, new) /\ OnPath' = OnPath \cup {new} /\ new \notin OnPath
      /\ header \notin OnPath /\ header # new
  BY <1>1, <1>2, ParsingFacts DEF Grown
<1>4. /\ headerStack \in Seq(Elements) /\ inHeader \in BOOLEAN
      /\ headerStack = <<>> <=> ~inHeader
      /\ bodyStack' \in Seq(Elements) /\ bodyStack' # <<>>
  BY <1>1, <1>3, ParsingFacts
<1>5. DocumentFits'
  <2>1. {header', body'} \cap OnPath = {}
    BY <1>1, <1>3
  <2> QED BY <2>1, <1>1, <1>2, <1>4, StartKeeps
<1>6. Structure'
  BY <1>1, <1>2, <1>3, StructureKept
<1>7. HeaderFollows'
  BY <1>1, <1>3 DEF HeaderFollows
<1>8. BodyFollows'
  <2>1. Follows(path', bodyStack', body')
    BY <1>1, <1>3, FollowsNew
  <2> QED BY <2>1, <1>1, <1>3 DEF BodyFollows
<1> QED BY <1>5, <1>6, <1>7, <1>8 DEF EnvelopeInv

LEMMA StartInBodyKeeps == EnvelopeInv /\ StartInBody => EnvelopeInv'
<1> SUFFICES ASSUME EnvelopeInv, StartInBody, NEW new, new = New
             PROVE  EnvelopeInv'
  OBVIOUS
<1> DEFINE top == Top(bodyStack)
<1>0. PICK name \in {"Envelope", "Other"} : Start(name, top)
  BY DEF StartInBody
<1>1. /\ name \in Names /\ Start(name, top) /\ envelope # None /\ envelope' = envelope
      /\ header' = header /\ body' = body /\ outcome' = outcome /\ outcome = "parsing"
      /\ ~inHeader /\ inBody /\ inHeader' = inHeader /\ inBody' = inBody
      /\ headerStack' = headerStack /\ bodyStack' = Append(bodyStack, new) /\ texts' = texts
  BY <1>0 DEF StartInBody, Start, Names
<1>2. /\ path \in Seq(Elements) /\ headerStack \in Seq(Elements)
      /\ bodyStack \in Seq(Elements) /\ inBody \in BOOLEAN /\ inHeader \in BOOLEAN
      /\ headerStack = <<>> <=> ~inHeader
      /\ bodyStack = <<>> <=> ~inBody
      /\ header \notin OnPath /\ header \in DOMAIN doc \cup {None}
      /\ HeaderOutsideBody => body \in OnPath /\ Follows(path, bodyStack, body)
  BY <1>1, ParsingFacts
<1>3. top \in Elements \cup {None}
  BY <1>1, <1>2 DEF Top
<1>4. HeaderOutsideBody => top = Top(path)
  BY <1>2, FollowsTop
<1> HIDE DEF top
<1>5. Grown(name, top, new) /\ PartsStay(new)
  <2>1. PartsStay(new)
    BY <1>1 DEF PartsStay
  <2> QED BY <2>1, <1>1, <1>3, Started, Zenon
<1>6. /\ new \in Elements /\ path' = Append(path, new) /\ OnPath' = OnPath \cup {new}
      /\ new \notin DOMAIN doc /\ new # None
  BY <1>1, <1>5, ParsingFacts DEF Grown
<1>7. bodyStack' \in Seq(Elements) /\ bodyStack' # <<>>
  <2>1. bodyStack \in Seq(Elements) /\ new \in Elements
    BY <1>2, <1>6
  <2>2. Append(bodyStack, new) \in Seq(Elements) /\ Append(bodyStack, new) # <<>>
    BY <2>1, AppendProperties
  <2> QED BY <1>1, <2>2
<1>8. HeaderOutsideBody' => HeaderOutsideBody
  BY <1>1, <1>3, <1>5, OldInside
<1>9. DocumentFits'
  <2>1. HeaderOutsideBody' => top = Top(path) /\ {header', body'} \cap OnPath # {}
    BY <1>1, <1>2, <1>4, <1>8
  <2> QED BY <2>1, <1>1, <1>2, <1>3, <1>5, <1>7, ParsingFacts, StartKeeps
<1>10. Structure'
  BY <1>0, <1>1, <1>3, <1>5, StructureKept
<1>11. HeaderFollows'
  BY <1>1, <1>2, <1>6 DEF HeaderFollows
<1>12. BodyFollows'
  <2> SUFFICES ASSUME HeaderOutsideBody'
               PROVE  body \in OnPath' /\ Follows(path', bodyStack', body')
    BY <1>1 DEF BodyFollows
  <2> QED BY <1>1, <1>2, <1>6, <1>8, FollowsPush
<1> QED BY <1>9, <1>10, <1>11, <1>12 DEF EnvelopeInv

LEMMA StartElsewhereKeeps == EnvelopeInv /\ StartElsewhere => EnvelopeInv'
<1> SUFFICES ASSUME EnvelopeInv, StartElsewhere, NEW new, new = New
             PROVE  EnvelopeInv'
  OBVIOUS
<1>0. PICK name \in {"Envelope", "Other"} : Start(name, None)
  BY DEF StartElsewhere
<1>1. /\ name \in Names /\ Start(name, None) /\ envelope # None /\ envelope' = envelope
      /\ header' = header /\ body' = body /\ outcome' = outcome /\ outcome = "parsing"
      /\ ~inHeader /\ ~inBody /\ inHeader' = inHeader /\ inBody' = inBody
      /\ headerStack' = headerStack /\ bodyStack' = bodyStack /\ texts' = texts
      /\ None \in Elements \cup {None}
  BY <1>0 DEF StartElsewhere, Start, Names, stackVars
<1>2. Grown(name, None, new) /\ PartsStay(new)
  <2>1. PartsStay(new)
    BY <1>1 DEF PartsStay
  <2> QED BY <2>1, <1>1, Started, Zenon
<1>3. /\ headerStack \in Seq(Elements) /\ bodyStack \in Seq(Elements)
      /\ inBody \in BOOLEAN /\ inHeader \in BOOLEAN
      /\ headerStack = <<>> <=> ~inHeader
      /\ bodyStack = <<>> <=> ~inBody
      /\ header \notin OnPath /\ {header, body} \subseteq DOMAIN doc \cup {None}
      /\ HeaderOutsideBody => body \notin OnPath
  BY <1>1, ParsingFacts
<1>4. OnPath' = OnPath \cup {new} /\ new \notin DOMAIN doc /\ new # None
  BY <1>1, <1>2, ParsingFacts DEF Grown
<1>5. HeaderOutsideBody' => HeaderOutsideBody
  BY <1>1, <1>2, OldInside
<1>6. DocumentFits'
  <2>1. HeaderOutsideBody' => {header', body'} \cap OnPath = {}
    BY <1>1, <1>3, <1>5
  <2> QED BY <2>1, <1>1, <1>2, <1>3, ParsingFacts, StartKeeps
<1>7. Structure'
  BY <1>0, <1>1, <1>2, StructureKept
<1>8. HeaderFollows'
  BY <1>1, <1>3, <1>4 DEF HeaderFollows
<1>9. BodyFollows'
  BY <1>1, <1>3, <1>4, <1>5 DEF BodyFollows
<1> QED BY <1>6, <1>7, <1>8, <1>9 DEF EnvelopeInv

LEMMA RejectStartKeeps == EnvelopeInv /\ RejectStart => EnvelopeInv'
<1> SUFFICES ASSUME EnvelopeInv, RejectStart, NEW new, new = New
             PROVE  EnvelopeInv'
  OBVIOUS
<1>0. PICK name \in Names : Start(name, None)
  BY DEF RejectStart, Names
<1>1. /\ envelope' = envelope /\ header' = header /\ body' = body
      /\ outcome' = "rejected" /\ outcome = "parsing"
      /\ inHeader' = inHeader /\ inBody' = inBody
      /\ headerStack' = headerStack /\ bodyStack' = bodyStack /\ texts' = {}
      /\ None \in Elements \cup {None}
  BY <1>0 DEF RejectStart, Start, stackVars
<1>2. PartsStay(new)
  BY <1>1 DEF PartsStay
<1>3. DocumentFits'
  BY <1>0, <1>1, <1>2, ParsingFacts, StartKeeps
<1>4. HeaderFollows' /\ BodyFollows' /\ Structure'
  BY <1>1 DEF HeaderFollows, BodyFollows, Structure
<1> QED BY <1>3, <1>4 DEF EnvelopeInv

\* The rest of the steps leaves the document alone.
LEMMA SameDocument ==
  ASSUME UNCHANGED doc
  PROVE  /\ Ancestors' = Ancestors
         /\ \A x : Named(x)' = Named(x)
BY DEF Ancestors, Named

LEMMA CharDataKeeps == EnvelopeInv /\ CharData => EnvelopeInv'
<1> SUFFICES ASSUME EnvelopeInv, CharData
             PROVE  EnvelopeInv'
  OBVIOUS
<1> DEFINE in == IF path = <<>> THEN None ELSE Top(path)
           to == {n \in Elements : \/ inHeader /\ n = Top(headerStack)
                                   \/ inBody /\ n = Top(bodyStack)}
<1>1. /\ outcome = "parsing" /\ texts' = texts \cup {[in |-> in, to |-> to]}
      /\ UNCHANGED <<doc, path, envelope, header, body, built, inHeader, inBody, headerStack,
                     bodyStack, outcome>>
  BY DEF CharData, treeVars, stackVars
<1>2. Ancestors' = Ancestors /\ HeaderOutsideBody' = HeaderOutsideBody
  BY <1>1, SameDocument DEF HeaderOutsideBody
<1>3. /\ path \in Seq(Elements) /\ OnPath \subseteq DOMAIN doc
      /\ headerStack \in Seq(Elements) /\ bodyStack \in Seq(Elements)
      /\ None \notin DOMAIN doc /\ None \notin Elements
      /\ {header, body} \subseteq DOMAIN doc \cup {None}
      /\ inHeader <=> header \in OnPath
      /\ inHeader => Follows(path, headerStack, header)
      /\ HeaderOutsideBody => /\ inBody <=> body \in OnPath
                              /\ inBody => Follows(path, bodyStack, body)
  BY <1>1, ParsingFacts
<1>4. \/ path = <<>> /\ in = None /\ OnPath = {}
      \/ /\ path # <<>> /\ in = Top(path) /\ in \in DOMAIN doc /\ in \in Elements
         /\ OnPath = {in} \cup Ancestors[in]
  <2>1. CASE path = <<>>
    BY <2>1 DEF OnPath
  <2>2. CASE path # <<>>
    <3>1. Len(path) \in Nat /\ Len(path) \in DOMAIN path /\ DOMAIN path = 1 .. Len(path)
      BY <2>2, <1>3
    <3>2. in = path[Len(path)] /\ in \in DOMAIN doc /\ in \in Elements
      BY <2>2, <3>1, <1>3 DEF Top, OnPath
    <3>3. Ancestors[in] = {path[j] : j \in 1 .. (Len(path) - 1)}
      BY <3>1, <3>2 DEF EnvelopeInv, DocumentFits, PathFits
    <3>4. OnPath = {path[Len(path)]} \cup {path[j] : j \in 1 .. (Len(path) - 1)}
      BY <3>1 DEF OnPath
    <3> QED BY <2>2, <3>2, <3>3, <3>4
  <2> QED BY <2>1, <2>2
<1>5. inHeader => path # <<>> /\ Top(headerStack) = Top(path)
  BY <1>3, FollowsTop
<1>6. HeaderOutsideBody /\ inBody => path # <<>> /\ Top(bodyStack) = Top(path)
  BY <1>3, FollowsTop
<1>7. to \in SUBSET Elements /\ in \in Elements \cup {None}
  BY <1>4
<1>8. HeaderOutsideBody =>
         to = {n \in {in} \ {None} : {header, body} \cap ({n} \cup Ancestors[n]) # {}}
  <2> SUFFICES ASSUME HeaderOutsideBody
               PROVE  to = {n \in {in} \ {None} : {header, body} \cap ({n} \cup Ancestors[n]) # {}}
    OBVIOUS
  <2>1. CASE path = <<>>
    <3>1. ~inHeader /\ ~inBody /\ in = None
      BY <2>1, <1>4, <1>5, <1>6
    <3> QED BY <3>1
  <2>2. CASE path # <<>>
    <3>1. /\ in = Top(path) /\ in \in Elements /\ in # None
          /\ OnPath = {in} \cup Ancestors[in]
      BY <2>2, <1>3, <1>4
    <3> HIDE DEF in
    <3>2. to = {n \in {in} : inHeader \/ inBody}
      BY <3>1, <1>5, <1>6
    <3>3. inHeader \/ inBody <=> {header, body} \cap OnPath # {}
      BY <1>3
    <3> QED BY <3>1, <3>2, <3>3
  <2> QED BY <2>1, <2>2
<1> HIDE DEF in, to
<1>9. EnvelopeTypeOK'
  <2>1. texts' \subseteq [in : Elements \cup {None}, to : SUBSET Elements]
    BY <1>1, <1>7 DEF EnvelopeInv, DocumentFits, EnvelopeTypeOK
  <2> QED BY <2>1, <1>1 DEF EnvelopeInv, DocumentFits, EnvelopeTypeOK
<1>10. AncestorsFit(doc') /\ PathFits' /\ PartsFit'
  BY <1>1, <1>2 DEF EnvelopeInv, DocumentFits, PathFits, PartsFit
<1>11. TextsFit'
  BY <1>1, <1>4 DEF EnvelopeInv, DocumentFits, TextsFit
<1>12. TreesMirrorDocument'
  <2> SUFFICES ASSUME HeaderOutsideBody
               PROVE  /\ \A n \in DOMAIN doc :
                            built[n] = IF {header, body} \cap Ancestors[n] # {}
                                       THEN doc[n].parent ELSE None
                      /\ \A text \in texts' :
                            text.to = {n \in {text.in} \ {None} :
                                          {header, body} \cap ({n} \cup Ancestors[n]) # {}}
    BY <1>1, <1>2 DEF TreesMirrorDocument
  <2>1. TreesMirrorDocument
    BY DEF EnvelopeInv, DocumentFits
  <2>2. ASSUME NEW text \in texts'
        PROVE  text.to = {n \in {text.in} \ {None} :
                              {header, body} \cap ({n} \cup Ancestors[n]) # {}}
    <3>1. CASE text \in texts
      BY <3>1, <2>1, <1>1 DEF TreesMirrorDocument
    <3>2. CASE text = [in |-> in, to |-> to]
      BY <3>2, <1>8
    <3> QED BY <3>1, <3>2, <1>1
  <2> QED BY <2>1, <2>2, <1>1 DEF TreesMirrorDocument
<1>13. HeaderFollows' /\ BodyFollows'
  BY <1>1, <1>2 DEF EnvelopeInv, HeaderFollows, BodyFollows, OnPath
<1>14. Structure'
  BY <1>1, <1>2, SameDocument DEF EnvelopeInv, Structure
<1> QED BY <1>9, <1>10, <1>11, <1>12, <1>13, <1>14 DEF EnvelopeInv, DocumentFits

\* The steps that end the parse, with a rejection or with the verdict of the end.
LEMMA EndKeeps ==
  ASSUME EnvelopeInv, outcome = "parsing", outcome' \in {"accepted", "rejected"},
         outcome' = "accepted" => None \notin {envelope, header, body},
         texts' = {}, UNCHANGED <<doc, path, treeVars, stackVars>>
  PROVE  EnvelopeInv'
<1>1. UNCHANGED <<doc, path, envelope, header, body, built, inHeader, inBody, headerStack,
                  bodyStack>>
  BY DEF treeVars, stackVars
<1>2. Ancestors' = Ancestors /\ HeaderOutsideBody' = HeaderOutsideBody
  BY <1>1, SameDocument DEF HeaderOutsideBody
<1>3. EnvelopeTypeOK'
  <2>1. texts' \subseteq [in : Elements \cup {None}, to : SUBSET Elements]
        /\ outcome' \in {"parsing", "accepted", "rejected"}
    OBVIOUS
  <2> QED BY <2>1, <1>1 DEF EnvelopeInv, DocumentFits, EnvelopeTypeOK
<1>4. AncestorsFit(doc') /\ PathFits' /\ PartsFit' /\ TextsFit'
  BY <1>1, <1>2 DEF EnvelopeInv, DocumentFits, PathFits, PartsFit, TextsFit
<1>5. TreesMirrorDocument'
  BY <1>1, <1>2 DEF EnvelopeInv, DocumentFits, TreesMirrorDocument
<1>6. HeaderFollows' /\ BodyFollows'
  BY DEF HeaderFollows, BodyFollows
<1>7. Structure'
  BY <1>1, <1>2, SameDocument DEF EnvelopeInv, Structure
<1> QED BY <1>3, <1>4, <1>5, <1>6, <1>7 DEF EnvelopeInv, DocumentFits

\* An end tag takes the innermost element off the path, and with it off the stacks.
LEMMA EndElementKeeps == EnvelopeInv /\ EndElement => EnvelopeInv'
<1> SUFFICES ASSUME EnvelopeInv, EndElement
             PROVE  EnvelopeInv'
  OBVIOUS
<1> DEFINE last == path[Len(path)]
<1>1. /\ outcome = "parsing" /\ path # <<>> /\ path' = Pop(path)
      /\ headerStack' = IF inHeader THEN Pop(headerStack) ELSE headerStack
      /\ inHeader' = (inHeader /\ Len(headerStack) > 1)
      /\ bodyStack' = IF inBody THEN Pop(bodyStack) ELSE bodyStack
      /\ inBody' = (inBody /\ Len(bodyStack) > 1)
      /\ UNCHANGED <<doc, envelope, header, body, built, texts, outcome>>
  BY DEF EndElement, treeVars
<1>2. Ancestors' = Ancestors /\ HeaderOutsideBody' = HeaderOutsideBody
  BY <1>1, SameDocument DEF HeaderOutsideBody
<1>3. /\ doc \in Seq(Element) /\ path \in Seq(Elements)
      /\ headerStack \in Seq(Elements) /\ bodyStack \in Seq(Elements)
      /\ inHeader \in BOOLEAN /\ inBody \in BOOLEAN
      /\ headerStack = <<>> <=> ~inHeader
      /\ bodyStack = <<>> <=> ~inBody
      /\ inHeader <=> header \in OnPath
      /\ inHeader => Follows(path, headerStack, header)
      /\ HeaderOutsideBody => /\ inBody <=> body \in OnPath
                              /\ inBody => Follows(path, bodyStack, body)
                              /\ ~(inHeader /\ inBody)
  BY <1>1, ParsingFacts
<1>4. /\ path' \in Seq(Elements) /\ Len(path') = Len(path) - 1
      /\ \A i \in 1 .. (Len(path) - 1) : path'[i] = path[i]
  BY <1>1, <1>3, PopIs
<1>5. /\ Len(path) \in Nat /\ Len(path) > 0 /\ DOMAIN path = 1 .. Len(path)
      /\ DOMAIN path' = 1 .. (Len(path) - 1)
  BY <1>1, <1>3, <1>4
<1>6. \A i \in DOMAIN path : /\ path[i] \in DOMAIN doc
                             /\ Ancestors[path[i]] = {path[j] : j \in 1 .. (i - 1)}
  BY DEF EnvelopeInv, DocumentFits, PathFits
<1>7. OnPath' \subseteq OnPath /\ last \notin OnPath'
  <2>1. OnPath' = {path[j] : j \in 1 .. (Len(path) - 1)}
    BY <1>4, <1>5 DEF OnPath
  <2>2. Ancestors[last] = OnPath' /\ last \in DOMAIN doc
    BY <2>1, <1>5, <1>6
  <2>3. Ancestors[last] \subseteq 1 .. (last - 1) /\ last \in Nat
    <3>1. Ancestors = AncestorsOf(doc) /\ AncestorsFit(doc) /\ DOMAIN doc = 1 .. Len(doc)
      BY <1>3, AncestorsOfDoc DEF EnvelopeInv, DocumentFits
    <3> HIDE DEF last
    <3> QED BY <3>1, <2>2, <1>3 DEF AncestorsFit
  <2>4. last \notin Ancestors[last]
    <3> HIDE DEF last
    <3> QED BY <2>3
  <2>5. OnPath' \subseteq OnPath
    <3>1. OnPath = {path[j] : j \in 1 .. Len(path)}
      BY <1>5 DEF OnPath
    <3>2. \A j \in 1 .. (Len(path) - 1) : j \in 1 .. Len(path)
      BY <1>5
    <3> QED BY <2>1, <3>1, <3>2
  <2> QED BY <2>2, <2>4, <2>5
<1>8. ASSUME NEW x, NEW s \in Seq(Elements), Follows(path, s, x)
      PROVE  /\ Len(s) > 1 => Follows(path', Pop(s), x) /\ x \in OnPath' /\ Pop(s) # <<>>
             /\ ~(Len(s) > 1) => x \notin OnPath' /\ Pop(s) = <<>>
             /\ Pop(s) \in Seq(Elements)
  <2>1. /\ Len(s) > 1 => Follows(path', Pop(s), x)
        /\ ~(Len(s) > 1) => last = x /\ Pop(s) = <<>>
    BY <1>1, <1>3, <1>8, FollowsPop
  <2>2. Follows(path', Pop(s), x) => x \in OnPath'
    BY DEF Follows, OnPath
  <2>3. s # <<>>
    BY <1>3, <1>8, FollowsTop
  <2>4. Pop(s) \in Seq(Elements) /\ Len(Pop(s)) = Len(s) - 1
    BY <1>8, <2>3, PopIs
  <2>5. Len(s) > 1 => Pop(s) # <<>>
    BY <2>4
  <2> HIDE DEF last
  <2> QED BY <2>1, <2>2, <2>4, <2>5, <1>7
<1>9. ASSUME NEW s \in Seq(Elements), s # <<>>
      PROVE  /\ Pop(s) \in Seq(Elements)
             /\ Pop(s) = <<>> <=> ~(Len(s) > 1)
  <2>1. Pop(s) \in Seq(Elements) /\ Len(Pop(s)) = Len(s) - 1
    BY <1>9, PopIs
  <2> QED BY <1>9, <2>1
<1>10. /\ headerStack' \in Seq(Elements) /\ bodyStack' \in Seq(Elements)
       /\ inHeader' \in BOOLEAN /\ inBody' \in BOOLEAN
       /\ headerStack' = <<>> <=> ~inHeader'
       /\ bodyStack' = <<>> <=> ~inBody'
  <2>1. /\ headerStack' \in Seq(Elements) /\ inHeader' \in BOOLEAN
        /\ headerStack' = <<>> <=> ~inHeader'
    <3>1. CASE inHeader
      BY <3>1, <1>1, <1>3, <1>9
    <3>2. CASE ~inHeader
      BY <3>2, <1>1, <1>3
    <3> QED BY <3>1, <3>2, <1>3
  <2>2. /\ bodyStack' \in Seq(Elements) /\ inBody' \in BOOLEAN
        /\ bodyStack' = <<>> <=> ~inBody'
    <3>1. CASE inBody
      BY <3>1, <1>1, <1>3, <1>9
    <3>2. CASE ~inBody
      BY <3>2, <1>1, <1>3
    <3> QED BY <3>1, <3>2, <1>3
  <2> QED BY <2>1, <2>2
<1>11. EnvelopeTypeOK'
  BY <1>1, <1>4, <1>10 DEF EnvelopeInv, DocumentFits, EnvelopeTypeOK
<1>12. AncestorsFit(doc') /\ PartsFit' /\ TextsFit'
  BY <1>1 DEF EnvelopeInv, DocumentFits, PartsFit, TextsFit
<1>13. TreesMirrorDocument'
  <2>1. TreesMirrorDocument
    BY DEF EnvelopeInv, DocumentFits
  <2>2. /\ doc' = doc /\ header' = header /\ body' = body /\ built' = built
        /\ texts' = texts /\ outcome' = outcome
    BY <1>1
  <2> QED BY <2>1, <2>2, <1>2 DEF TreesMirrorDocument
<1>14. PathFits'
  <2>1. ASSUME NEW i \in 1 .. (Len(path) - 1)
        PROVE  /\ path'[i] \in DOMAIN doc
               /\ Ancestors[path'[i]] = {path'[j] : j \in 1 .. (i - 1)}
    <3>1. {path'[j] : j \in 1 .. (i - 1)} = {path[j] : j \in 1 .. (i - 1)}
      BY <1>4, <1>5, SMTT(30)
    <3>2. path'[i] = path[i] /\ i \in DOMAIN path
      BY <1>4, <1>5
    <3> QED BY <3>1, <3>2, <1>6
  <2> QED BY <2>1, <1>1, <1>2, <1>5 DEF PathFits
<1>15. HeaderFollows'
  <2>1. CASE inHeader
    BY <2>1, <1>1, <1>3, <1>8 DEF HeaderFollows
  <2>2. CASE ~inHeader
    BY <2>2, <1>1, <1>3, <1>7 DEF HeaderFollows
  <2> QED BY <2>1, <2>2, <1>3
<1>16. BodyFollows'
  <2> SUFFICES ASSUME HeaderOutsideBody
               PROVE  /\ inBody' <=> body' \in OnPath'
                      /\ inBody' => Follows(path', bodyStack', body')
                      /\ ~(inHeader' /\ inBody')
    BY <1>1, <1>2 DEF BodyFollows
  <2>1. CASE inBody
    BY <2>1, <1>1, <1>3, <1>8
  <2>2. CASE ~inBody
    BY <2>2, <1>1, <1>3, <1>7
  <2> QED BY <2>1, <2>2, <1>3
<1>17. Structure'
  BY <1>1, <1>2, SameDocument DEF EnvelopeInv, Structure
<1> QED BY <1>11, <1>12, <1>13, <1>14, <1>15, <1>16, <1>17 DEF EnvelopeInv, DocumentFits

LEMMA EnvelopeStep == EnvelopeInv /\ EnvelopeNext => EnvelopeInv'
<1> SUFFICES ASSUME EnvelopeInv, EnvelopeNext
             PROVE  EnvelopeInv'
  OBVIOUS
<1>1. CASE DecoderError
  BY <1>1, EndKeeps DEF DecoderError
<1>2. CASE EndDocument
  <2>1. /\ outcome = "parsing" /\ texts' = {} /\ UNCHANGED <<doc, path, treeVars, stackVars>>
        /\ outcome' = IF None \notin {envelope, header, body} THEN "accepted" ELSE "rejected"
    BY <1>2 DEF EndDocument
  <2>2. /\ outcome' \in {"accepted", "rejected"}
        /\ outcome' = "accepted" => None \notin {envelope, header, body}
    BY <2>1
  <2> QED BY <2>1, <2>2, EndKeeps
<1>3. CASE StartEnvelope \/ StartHeader \/ StartInHeader \/ StartBody \/ StartInBody
  BY <1>3, StartEnvelopeKeeps, StartHeaderKeeps, StartInHeaderKeeps, StartBodyKeeps,
     StartInBodyKeeps
<1>4. CASE StartElsewhere \/ RejectStart \/ CharData \/ EndElement
  BY <1>4, StartElsewhereKeeps, RejectStartKeeps, CharDataKeeps, EndElementKeeps
<1> QED BY <1>1, <1>2, <1>3, <1>4 DEF EnvelopeNext

-----------------------------------------------------------------------------
(* The parser within the exchange: a POST is parsed, decided, and its       *)
(* document dropped.                                                        *)

LEMMA EnvelopeStutter == EnvelopeInv /\ UNCHANGED envelopeVars => EnvelopeInv'
<1> SUFFICES ASSUME EnvelopeInv, UNCHANGED envelopeVars
             PROVE  EnvelopeInv'
  OBVIOUS
<1>1. UNCHANGED <<doc, path, envelope, header, body, built, inHeader, inBody, headerStack,
                  bodyStack, texts, outcome>>
  BY DEF envelopeVars, treeVars, stackVars
<1>2. Ancestors' = Ancestors /\ HeaderOutsideBody' = HeaderOutsideBody
  BY <1>1, SameDocument DEF HeaderOutsideBody
<1>3. EnvelopeTypeOK' /\ AncestorsFit(doc')
  BY <1>1 DEF EnvelopeInv, DocumentFits, EnvelopeTypeOK
<1>4. PathFits' /\ PartsFit' /\ TextsFit'
  BY <1>1, <1>2 DEF EnvelopeInv, DocumentFits, PathFits, PartsFit, TextsFit
<1>5. TreesMirrorDocument'
  <2>1. TreesMirrorDocument
    BY DEF EnvelopeInv, DocumentFits
  <2> QED BY <2>1, <1>1, <1>2 DEF TreesMirrorDocument
<1>6. HeaderFollows' /\ BodyFollows'
  BY <1>1, <1>2 DEF EnvelopeInv, HeaderFollows, BodyFollows, OnPath
<1>7. Structure'
  BY <1>1, <1>2, SameDocument DEF EnvelopeInv, Structure
<1> QED BY <1>3, <1>4, <1>5, <1>6, <1>7 DEF EnvelopeInv, DocumentFits

LEMMA DecideKeeps == ASSUME NEW what, NEW list, NEW v, Decide(what, list, v)
                     PROVE  EnvelopeInv'
<1>1. EnvelopeInit'
  BY DEF Decide, EnvelopeInit
<1>2. EnvelopeInit' => EnvelopeInv'
  BY EnvelopeInitInv, PTL
<1> QED BY <1>1, <1>2

LEMMA IncomingStep == EnvelopeInv /\ IncomingNext => EnvelopeInv'
<1> SUFFICES ASSUME EnvelopeInv, IncomingNext
             PROVE  EnvelopeInv'
  OBVIOUS
<1>1. CASE ParseStep
  BY <1>1, EnvelopeStep DEF ParseStep
<1>2. CASE RefuseDocument
  BY <1>2, DecideKeeps DEF RefuseDocument
<1>3. CASE ReadNoChild
  BY <1>3, DecideKeeps DEF ReadNoChild
<1>4. CASE TakeMessage
  BY <1>4, DecideKeeps DEF TakeMessage
<1>5. CASE TakeInform
  BY <1>5, DecideKeeps DEF TakeInform
<1> QED BY <1>1, <1>2, <1>3, <1>4, <1>5 DEF IncomingNext

\* The steps of a session after the first POST leave the parser alone.
LEMMA SessionLeavesParser ==
  ASSUME ExchangeNext, ~TakePost
  PROVE  UNCHANGED <<envelopeVars, verdict, version>>
<1>1. CASE AnswerWithoutSession \/ ReceiveRequest \/ QueueCall \/ FetchRpc \/ ReceiveResponse
  BY <1>1 DEF AnswerWithoutSession, ReceiveRequest, QueueCall, FetchRpc, ReceiveResponse,
              incomingVars
<1>2. CASE RefuseInform \/ FailInform \/ AcceptInform
  BY <1>2 DEF RefuseInform, FailInform, AcceptInform, ReadInform
<1> QED BY <1>1, <1>2 DEF ExchangeNext

LEMMA ExchangeEnvelopeStep == EnvelopeInv /\ [ExchangeNext]_exchangeVars => EnvelopeInv'
<1> SUFFICES ASSUME EnvelopeInv, [ExchangeNext]_exchangeVars
             PROVE  EnvelopeInv'
  OBVIOUS
<1>1. CASE TakePost
  BY <1>1, IncomingStep DEF TakePost
<1>2. CASE ExchangeNext /\ ~TakePost
  BY <1>2, SessionLeavesParser, EnvelopeStutter
<1>3. CASE UNCHANGED exchangeVars
  BY <1>3, EnvelopeStutter DEF exchangeVars, incomingVars
<1> QED BY <1>1, <1>2, <1>3

\* The invariant holds wherever the parser runs.
LEMMA ParserInvariant == ExchangeSpec => []EnvelopeInv
<1>1. ExchangeInit => EnvelopeInv
  BY EnvelopeInitInv DEF ExchangeInit, IncomingInit
<1> QED BY <1>1, ExchangeEnvelopeStep, PTL DEF ExchangeSpec

\* While a document is parsed, the stack of the Header and that of the Body end
\* as the decoder's path does (headerStack and bodyStack of ParseSOAPEnvelope),
\* unless a Header stands in the Body.
THEOREM StacksFollow == ExchangeSpec => []StacksFollowPath
<1>1. EnvelopeInv => StacksFollowPath
  BY DEF EnvelopeInv, HeaderFollows, BodyFollows, Follows, StacksFollowPath
<1> QED BY <1>1, ParserInvariant, PTL

\* What ParseSOAPEnvelope builds of Header and Body is the document: every
\* element and every text is where the document has it, and nothing else is.
THEOREM TreesMirror == ExchangeSpec => []TreesMirrorDocument
<1>1. EnvelopeInv => TreesMirrorDocument
  BY DEF EnvelopeInv, DocumentFits
<1> QED BY <1>1, ParserInvariant, PTL

LEMMA AcceptedFacts ==
  ASSUME EnvelopeInv, outcome = "accepted"
  PROVE  /\ AcceptedHasStructure
         /\ BodyChildren # {} => \E n \in DOMAIN doc : doc[n].parent = body \/ ~HeaderOutsideBody
<1>0. DOMAIN built = DOMAIN doc
  <2>1. /\ doc \in Seq([name : Names, parent : Elements \cup {None}])
        /\ built \in Seq(Elements \cup {None}) /\ Len(built) = Len(doc)
    BY DEF EnvelopeInv, DocumentFits, EnvelopeTypeOK
  <2> QED BY <2>1
<1>1. None \notin {envelope, header, body}
  BY DEF EnvelopeInv, DocumentFits, PartsFit
<1>2. AcceptedHasStructure
  BY <1>1 DEF EnvelopeInv, Structure, AcceptedHasStructure
<1>3. ASSUME BodyChildren # {}, HeaderOutsideBody
      PROVE  \E n \in DOMAIN doc : doc[n].parent = body
  <2>1. PICK n \in DOMAIN built : built[n] = body
    BY <1>3 DEF BodyChildren
  <2>2. built[n] = IF {header, body} \cap Ancestors[n] # {} THEN doc[n].parent ELSE None
    BY <2>1, <1>3, <1>0 DEF EnvelopeInv, DocumentFits, TreesMirrorDocument
  <2> QED BY <2>1, <2>2, <1>0, <1>1
<1>4. BodyChildren # {} => DOMAIN doc # {}
  BY <1>0 DEF BodyChildren
<1> QED BY <1>2, <1>3, <1>4

\* handleIncomingMessage gets as far as a session only with a document that
\* begins with an Envelope, has one Header, one Body outside it, and an element
\* in the Body.
THEOREM TakenStructured == ExchangeSpec => TakenHasStructure
<1> DEFINE Taken == /\ AcceptedHasStructure /\ outcome = "accepted"
                    /\ \E n \in DOMAIN doc : doc[n].parent = body \/ ~HeaderOutsideBody
           Takes == verdict = "pending" /\ verdict' \in {"Inform", "Message", "BadHeader"}
                    => Taken
<1>1. EnvelopeInv /\ [ExchangeNext]_exchangeVars => [Takes]_incomingVars
  <2> SUFFICES ASSUME EnvelopeInv, [ExchangeNext]_exchangeVars, verdict = "pending",
                      verdict' \in {"Inform", "Message", "BadHeader"}
               PROVE  Taken
    OBVIOUS
  <2>1. TakePost
    <3>1. verdict' # verdict
      OBVIOUS
    <3>2. ~UNCHANGED exchangeVars
      BY <3>1 DEF exchangeVars, incomingVars
    <3> QED BY <3>1, <3>2, SessionLeavesParser
  <2>2. TakeMessage \/ TakeInform
    <3>1. ~ParseStep
      BY DEF ParseStep
    <3>2. ~RefuseDocument
      BY DEF RefuseDocument, Decide
    <3>3. ~ReadNoChild
      BY DEF ReadNoChild, Decide
    <3> QED BY <2>1, <3>1, <3>2, <3>3 DEF TakePost, IncomingNext
  <2>3. outcome = "accepted" /\ BodyChildren # {}
    BY <2>2 DEF TakeMessage, TakeInform
  <2> QED BY <2>3, AcceptedFacts
<1>2. TakenHasStructure <=> [][Takes]_incomingVars
  BY DEF TakenHasStructure
<1> HIDE DEF Takes
<1> QED BY <1>1, <1>2, ParserInvariant, PTL DEF ExchangeSpec

-----------------------------------------------------------------------------
(* The version of a session.                                                *)

\* Induction up to N, as a statement about sets: else the function that sends n
\* to its successor as long as n is in S fits 0 .. N into 1 .. N.
LEMMA SetInduction ==
  ASSUME NEW N \in Nat, NEW S, 0 \in S, \A n \in 0 .. (N - 1) : n \in S => n + 1 \in S
  PROVE  N \in S
<1> SUFFICES ASSUME N \notin S
             PROVE  FALSE
  OBVIOUS
<1> DEFINE D == 0 .. N
           R == 1 .. N
           f == [n \in D |-> IF n \in S THEN n + 1 ELSE n]
<1>1. \A n \in D : /\ n \in S => f[n] = n + 1
                   /\ n \notin S => f[n] = n
  OBVIOUS
<1>2. f \in [D -> R]
  OBVIOUS
<1>3. \A m, n \in D : f[m] = f[n] => m = n
  <2> SUFFICES ASSUME NEW m \in D, NEW n \in D, f[m] = f[n]
               PROVE  m = n
    OBVIOUS
  <2> QED BY <1>1
<1>4. /\ IsFiniteSet(D) /\ Cardinality(D) = N + 1
      /\ IsFiniteSet(R) /\ Cardinality(R) = N
  BY FS_Interval
<1>5. \E m, n \in D : m # n /\ f[m] = f[n]
  <2>1. Cardinality(R) < Cardinality(D)
    BY <1>4
  <2> HIDE DEF D, R, f
  <2> QED BY <2>1, <1>2, <1>4, FS_PigeonHole
<1> QED BY <1>3, <1>5

\* What the loop of MaxCommonVersion knows after n entries of the list.
Highest(list, n, b) ==
    /\ b = [version |-> b.version, major |-> b.major, minor |-> b.minor]
    /\ \/ b = NoneBetter /\ \A i \in 1 .. n : Available(list[i]) = {}
       \/ /\ b.version \in AllVersions
          /\ b.major = 1 /\ b.minor = VersionMinor(b.version)
          /\ \E i \in 1 .. n : list[i] = <<1, VersionMinor(b.version)>>
          /\ \A i \in 1 .. n : \A v \in Available(list[i]) : v <= b.version

\* An entry names one available version at most.
LEMMA AvailableVersion ==
  ASSUME NEW entry \in Entries
  PROVE  /\ Available(entry) \subseteq AllVersions
         /\ \A v \in Available(entry) : /\ Available(entry) = {v}
                                        /\ entry = <<1, VersionMinor(v)>>
         /\ \A v \in AllVersions : entry = <<1, VersionMinor(v)>> => v \in Available(entry)
<1>1. \A v \in AllVersions : <<1, VersionMinor(v)>> \in Int \X Int
  BY DEF AllVersions, VersionMinor, CWMP_V1_0, CWMP_V1_4
<1>2. \A v, w \in AllVersions : <<1, VersionMinor(v)>> = <<1, VersionMinor(w)>> => v = w
  BY DEF AllVersions, VersionMinor, CWMP_V1_0, CWMP_V1_4
<1> QED BY <1>1, <1>2, MalformedAssumption DEF Available, VersionMajor

\* One turn of the loop.
LEMMA BetterHighest ==
  ASSUME NEW list \in Seq(Entries), NEW n \in 0 .. (Len(list) - 1), NEW b, Highest(list, n, b)
  PROVE  Highest(list, n + 1, Better(b, list[n + 1]))
<1> DEFINE entry == list[n + 1]
<1>1. entry \in Entries
  BY ElementOfSeq
<1>1a. 1 .. (n + 1) = (1 .. n) \cup {n + 1}
  OBVIOUS
<1>2. CASE Available(entry) = {}
  <2>1. Better(b, entry) = b
    BY <1>2 DEF Better
  <2> HIDE DEF entry
  <2> QED BY <1>2, <2>1, <1>1a DEF Highest, entry
<1>3. ASSUME NEW v \in Available(entry)
      PROVE  Highest(list, n + 1, Better(b, entry))
  <2> HIDE DEF entry
  <2>1. /\ Available(entry) = {v} /\ entry = <<1, VersionMinor(v)>> /\ v \in AllVersions
        /\ v \in 1 .. 5 /\ VersionMinor(v) = v - 1
    BY <1>1, <1>3, AvailableVersion DEF AllVersions, CWMP_V1_0, CWMP_V1_4, VersionMinor
  <2>2. entry[1] = 1 /\ entry[2] = v - 1 /\ (CHOOSE w \in Available(entry) : TRUE) = v
    BY <2>1
  <2> DEFINE new == [version |-> v, major |-> 1, minor |-> v - 1]
  <2>3. ASSUME Better(b, entry) = new, \A i \in 1 .. n : \A w \in Available(list[i]) : w <= v
        PROVE  Highest(list, n + 1, Better(b, entry))
    <3>1. ASSUME NEW i \in 1 .. (n + 1), NEW w \in Available(list[i])
          PROVE  w <= v
      <4>1. CASE i \in 1 .. n
        BY <2>3, <4>1
      <4>2. CASE i = n + 1
        <5>1. w = v /\ v \in 1 .. 5
          BY <2>1, <4>2 DEF entry
        <5> QED BY <5>1
      <4> QED BY <1>1a, <4>1, <4>2
    <3>2. \E i \in 1 .. (n + 1) : list[i] = <<1, VersionMinor(v)>>
      BY <2>1 DEF entry
    <3> QED BY <2>3, <2>1, <3>1, <3>2 DEF Highest
  <2>4. CASE b = NoneBetter /\ \A i \in 1 .. n : Available(list[i]) = {}
    <3>1. b.major = -1
      BY <2>4 DEF NoneBetter
    <3>2. Better(b, entry) = new
      BY <3>1, <2>1, <2>2 DEF Better
    <3> QED BY <2>3, <2>4, <3>2
  <2>5. CASE /\ b.version \in AllVersions
             /\ b.major = 1 /\ b.minor = VersionMinor(b.version)
             /\ \E i \in 1 .. n : list[i] = <<1, VersionMinor(b.version)>>
             /\ \A i \in 1 .. n : \A w \in Available(list[i]) : w <= b.version
    <3>1. b.version \in 1 .. 5 /\ b.minor = b.version - 1
      BY <2>5 DEF AllVersions, CWMP_V1_0, CWMP_V1_4, VersionMinor
    <3>2. CASE v <= b.version
      <4>1. Better(b, entry) = b
        BY <3>1, <3>2, <2>1, <2>2, <2>5 DEF Better
      <4>2. \A i \in 1 .. (n + 1) : \A w \in Available(list[i]) : w <= b.version
        BY <1>1a, <2>1, <2>5, <3>2 DEF entry
      <4>3. \E i \in 1 .. (n + 1) : list[i] = <<1, VersionMinor(b.version)>>
        BY <1>1a, <2>5
      <4> QED BY <4>1, <4>2, <4>3, <2>5 DEF Highest
    <3>3. CASE b.version < v
      <4>1. Better(b, entry) = new
        BY <3>1, <3>3, <2>1, <2>2, <2>5 DEF Better
      <4>2. \A i \in 1 .. n : \A w \in Available(list[i]) : w <= v
        <5> SUFFICES ASSUME NEW i \in 1 .. n, NEW w \in Available(list[i])
                     PROVE  w <= v
          OBVIOUS
        <5>1. w <= b.version
          BY <2>5
        <5>2. w \in AllVersions
          BY DEF Available
        <5> QED BY <5>1, <5>2, <3>1, <3>3, <2>1 DEF AllVersions, CWMP_V1_0, CWMP_V1_4
      <4> QED BY <4>1, <4>2, <2>3
    <3> QED BY <3>1, <3>2, <3>3, <2>1
  <2> QED BY <2>4, <2>5, Highest(list, n, b) DEF Highest
<1> QED BY <1>2, <1>3

\* The recursive definition in MaxCommonVersion, and that it has a solution.
BestOf(list, N, f) ==
    f = [n \in 0 .. N |-> IF n = 0 THEN NoneBetter ELSE Better(f[n - 1], list[n])]

LEMMA BestExists ==
  ASSUME NEW list \in Seq(Entries)
  PROVE  \E f : BestOf(list, Len(list), f)
<1> DEFINE S == {n \in 0 .. Len(list) : \E f : BestOf(list, n, f)}
<1>1. 0 \in S
  <2>1. BestOf(list, 0, [n \in 0 .. 0 |-> NoneBetter])
    BY DEF BestOf
  <2> QED BY <2>1
<1>2. ASSUME NEW n \in 0 .. (Len(list) - 1), n \in S
      PROVE  n + 1 \in S
  <2>1. PICK f : BestOf(list, n, f)
    BY <1>2
  <2> DEFINE g == [i \in 0 .. (n + 1) |-> IF i = n + 1 THEN Better(f[n], list[n + 1]) ELSE f[i]]
  <2>2. \A i \in 0 .. n : g[i] = f[i] /\ f[i] = IF i = 0 THEN NoneBetter
                                                ELSE Better(f[i - 1], list[i])
    BY <2>1 DEF BestOf
  <2>3. \A i \in 0 .. (n + 1) : g[i] = IF i = 0 THEN NoneBetter ELSE Better(g[i - 1], list[i])
    <3> SUFFICES ASSUME NEW i \in 0 .. (n + 1)
                 PROVE  g[i] = IF i = 0 THEN NoneBetter ELSE Better(g[i - 1], list[i])
      OBVIOUS
    <3>1. CASE i = n + 1
      <4>1. g[i - 1] = f[n] /\ i # 0 /\ g[i] = Better(f[n], list[n + 1])
        BY <2>2, <3>1
      <4> HIDE DEF g
      <4> QED BY <4>1, <3>1
    <3>2. CASE i \in 1 .. n
      <4>1. i - 1 \in 0 .. n
        BY <3>2
      <4>2. g[i - 1] = f[i - 1] /\ g[i] = f[i]
        BY <2>2, <3>2, <4>1
      <4> HIDE DEF g
      <4>3. i \in 0 .. n
        BY <3>2
      <4>4. f[i] = IF i = 0 THEN NoneBetter ELSE Better(f[i - 1], list[i])
        BY <2>2, <4>3, Zenon
      <4> QED BY <4>2, <4>4
    <3>3. CASE i = 0
      <4>1. g[0] = f[0] /\ f[0] = NoneBetter
        BY <2>2
      <4> HIDE DEF g
      <4> QED BY <4>1, <3>3
    <3> QED BY <3>1, <3>2, <3>3
  <2>4. BestOf(list, n + 1, g)
    BY <2>3 DEF BestOf
  <2> QED BY <2>4
<1> HIDE DEF S
<1>3. Len(list) \in S
  BY <1>1, <1>2, SetInduction
<1> QED BY <1>3 DEF S

\* The whole loop.
LEMMA MaxCommonVersionHighest ==
  ASSUME NEW list \in Seq(Entries)
  PROVE  \E b : Highest(list, Len(list), b) /\ MaxCommonVersion(list) = b.version
<1> DEFINE best == CHOOSE best : best = [n \in 0 .. Len(list) |->
                       IF n = 0 THEN NoneBetter ELSE Better(best[n - 1], list[n])]
<1>1. MaxCommonVersion(list) = best[Len(list)].version
  BY DEF MaxCommonVersion
<1>2. BestOf(list, Len(list), best)
  BY BestExists DEF BestOf
<1> HIDE DEF best
<1> DEFINE S == {n \in 0 .. Len(list) : Highest(list, n, best[n])}
<1>3. 0 \in S
  <2>1. best[0] = NoneBetter
    BY <1>2 DEF BestOf
  <2> QED BY <2>1 DEF Highest, NoneBetter
<1>4. ASSUME NEW n \in 0 .. (Len(list) - 1), n \in S
      PROVE  n + 1 \in S
  <2>1. best[n + 1] = Better(best[n], list[n + 1])
    <3>1. n + 1 \in 0 .. Len(list) /\ n + 1 # 0 /\ (n + 1) - 1 = n
      OBVIOUS
    <3> QED BY <3>1, <1>2 DEF BestOf
  <2>2. Highest(list, n + 1, Better(best[n], list[n + 1]))
    BY <1>4, BetterHighest
  <2> QED BY <2>1, <2>2
<1> HIDE DEF S
<1>5. Len(list) \in S
  BY <1>3, <1>4, SetInduction
<1> QED BY <1>5, <1>1 DEF S

\* The version of an Inform with a list is the one the loop found in it.
VersionInv ==
    /\ supported \in VersionLists
    /\ version \in AllVersions \cup {UNKNOWN_CWMP_VERSION}
    /\ verdict \in {"pending", "XmlParsingError", "NoChild", "BadHeader", "Inform", "Message"}
    /\ verdict = "Inform" /\ supported # <<>> => version = MaxCommonVersion(supported)

LEMMA ListVersion ==
  ASSUME NEW list \in VersionLists
  PROVE  /\ list \in Seq(Entries)
         /\ MaxCommonVersion(list) \in AllVersions \cup {UNKNOWN_CWMP_VERSION}
<1>1. list \in Seq(Entries)
  BY VersionListsAssumption
<1>2. PICK b : Highest(list, Len(list), b) /\ MaxCommonVersion(list) = b.version
  BY <1>1, MaxCommonVersionHighest
<1> QED BY <1>1, <1>2 DEF Highest, NoneBetter

LEMMA DeterminedVersion ==
  ASSUME NEW list \in VersionLists, NEW url \in CwmpUrls, NEW hasSessionTimeout \in BOOLEAN
  PROVE  determineCwmpVersion(list, url, hasSessionTimeout)
            \in AllVersions \cup {UNKNOWN_CWMP_VERSION}
<1>1. CASE list # <<>>
  BY <1>1, ListVersion DEF determineCwmpVersion
<1>2. CASE list = <<>>
  <2>1. {CWMP_V1_0, CWMP_V1_1, CWMP_V1_2, CWMP_V1_3} \subseteq AllVersions
    BY DEF CWMP_V1_0, CWMP_V1_1, CWMP_V1_2, CWMP_V1_3, CWMP_V1_4, AllVersions
  <2>2. CASE url = "CWMP_1_0"
    BY <1>2, <2>1, <2>2 DEF determineCwmpVersion
  <2>3. CASE url = "CWMP_1_1"
    BY <1>2, <2>1, <2>3 DEF determineCwmpVersion
  <2>4. CASE url = "CWMP_1_2"
    BY <1>2, <2>1, <2>4 DEF determineCwmpVersion
  <2> QED BY <2>2, <2>3, <2>4 DEF CwmpUrls
<1> QED BY <1>1, <1>2

LEMMA DecideVersion ==
  ASSUME VersionInv,
         NEW what \in {"XmlParsingError", "NoChild", "BadHeader", "Inform", "Message"},
         NEW list \in VersionLists, NEW v \in AllVersions \cup {UNKNOWN_CWMP_VERSION},
         what = "Inform" /\ list # <<>> => v = MaxCommonVersion(list),
         Decide(what, list, v)
  PROVE  VersionInv'
BY DEF VersionInv, Decide

LEMMA VersionStep == VersionInv /\ [ExchangeNext]_exchangeVars => VersionInv'
<1> SUFFICES ASSUME VersionInv, [ExchangeNext]_exchangeVars
             PROVE  VersionInv'
  OBVIOUS
<1>0. <<>> \in VersionLists
  BY VersionListsAssumption
<1>1. CASE TakePost
  <2>1. CASE ParseStep
    BY <2>1 DEF ParseStep, VersionInv
  <2>2. CASE RefuseDocument
    BY <2>2, <1>0, DecideVersion DEF RefuseDocument
  <2>3. CASE ReadNoChild
    BY <2>3, <1>0, DecideVersion DEF ReadNoChild
  <2>4. CASE TakeMessage
    <3>1. PICK what \in {"Message", "BadHeader"} : Decide(what, <<>>, UNKNOWN_CWMP_VERSION)
      BY <2>4 DEF TakeMessage
    <3> QED BY <3>1, <1>0, DecideVersion
  <2>5. CASE TakeInform
    <3>1. PICK list \in VersionLists, url \in CwmpUrls, hasSessionTimeout \in BOOLEAN :
             Decide("Inform", list, determineCwmpVersion(list, url, hasSessionTimeout))
      BY <2>5 DEF TakeInform, BuildNamespaceMap
    <3>2. list # <<>> => determineCwmpVersion(list, url, hasSessionTimeout)
                            = MaxCommonVersion(list)
      BY DEF determineCwmpVersion
    <3> QED BY <3>1, <3>2, DeterminedVersion, DecideVersion
  <2> QED BY <1>1, <2>1, <2>2, <2>3, <2>4, <2>5 DEF TakePost, IncomingNext
<1>2. CASE RefuseInform \/ FailInform \/ AcceptInform
  BY <1>0, <1>2 DEF RefuseInform, FailInform, AcceptInform, ReadInform, VersionInv
<1>3. CASE AnswerWithoutSession \/ ReceiveRequest \/ QueueCall \/ FetchRpc \/ ReceiveResponse
  BY <1>3 DEF AnswerWithoutSession, ReceiveRequest, QueueCall, FetchRpc, ReceiveResponse,
              incomingVars, VersionInv
<1>4. CASE UNCHANGED exchangeVars
  BY <1>4 DEF exchangeVars, incomingVars, VersionInv
<1> QED BY <1>1, <1>2, <1>3, <1>4 DEF ExchangeNext

LEMMA VersionInvariant == ExchangeSpec => []VersionInv
<1>1. ExchangeInit => VersionInv
  BY VersionListsAssumption DEF ExchangeInit, IncomingInit, VersionInv
<1> QED BY <1>1, VersionStep, PTL DEF ExchangeSpec

\* Whatever the CPE lists and in whatever order, the session gets the highest
\* version that is both in the list and available (determineCwmpVersion).
THEOREM HighestVersion == ExchangeSpec => []HighestCommonVersion
<1>1. VersionInv => HighestCommonVersion
  <2> SUFFICES ASSUME VersionInv, verdict = "Inform", supported # <<>>
               PROVE  HighestCommonVersion
    BY DEF HighestCommonVersion
  <2> DEFINE common == {v \in AllVersions :
                           \E i \in DOMAIN supported : supported[i] = <<1, VersionMinor(v)>>}
  <2>1. supported \in Seq(Entries) /\ version = MaxCommonVersion(supported)
    BY ListVersion DEF VersionInv
  <2>2. PICK b : Highest(supported, Len(supported), b) /\ version = b.version
    BY <2>1, MaxCommonVersionHighest
  <2>3. DOMAIN supported = 1 .. Len(supported) /\ Len(supported) \in Nat
        /\ \A i \in DOMAIN supported : supported[i] \in Entries
    BY <2>1
  <2>4. \A v \in common : \E i \in 1 .. Len(supported) : v \in Available(supported[i])
    BY <2>3, AvailableVersion
  <2>5. CASE /\ b = NoneBetter
             /\ \A i \in 1 .. Len(supported) : Available(supported[i]) = {}
    <3>1. common = {}
      BY <2>4, <2>5
    <3>2. version = UNKNOWN_CWMP_VERSION
      BY <2>2, <2>5 DEF NoneBetter
    <3> QED BY <3>1, <3>2 DEF HighestCommonVersion
  <2>6. CASE /\ b.version \in AllVersions
             /\ \E i \in 1 .. Len(supported) : supported[i] = <<1, VersionMinor(b.version)>>
             /\ \A i \in 1 .. Len(supported) : \A v \in Available(supported[i]) : v <= b.version
    <3>1. version \in common
      BY <2>2, <2>3, <2>6
    <3>2. \A v \in common : v <= version
      BY <2>2, <2>4, <2>6
    <3> QED BY <3>1, <3>2 DEF HighestCommonVersion
  <2> QED BY <2>2, <2>5, <2>6 DEF Highest
<1> QED BY <1>1, VersionInvariant, PTL

-----------------------------------------------------------------------------
(* Loops of the parsers.                                                    *)

\* Lists, and functions as long as one.
LEMMA ListFacts ==
  ASSUME NEW list, IsList(list)
  PROVE  DOMAIN list = 1 .. Len(list) /\ Len(list) \in Nat
BY DEF IsList

LEMMA EachLen ==
  ASSUME NEW list, IsList(list), NEW f, DOMAIN f = DOMAIN list, f = [i \in DOMAIN list |-> f[i]]
  PROVE  Len(f) = Len(list)
<1>1. DOMAIN list = 1 .. Len(list) /\ Len(list) \in Nat
  BY DEF IsList
<1>2. f \in Seq({f[i] : i \in DOMAIN list})
  BY <1>1
<1> QED BY <1>1, <1>2

\* There is a last one in a set of positions.
LEMMA LastExists ==
  ASSUME NEW n \in Nat, NEW at, at \subseteq 1 .. n, at # {}
  PROVE  \E i \in at : \A j \in at : j <= i
<1> DEFINE below(m) == {i \in at : i <= m}
           S == {m \in 0 .. n : below(m) # {} => \E i \in below(m) : \A j \in below(m) : j <= i}
<1>0. \A i \in at : i \in Nat /\ 1 <= i /\ i <= n
  OBVIOUS
<1>1. 0 \in S
  <2>1. \A i \in at : ~(i <= 0)
    BY <1>0
  <2>2. below(0) = {}
    BY <2>1
  <2> QED BY <2>2
<1>2. ASSUME NEW m \in 0 .. (n - 1), m \in S
      PROVE  m + 1 \in S
  <2>1. CASE m + 1 \in at
    <3>1. m + 1 \in below(m + 1) /\ \A j \in below(m + 1) : j <= m + 1
      BY <2>1
    <3> QED BY <3>1
  <2>2. CASE m + 1 \notin at
    <3>1. \A i \in at : i <= m + 1 <=> i <= m
      BY <1>0, <2>2
    <3>2. below(m + 1) = below(m)
      BY <3>1
    <3> QED BY <3>2, <1>2
  <2> QED BY <2>1, <2>2
<1>3. n \in S
  <2> HIDE DEF S
  <2> QED BY <1>1, <1>2, SetInduction
<1>4. below(n) = at
  BY <1>0
<1> QED BY <1>3, <1>4

\* A loop leaves the last value it found.
LEMMA LastFoundIs ==
  ASSUME NEW n \in Nat, NEW sets, DOMAIN sets = 1 .. n
  PROVE  \/ LastFound(sets) = {} /\ \A i \in 1 .. n : sets[i] = {}
         \/ \E i \in 1 .. n : /\ sets[i] # {} /\ LastFound(sets) = sets[i]
                              /\ \A j \in 1 .. n : j > i => sets[j] = {}
<1> DEFINE at == {i \in DOMAIN sets : sets[i] # {}}
           last == CHOOSE i \in at : \A j \in at : j <= i
<1>1. CASE at = {}
  BY <1>1 DEF LastFound
<1>2. CASE at # {}
  <2>1. \E i \in at : \A j \in at : j <= i
    BY <1>2, LastExists
  <2>2. last \in at /\ \A j \in at : j <= last
    BY <2>1
  <2>3. LastFound(sets) = sets[last]
    BY <1>2 DEF LastFound
  <2> HIDE DEF last
  <2>4. \A j \in 1 .. n : j > last => sets[j] = {}
    <3> SUFFICES ASSUME NEW j \in 1 .. n, j > last, sets[j] # {}
                 PROVE  FALSE
      OBVIOUS
    <3>1. j \in at
      OBVIOUS
    <3> QED BY <3>1, <2>2
  <2> QED BY <2>2, <2>3, <2>4
<1> QED BY <1>1, <1>2

\* The value of what was found, or the zero value.
LEMMA ValueOrOne == \A value, zero : ValueOr({value}, zero) = value /\ ValueOr({}, zero) = zero
BY DEF ValueOr

\* Of the children of a name that were parsed, the last counts, or there are none.
LastOfName(kids, name, parsed, value, zero) ==
    \/ value = zero /\ \A i \in DOMAIN kids : kids[i].name # name
    \/ \E i \in DOMAIN kids : /\ kids[i].name = name /\ value = parsed[i]
                              /\ \A j \in DOMAIN kids : j > i => kids[j].name # name

\* A loop that parses the children of a name leaves what the last one gave.
LEMMA OneParsed ==
  ASSUME NEW kids, IsList(kids), NEW name, NEW parsed, NEW zero,
         NEW sets, DOMAIN sets = DOMAIN kids,
         \A i \in DOMAIN kids : sets[i] = IF kids[i].name = name THEN {parsed[i]} ELSE {}
  PROVE  LastOfName(kids, name, parsed, ValueOr(LastFound(sets), zero), zero)
<1> DEFINE value == ValueOr(LastFound(sets), zero)
<1>1. DOMAIN kids = 1 .. Len(kids) /\ Len(kids) \in Nat
  BY ListFacts
<1>2. CASE LastFound(sets) = {} /\ \A i \in 1 .. Len(kids) : sets[i] = {}
  <2>1. value = zero
    BY <1>2, ValueOrOne
  <2>2. \A i \in DOMAIN kids : kids[i].name # name
    BY <1>1, <1>2
  <2> QED BY <2>1, <2>2 DEF LastOfName
<1>3. CASE \E i \in 1 .. Len(kids) : /\ sets[i] # {} /\ LastFound(sets) = sets[i]
                                     /\ \A j \in 1 .. Len(kids) : j > i => sets[j] = {}
  <2>1. PICK i \in 1 .. Len(kids) : /\ sets[i] # {} /\ LastFound(sets) = sets[i]
                                    /\ \A j \in 1 .. Len(kids) : j > i => sets[j] = {}
    BY <1>3
  <2>2. kids[i].name = name /\ sets[i] = {parsed[i]}
    BY <1>1, <2>1
  <2>3. value = parsed[i]
    BY <2>1, <2>2, ValueOrOne
  <2>4. \A j \in DOMAIN kids : j > i => kids[j].name # name
    BY <1>1, <2>1
  <2>5. LastOfName(kids, name, parsed, value, zero)
    <3> HIDE DEF value
    <3> QED BY <1>1, <2>2, <2>3, <2>4 DEF LastOfName
  <2> QED BY <2>5
<1> QED BY <1>1, <1>2, <1>3, LastFoundIs

\* What short loops leave.
LEMMA ShortLoops ==
  ASSUME NEW sets, NEW n \in 1 .. 3, DOMAIN sets = 1 .. n
  PROVE  /\ n = 1 => LastFound(sets) = sets[1]
         /\ n = 2 => LastFound(sets) = IF sets[2] # {} THEN sets[2] ELSE sets[1]
         /\ n = 3 => LastFound(sets) = IF sets[3] # {} THEN sets[3]
                                      ELSE IF sets[2] # {} THEN sets[2] ELSE sets[1]
<1>0. n \in Nat
  OBVIOUS
<1>1. CASE LastFound(sets) = {} /\ \A i \in 1 .. n : sets[i] = {}
  BY <1>1
<1>2. CASE \E i \in 1 .. n : /\ sets[i] # {} /\ LastFound(sets) = sets[i]
                             /\ \A j \in 1 .. n : j > i => sets[j] = {}
  BY <1>2
<1> QED BY <1>0, <1>1, <1>2, LastFoundIs

LEMMA LoopOfOne ==
  ASSUME NEW sets, DOMAIN sets = 1 .. 1
  PROVE  LastFound(sets) = sets[1]
<1>1. PICK n \in 1 .. 3 : n = 1
  OBVIOUS
<1> QED BY <1>1, ShortLoops

LEMMA LoopOfTwo ==
  ASSUME NEW sets, DOMAIN sets = 1 .. 2
  PROVE  LastFound(sets) = IF sets[2] # {} THEN sets[2] ELSE sets[1]
<1>1. PICK n \in 1 .. 3 : n = 2
  OBVIOUS
<1> QED BY <1>1, ShortLoops

LEMMA LoopOfThree ==
  ASSUME NEW sets, DOMAIN sets = 1 .. 3
  PROVE  LastFound(sets) = IF sets[3] # {} THEN sets[3]
                           ELSE IF sets[2] # {} THEN sets[2] ELSE sets[1]
<1>1. PICK n \in 1 .. 3 : n = 3
  OBVIOUS
<1> QED BY <1>1, ShortLoops

-----------------------------------------------------------------------------
(* The device. *)

\* While a session has its Inform and nothing else, the row is that of the Inform.
DeviceInv ==
    /\ stage \in {"incoming", "informed", "queued", "sent", "refused", "settled", "closed"}
    /\ IF stage = "informed"
       THEN /\ incoming.kids \in InformContents
            /\ ParsedInform(incoming.kids).error = "none"
            /\ device = DeviceRow(ParsedInform(incoming.kids).fields)
       ELSE device = NoDevice

LEMMA DeviceStep == DeviceInv /\ [ExchangeNext]_exchangeVars => DeviceInv'
<1> SUFFICES ASSUME DeviceInv, [ExchangeNext]_exchangeVars
             PROVE  DeviceInv'
  OBVIOUS
<1>1. CASE TakePost
  BY <1>1 DEF TakePost, sessionVars, DeviceInv
<1>2. CASE AnswerWithoutSession
  BY <1>2 DEF AnswerWithoutSession, DeviceInv
<1>3. CASE RefuseInform \/ FailInform
  BY <1>3 DEF RefuseInform, FailInform, ReadInform, DeviceInv
<1>4. CASE AcceptInform
  <2>1. PICK kids \in InformContents :
           /\ ReadInform(kids, "informed")
           /\ ParsedInform(kids).error = "none"
           /\ device' = DeviceRow(ParsedInform(kids).fields)
    BY <1>4 DEF AcceptInform
  <2>2. incoming'.kids = kids /\ version' = version /\ stage' = "informed"
    BY <2>1 DEF ReadInform
  <2>3. ParsedInform(kids)' = ParsedInform(kids)
    BY <2>2 DEF ParsedInform
  <2> QED BY <2>1, <2>2, <2>3 DEF DeviceInv
<1>5. CASE ReceiveRequest \/ UNCHANGED exchangeVars
  <2>1. UNCHANGED <<stage, incoming, device, version>>
    BY <1>5 DEF ReceiveRequest, incomingVars, exchangeVars, sessionVars
  <2> QED BY <2>1 DEF DeviceInv, ParsedInform
<1>6. CASE QueueCall \/ FetchRpc \/ ReceiveResponse
  BY <1>6 DEF QueueCall, FetchRpc, ReceiveResponse, DeviceInv
<1> QED BY <1>1, <1>2, <1>3, <1>4, <1>5, <1>6 DEF ExchangeNext

LEMMA DeviceInvariant == ExchangeSpec => []DeviceInv
<1>1. ExchangeInit => DeviceInv
  BY DEF ExchangeInit, DeviceInv
<1> QED BY <1>1, DeviceStep, PTL DEF ExchangeSpec

\* A DeviceId that was found is that of one child.
LEMMA DeviceIdParsed ==
  ASSUME NEW elem, IsList(elem.kids), LastDeviceId(elem).ok,
         LastDeviceId(elem).id # NoDeviceId
  PROVE  \E kid : LastDeviceId(elem) = parseDeviceId(kid)
<1> DEFINE none == [ok |-> TRUE, id |-> NoDeviceId]
           sets == Each(elem.kids, LAMBDA kid : IF kid.name = "DeviceId"
                                   THEN {parseDeviceId(kid)} ELSE {})
           ids == [i \in DOMAIN elem.kids |-> parseDeviceId(elem.kids[i])]
           allOk == EachIs(elem.kids, LAMBDA kid : kid.name = "DeviceId" => parseDeviceId(kid).ok)
<1>1. LastDeviceId(elem) = IF allOk THEN ValueOr(LastFound(sets), none) ELSE BadList
  BY DEF LastDeviceId, LastParsed, FoundIn
<1>2. /\ DOMAIN sets = DOMAIN elem.kids
      /\ \A i \in DOMAIN elem.kids :
            sets[i] = IF elem.kids[i].name = "DeviceId" THEN {ids[i]} ELSE {}
  BY DEF Each
<1>3. none.id = NoDeviceId
  OBVIOUS
<1>4. \A i \in DOMAIN elem.kids : ids[i] = parseDeviceId(elem.kids[i])
  OBVIOUS
<1> HIDE DEF sets, ids, none, allOk
<1>5. LastOfName(elem.kids, "DeviceId", ids, ValueOr(LastFound(sets), none), none)
  BY <1>2, OneParsed
<1>6. LastDeviceId(elem) = ValueOr(LastFound(sets), none)
  BY <1>1 DEF BadList
<1> QED BY <1>3, <1>4, <1>5, <1>6 DEF LastOfName

\* An Inform that parses has a DeviceId with all fields but the ProductClass.
LEMMA ParsedDeviceId ==
  ASSUME NEW kids \in InformContents, ParsedInform(kids).error = "none"
  PROVE  LET id == ParsedInform(kids).fields.DeviceId
         IN  id \in DeviceIdStruct /\ id.OUI # <<>> /\ id.SerialNumber # <<>>
<1> DEFINE elem == Tree("Inform", kids)
           parsed == LastDeviceId(elem)
<1>1. ParsedInform(kids) = ParseInform(elem)
  BY DEF ParsedInform, parseCwmpMessageViaMap, Parse, defaultCwmpMessageParsers,
         CwmpMessageParsers
<1>2. /\ parsed.ok
      /\ parsed.id.Manufacturer # ""
      /\ ParsedInform(kids).fields.DeviceId = parsed.id
  <2> DEFINE events == ListsOf(elem, "Event", parseEventList)
             parameters == ListsOf(elem, "ParameterList", parseParameterValueStructList)
             inform == [DeviceId |-> parsed.id, Events |-> events.items,
                        Parameters |-> parameters.items]
             valid == /\ parsed.ok /\ events.ok /\ parameters.ok
                      /\ AllInts(elem, {"MaxEnvelopes", "RetryCount"})
                      /\ isValidInform(inform)
  <2>1. ParseInform(elem) = IF valid THEN Message("Inform", inform) ELSE Invalid
    BY DEF ParseInform
  <2>2. isValidInform(inform) => parsed.id.Manufacturer # ""
    BY DEF isValidInform
  <2>3. valid => parsed.ok /\ isValidInform(inform)
    OBVIOUS
  <2>4. inform.DeviceId = parsed.id
    OBVIOUS
  <2> HIDE DEF valid, inform, parsed, elem
  <2>5. valid
    BY <1>1, <2>1 DEF Invalid
  <2>6. ParsedInform(kids).fields = inform
    BY <1>1, <2>1, <2>5 DEF Message
  <2> QED BY <2>2, <2>3, <2>4, <2>5, <2>6
<1>3. parsed.id \in DeviceIdStruct
  BY <1>2, DeviceIdsAssumption
<1>4. \E kid : parsed = parseDeviceId(kid)
  <2>1. elem.kids = kids /\ IsList(kids)
    BY DeviceIdsAssumption DEF Tree, AreElements
  <2>2. NoDeviceId.Manufacturer = ""
    BY DEF NoDeviceId
  <2>3. parsed.id # NoDeviceId
    <3> HIDE DEF parsed
    <3> QED BY <1>2, <2>2
  <2> HIDE DEF elem
  <2> QED BY <1>2, <2>1, <2>3, DeviceIdParsed
<1>5. PICK kid : parsed = parseDeviceId(kid)
  BY <1>4
<1>6. parsed.id.OUI # <<>> /\ parsed.id.SerialNumber # <<>>
  <2> HIDE DEF parsed
  <2> QED BY <1>2, <1>5 DEF parseDeviceId, BadList
<1> QED BY <1>2, <1>3, <1>6

\* What is known of the parts joined from their string t.
Joined(t, o, p, s) ==
    /\ Len(t) = 2 + Len(p)
    /\ t[1] = o[1] /\ t[2 + Len(p)] = s[1]
    /\ Len(p) = 1 => t[2] = p[1]

LEMMA JoinedParts ==
  ASSUME NEW S, NEW o \in Seq(S), NEW p \in Seq(S), NEW s \in Seq(S), Len(o) = 1, Len(s) = 1
  PROVE  Joined(o \o p \o s, o, p, s)
<1> DEFINE q == o \o p
<1>0. Len(p) \in Nat
  OBVIOUS
<1>1. /\ q \in Seq(S) /\ Len(q) = Len(o) + Len(p)
      /\ \A i \in 1 .. Len(o) + Len(p) : q[i] = IF i <= Len(o) THEN o[i] ELSE p[i - Len(o)]
  BY ConcatProperties
<1>2. Len(q) = 1 + Len(p)
  BY <1>1
<1>3. q[1] = o[1] /\ (Len(p) = 1 => q[2] = p[1])
  <2>1. \A i \in 1 .. 1 + Len(p) : q[i] = IF i <= 1 THEN o[i] ELSE p[i - 1]
    BY <1>1
  <2> HIDE DEF q
  <2> QED BY <1>0, <2>1
<1> HIDE DEF q
<1>4. /\ Len(q \o s) = Len(q) + Len(s)
      /\ \A i \in 1 .. Len(q) + Len(s) : (q \o s)[i] = IF i <= Len(q) THEN q[i] ELSE s[i - Len(q)]
  <2>1. q \in Seq(S)
    BY <1>1
  <2> QED BY <2>1, ConcatProperties
<1> DEFINE t == q \o s
<1>5. /\ Len(t) = 2 + Len(p)
      /\ \A i \in 1 .. 2 + Len(p) : t[i] = IF i <= 1 + Len(p) THEN q[i] ELSE s[i - (1 + Len(p))]
  <2>1. Len(q) + Len(s) = 2 + Len(p)
    BY <1>0, <1>2
  <2> QED BY <1>4, <2>1, <1>2
<1> HIDE DEF t
<1>6. t[1] = q[1] /\ t[2 + Len(p)] = s[1] /\ (Len(p) = 1 => t[2] = q[2])
  <2>1. t[1] = q[1] /\ (Len(p) = 1 => t[2] = q[2])
    <3>1. 1 \in 1 .. 2 + Len(p) /\ 1 <= 1 + Len(p)
      BY <1>0
    <3>2. t[1] = q[1]
      BY <1>5, <3>1
    <3>3. ASSUME Len(p) = 1
          PROVE  t[2] = q[2]
      <4>1. 2 \in 1 .. 2 + Len(p) /\ 2 <= 1 + Len(p)
        BY <3>3
      <4> QED BY <1>5, <4>1
    <3> QED BY <3>2, <3>3
  <2>2. /\ 2 + Len(p) \in 1 .. 2 + Len(p)
        /\ ~(2 + Len(p) <= 1 + Len(p))
        /\ 2 + Len(p) - (1 + Len(p)) = 1
    BY <1>0
  <2> QED BY <2>1, <2>2, <1>5
<1>7. Joined(t, o, p, s)
  BY <1>3, <1>5, <1>6 DEF Joined
<1> QED BY <1>7 DEF t, q

\* Short sequences are the same if their first items are.
LEMMA SameShort ==
  ASSUME NEW S, NEW s \in Seq(S), NEW t \in Seq(S), Len(s) = Len(t), Len(s) <= 1,
         Len(s) = 1 => s[1] = t[1]
  PROVE  s = t
<1>1. DOMAIN s = 1 .. Len(s) /\ DOMAIN t = 1 .. Len(s) /\ Len(s) \in Nat
  OBVIOUS
<1>2. \A i \in DOMAIN s : i = 1 /\ Len(s) = 1
  BY <1>1
<1>3. \A i \in DOMAIN s : s[i] = t[i]
  BY <1>2
<1> QED BY <1>1, <1>3

\* The strings of two ids without hyphens are the same only if the fields are.
LEMMA SameString ==
  ASSUME NEW id \in DeviceIdStruct, NEW other \in DeviceIdStruct,
         HyphenFree(id), HyphenFree(other),
         generateDeviceIdString(other) = generateDeviceIdString(id)
  PROVE  [other EXCEPT !.Manufacturer = ""] = [id EXCEPT !.Manufacturer = ""]
<1> DEFINE t == generateDeviceIdString(id)
<1>1. ASSUME NEW d \in DeviceIdStruct, HyphenFree(d)
      PROVE  /\ d.OUI \in Seq(STRING) /\ d.ProductClass \in Seq(STRING)
             /\ d.SerialNumber \in Seq(STRING)
             /\ Len(d.OUI) = 1 /\ Len(d.ProductClass) <= 1 /\ Len(d.SerialNumber) = 1
             /\ Len(d.ProductClass) \in Nat
             /\ Joined(generateDeviceIdString(d), d.OUI, d.ProductClass, d.SerialNumber)
  <2>1. /\ d.OUI \in Seq(STRING) /\ d.ProductClass \in Seq(STRING)
        /\ d.SerialNumber \in Seq(STRING)
    BY DEF DeviceIdStruct
  <2>2. Len(d.OUI) = 1 /\ Len(d.ProductClass) <= 1 /\ Len(d.SerialNumber) = 1
    BY <1>1 DEF HyphenFree
  <2>3. Joined(d.OUI \o d.ProductClass \o d.SerialNumber, d.OUI, d.ProductClass, d.SerialNumber)
    BY <2>1, <2>2, JoinedParts
  <2> QED BY <2>1, <2>2, <2>3 DEF generateDeviceIdString
<1>2. Joined(t, other.OUI, other.ProductClass, other.SerialNumber)
  BY <1>1
<1>3. Joined(t, id.OUI, id.ProductClass, id.SerialNumber)
  BY <1>1
<1> HIDE DEF t
<1>4. Len(id.ProductClass) = Len(other.ProductClass)
  <2>1. 2 + Len(id.ProductClass) = 2 + Len(other.ProductClass)
    BY <1>2, <1>3 DEF Joined
  <2>2. Len(id.ProductClass) \in Nat /\ Len(other.ProductClass) \in Nat
    BY <1>1
  <2> QED BY <2>1, <2>2
<1>5. id.OUI[1] = other.OUI[1] /\ id.SerialNumber[1] = other.SerialNumber[1]
      /\ (Len(id.ProductClass) = 1 => id.ProductClass[1] = other.ProductClass[1])
  BY <1>2, <1>3, <1>4 DEF Joined
<1>6. id.OUI = other.OUI
  BY <1>1, <1>5, SameShort
<1>7. id.SerialNumber = other.SerialNumber
  BY <1>1, <1>5, SameShort
<1>8. id.ProductClass = other.ProductClass
  BY <1>1, <1>4, <1>5, SameShort
<1> QED BY <1>6, <1>7, <1>8 DEF DeviceIdStruct

\* Two CPEs whose ids have no hyphen in a field share a row only if the ids differ
\* in the manufacturer alone (generateDeviceIdString).
THEOREM IdsDistinct == ExchangeSpec => []DeviceIdsDistinct
<1>1. DeviceInv => DeviceIdsDistinct
  <2> DEFINE id == ParsedInform(incoming.kids).fields.DeviceId
  <2> SUFFICES ASSUME DeviceInv, stage = "informed", HyphenFree(id),
                      NEW other \in DeviceIds, HyphenFree(other),
                      generateDeviceIdString(other) = device.device_id
               PROVE  [other EXCEPT !.Manufacturer = ""] = [id EXCEPT !.Manufacturer = ""]
    BY DEF DeviceIdsDistinct
  <2>1. id \in DeviceIdStruct
    BY ParsedDeviceId DEF DeviceInv
  <2>2. device.device_id = generateDeviceIdString(id)
    BY DEF DeviceInv, DeviceRow
  <2>3. other \in DeviceIdStruct
    BY DeviceIdsAssumption
  <2> HIDE DEF id
  <2> QED BY <2>1, <2>2, <2>3, SameString
<1> QED BY <1>1, DeviceInvariant, PTL

\* The parameters of an Inform, parsed.
ParametersOf(elem) == ListsOf(elem, "ParameterList", parseParameterValueStructList)

\* The list of parameters of an Inform that has any: that of one ParameterList,
\* with all its items.
LEMMA ParametersParsed ==
  ASSUME NEW elem, IsList(elem.kids),
         ParametersOf(elem).ok, ParametersOf(elem).items # <<>>
  PROVE  \E i \in DOMAIN elem.kids :
            LET items == ParametersOf(elem).items
                kids == elem.kids[i].kids
            IN  /\ DOMAIN items = DOMAIN kids
                /\ \A j \in DOMAIN kids :
                      /\ kids[j].name = "ParameterValueStruct"
                      /\ items[j].Name = LastText(kids[j], "Name", NoName)
                      /\ items[j].Value = LastText(kids[j], "Value", "")
<1> DEFINE none == [ok |-> TRUE, items |-> <<>>]
           sets == Each(elem.kids, LAMBDA kid : IF kid.name = "ParameterList"
                                   THEN {parseParameterValueStructList(kid)} ELSE {})
           lists == [i \in DOMAIN elem.kids |-> parseParameterValueStructList(elem.kids[i])]
           allOk == EachIs(elem.kids, LAMBDA kid :
                        kid.name = "ParameterList" => parseParameterValueStructList(kid).ok)
           list == ParametersOf(elem)
<1>1. list = IF allOk THEN ValueOr(LastFound(sets), none) ELSE BadList
  BY DEF ParametersOf, ListsOf, LastParsed, FoundIn
<1>2. /\ DOMAIN sets = DOMAIN elem.kids
      /\ \A i \in DOMAIN elem.kids :
            sets[i] = IF elem.kids[i].name = "ParameterList" THEN {lists[i]} ELSE {}
  BY DEF Each
<1>3. none.items = <<>>
  OBVIOUS
<1>4. \A i \in DOMAIN elem.kids : lists[i] = parseParameterValueStructList(elem.kids[i])
  OBVIOUS
<1>5. list.ok /\ list.items # <<>>
  OBVIOUS
<1> HIDE DEF sets, lists, none, allOk, list
<1>6. LastOfName(elem.kids, "ParameterList", lists, ValueOr(LastFound(sets), none), none)
  BY <1>2, OneParsed
<1>7. list = ValueOr(LastFound(sets), none)
  BY <1>1, <1>5 DEF BadList
<1>8. PICK i \in DOMAIN elem.kids : list = parseParameterValueStructList(elem.kids[i])
  BY <1>3, <1>4, <1>5, <1>6, <1>7 DEF LastOfName
<1> DEFINE kids == elem.kids[i].kids
           items == Each(kids, LAMBDA kid : [Name |-> LastText(kid, "Name", NoName),
                                             Value |-> LastText(kid, "Value", "")])
           only == OnlyKids(elem.kids[i], {"ParameterValueStruct"})
<1>9. only /\ list.items = items
  <2> DEFINE valid == EachIs(kids, LAMBDA kid : OnlyKids(kid, {"Name", "Value"}))
             fits == /\ elem.kids[i].array.of = "ParameterValueStruct"
                     /\ only /\ valid /\ Len(items) = elem.kids[i].array.count
  <2>1. list = IF fits THEN [ok |-> TRUE, items |-> items] ELSE BadList
    BY <1>8 DEF parseParameterValueStructList, ParseList
  <2>2. fits => only
    OBVIOUS
  <2> HIDE DEF fits, items, only
  <2> QED BY <2>1, <2>2, <1>5 DEF BadList
<1>10. /\ DOMAIN items = DOMAIN kids
       /\ \A j \in DOMAIN kids : /\ items[j].Name = LastText(kids[j], "Name", NoName)
                                 /\ items[j].Value = LastText(kids[j], "Value", "")
  BY DEF Each
<1>11. \A j \in DOMAIN kids : kids[j].name = "ParameterValueStruct"
  BY <1>9 DEF OnlyKids, EachIs
<1> HIDE DEF items
<1>12. /\ DOMAIN list.items = DOMAIN kids
       /\ \A j \in DOMAIN kids : /\ kids[j].name = "ParameterValueStruct"
                                 /\ list.items[j].Name = LastText(kids[j], "Name", NoName)
                                 /\ list.items[j].Value = LastText(kids[j], "Value", "")
  BY <1>9, <1>10, <1>11
<1> QED BY <1>12 DEF list

\* What processInformRequest takes from the parameters of an Inform: the value of
\* one with this end, if one has it and every name a root.
LEMMA ValueTaken ==
  ASSUME NEW inform, NEW n \in Nat, DOMAIN inform.Parameters = 1 .. n,
         \A i \in 1 .. n : Rooted(inform.Parameters[i].Name),
         NEW suffix, NEW k \in 1 .. n, HasSuffix(inform.Parameters[k].Name, suffix)
  PROVE  \E i \in 1 .. n : /\ HasSuffix(inform.Parameters[i].Name, suffix)
                           /\ InformValue(inform, suffix) = inform.Parameters[i].Value
<1> DEFINE params == inform.Parameters
           sets == Each(params, LAMBDA param :
                       IF HasDotSuffix(param.Name, suffix) THEN {param.Value} ELSE {})
<1>1. InformValue(inform, suffix) = ValueOr(LastFound(sets), "")
  BY DEF InformValue
<1>2. /\ DOMAIN sets = 1 .. n
      /\ \A i \in 1 .. n : sets[i] = IF HasDotSuffix(params[i].Name, suffix)
                                     THEN {params[i].Value} ELSE {}
  BY DEF Each
<1> HIDE DEF sets
<1>3. sets[k] # {}
  BY <1>2 DEF HasDotSuffix
<1>4. PICK i \in 1 .. n : sets[i] # {} /\ LastFound(sets) = sets[i]
  BY <1>2, <1>3, LastFoundIs
<1>5. sets[i] = {params[i].Value} /\ HasSuffix(params[i].Name, suffix)
  BY <1>2, <1>4 DEF HasDotSuffix
<1>6. InformValue(inform, suffix) = params[i].Value
  BY <1>1, <1>4, <1>5, ValueOrOne, ZenonT(30)
<1> QED BY <1>5, <1>6

\* A parsed Inform, its parameters being those of one of its lists.
LEMMA UsableInform ==
  ASSUME NEW kids \in InformContents, ParsedInform(kids).error = "none",
         \A p \in ParametersIn(kids) : Rooted(NameOf(p)),
         NEW required \in minimumForcedInformParameters
  PROVE  InformValue(ParsedInform(kids).fields, required) \in ValuesOf(kids, required)
<1> DEFINE elem == Tree("Inform", kids)
           id == LastDeviceId(elem)
           events == ListsOf(elem, "Event", parseEventList)
           parameters == ParametersOf(elem)
           inform == [DeviceId |-> id.id, Events |-> events.items,
                      Parameters |-> parameters.items]
           valid == /\ id.ok /\ events.ok /\ parameters.ok
                    /\ AllInts(elem, {"MaxEnvelopes", "RetryCount"})
                    /\ isValidInform(inform)
<1>1. ParsedInform(kids) = IF valid THEN Message("Inform", inform) ELSE Invalid
  BY DEF ParsedInform, parseCwmpMessageViaMap, Parse, defaultCwmpMessageParsers,
         CwmpMessageParsers, ParseInform, ParametersOf
<1>2. elem.kids = kids /\ IsList(elem.kids) /\ AreElements(kids)
  BY DeviceIdsAssumption DEF Tree, AreElements
<1>3. inform.Parameters = parameters.items
  OBVIOUS
<1>4. valid => parameters.ok /\ isValidInform(inform)
  OBVIOUS
<1> HIDE DEF valid, inform, parameters, elem
<1>5. valid /\ ParsedInform(kids).fields = inform
  BY <1>1 DEF Message, Invalid
<1>6. PICK k \in DOMAIN parameters.items : HasSuffix(parameters.items[k].Name, required)
  BY <1>3, <1>4, <1>5 DEF isValidInform
<1>7. parameters.ok /\ parameters.items # <<>>
  BY <1>4, <1>5, <1>6
<1>8. PICK i \in DOMAIN kids :
         /\ DOMAIN parameters.items = DOMAIN kids[i].kids
         /\ \A j \in DOMAIN kids[i].kids :
               LET kid == kids[i].kids[j]
               IN  /\ kid.name = "ParameterValueStruct"
                   /\ parameters.items[j].Name = LastText(kid, "Name", NoName)
                   /\ parameters.items[j].Value = LastText(kid, "Value", "")
  <2>1. \E i \in DOMAIN elem.kids :
           LET items == parameters.items
               params == elem.kids[i].kids
           IN  /\ DOMAIN items = DOMAIN params
               /\ \A j \in DOMAIN params :
                     /\ params[j].name = "ParameterValueStruct"
                     /\ items[j].Name = LastText(params[j], "Name", NoName)
                     /\ items[j].Value = LastText(params[j], "Value", "")
    BY <1>2, <1>7, ParametersParsed DEF parameters
  <2> QED BY <1>2, <2>1
<1> DEFINE params == kids[i].kids
           n == Len(params)
<1>9. DOMAIN params = 1 .. n /\ n \in Nat
  BY <1>2, ListFacts DEF AreElements
<1>10. \A j \in 1 .. n : params[j] \in ParametersIn(kids)
  <2> SUFFICES ASSUME NEW j \in 1 .. n
               PROVE  params[j] \in ParametersIn(kids)
    OBVIOUS
  <2>1. j \in DOMAIN kids[i].kids /\ kids[i].kids[j].name = "ParameterValueStruct"
    BY <1>8, <1>9
  <2>2. kids[i].kids[j] \in UNION {{kids[l].kids[m] : m \in DOMAIN kids[l].kids} :
                                   l \in DOMAIN kids}
    BY <2>1
  <2> QED BY <2>1, <2>2 DEF ParametersIn
<1> HIDE DEF params
<1>11. \A j \in 1 .. n : /\ inform.Parameters[j].Name = NameOf(params[j])
                         /\ inform.Parameters[j].Value = LastText(params[j], "Value", "")
  BY <1>3, <1>8, <1>9 DEF NameOf, params
<1>12. DOMAIN inform.Parameters = 1 .. n
  BY <1>3, <1>8, <1>9 DEF params
<1>13. \A j \in 1 .. n : Rooted(inform.Parameters[j].Name)
  BY <1>10, <1>11
<1>14. k \in 1 .. n /\ HasSuffix(inform.Parameters[k].Name, required)
  BY <1>3, <1>6, <1>12
<1> HIDE DEF n
<1>15. n \in Nat
  BY <1>9 DEF n
<1>16. PICK j \in 1 .. n : /\ HasSuffix(inform.Parameters[j].Name, required)
                          /\ InformValue(inform, required) = inform.Parameters[j].Value
  BY <1>12, <1>13, <1>14, <1>15, ValueTaken
<1>17. LastText(params[j], "Value", "") \in ValuesOf(kids, required)
  BY <1>10, <1>11, <1>16 DEF ValuesOf
<1> QED BY <1>5, <1>11, <1>16, <1>17

\* What processInformRequest looks for after a dot is there when isValidInform
\* found it as the end of a name, provided the names have a root.
THEOREM InformUsable == ExchangeSpec => []AcceptedInformIsUsable
<1>1. DeviceInv => AcceptedInformIsUsable
  <2> SUFFICES ASSUME DeviceInv, stage = "informed",
                      \A p \in ParametersIn(incoming.kids) : Rooted(NameOf(p))
               PROVE  AcceptedInformIsUsable
    BY DEF AcceptedInformIsUsable
  <2> DEFINE inform == ParsedInform(incoming.kids).fields
  <2>1. device = DeviceRow(inform)
    BY DEF DeviceInv
  <2>2. \A required \in minimumForcedInformParameters :
           InformValue(inform, required) \in ValuesOf(incoming.kids, required)
    BY UsableInform DEF DeviceInv
  <2> HIDE DEF inform
  <2>3. /\ "ManagementServer.ConnectionRequestURL" \in minimumForcedInformParameters
        /\ "ManagementServer.ParameterKey" \in minimumForcedInformParameters
        /\ "DeviceInfo.ProvisioningCode" \in minimumForcedInformParameters
    BY DEF minimumForcedInformParameters
  <2> QED BY <2>1, <2>2, <2>3 DEF DeviceRow, AcceptedInformIsUsable
<1> QED BY <1>1, DeviceInvariant, PTL

-----------------------------------------------------------------------------
(* Calls of the API. *)

\* Every array one and two levels down, as ArraysAreCounted looks at them.
Counted(kid) == kid.array.of # "" => kid.array.count = Len(kid.kids)

\* The row of a call is what StoreParameters made of it, and builds.
CallInv ==
    /\ IF stage \in {"queued", "sent", "refused"}
       THEN /\ call \in ApiCalls /\ Builds(call.rpc, call.params)
            /\ row = [name |-> call.rpc, parameters |-> StoreParameters(call.params)]
       ELSE row = NoRow
    /\ stage = "sent" => /\ reply.kind = "xml"
                         /\ reply.xml.header.ID = RpcId
                         /\ reply.xml.rpc.name = call.rpc
                         /\ ArraysAreCounted(reply.xml.rpc)
    /\ reply.kind \in {"none", "xml", "error"}

\* What sendOutgoingMsg writes.
LEMMA AnswerKind ==
  ASSUME NEW v, NEW message
  PROVE  Answer(v, message) => reply'.kind \in {"none", "xml", "error"}
BY DEF Answer

LEMMA AnswerErrorKind ==
  ASSUME NEW parsed
  PROVE  AnswerError(parsed) => reply'.kind \in {"none", "xml", "error"}
BY AnswerKind DEF AnswerError

\* What the database gives back is what it was given.
LEMMA LoadStored ==
  ASSUME NEW c \in ApiCalls
  PROVE  LoadParameters(StoreParameters(c.params)) = [error |-> FALSE, params |-> c.params]
<1>1. c.params.json \in {"absent", "null", "wrong", "object"}
      /\ (c.params.json = "absent" => c.params = Absent)
  BY ApiCallsAssumption
<1>2. c.params # NullColumn
  BY <1>1 DEF NullColumn
<1>3. StoreParameters(c.params)
        = IF c.params.json = "absent" THEN NullColumn ELSE c.params
  BY DEF StoreParameters
<1> QED BY <1>2, <1>3, <1>1 DEF LoadParameters, StoreParameters, NullColumn, Absent

\* The array StringArray makes of a list of strings.
LEMMA ArrayCounted ==
  ASSUME NEW name, NEW strings, IsList(strings)
  PROVE  LET array == StringArray(name, strings)
         IN  /\ Counted(array)
             /\ DOMAIN array.kids = DOMAIN strings
             /\ \A i \in DOMAIN strings : array.kids[i].kids = <<>>
<1> DEFINE kids == [i \in DOMAIN strings |-> Leaf("string", strings[i])]
           array == StringArray(name, strings)
<1>1. array = ArrayTree(name, "string", Len(strings), kids)
  BY DEF StringArray, Each
<1>2. \A i \in DOMAIN strings : kids[i].kids = <<>>
  BY DEF Leaf
<1>3. Len(kids) = Len(strings)
  BY EachLen
<1>4. DOMAIN kids = DOMAIN strings
  OBVIOUS
<1> HIDE DEF kids, array
<1>5. array.kids = kids /\ array.array.count = Len(strings)
  BY <1>1 DEF ArrayTree
<1>6. Counted(array) /\ DOMAIN array.kids = DOMAIN strings
  BY <1>3, <1>4, <1>5 DEF Counted
<1> QED BY <1>2, <1>5, <1>6 DEF array

\* What Generate makes of a message has its id and name.
LEMMA GeneratedNamed ==
  ASSUME NEW id, NEW name \in RpcNames, NEW fields
  PROVE  LET message == Outgoing(name, id, fields)
         IN  /\ Generate(message).header.ID = id
             /\ Generate(message).rpc.name = name
<1> DEFINE message == Outgoing(name, id, fields)
<1>1. message.name = name /\ message.id = id /\ message.fields = fields
  BY DEF Outgoing
<1> HIDE DEF message
<1>2. ASSUME NEW kids
      PROVE  /\ generateMessageParts(message, kids).header.ID = id
             /\ generateMessageParts(message, kids).rpc.name = name
  BY <1>1 DEF generateMessageParts, Tree
<1>3. \E kids : Generate(message) = generateMessageParts(message, kids)
  <2>1. CASE name \in {"AddObject", "DeleteObject"}
    BY <1>1, <2>1 DEF Generate, GenerateObject
  <2>2. CASE name \in {"GetParameterAttributes", "GetParameterValues"}
    BY <1>1, <2>2 DEF Generate, GenerateNames
  <2>3. CASE name = "GetParameterNames"
    BY <1>1, <2>3 DEF Generate, GenerateGetParameterNames
  <2>4. CASE name = "GetRPCMethods"
    BY <1>1, <2>4 DEF Generate, GenerateGetRPCMethods
  <2>5. CASE name = "Reboot"
    BY <1>1, <2>5 DEF Generate, GenerateReboot
  <2>6. CASE name = "SetParameterAttributes"
    BY <1>1, <2>6 DEF Generate, GenerateSetParameterAttributes
  <2>7. CASE name = "SetParameterValues"
    BY <1>1, <2>7 DEF Generate, GenerateSetParameterValues
  <2> QED BY <2>1, <2>2, <2>3, <2>4, <2>5, <2>6, <2>7 DEF RpcNames
<1> QED BY <1>2, <1>3 DEF message

\* A child is counted if it is, and so are the children of its own.
KidCounted(kid) ==
    /\ Counted(kid)
    /\ \A j \in DOMAIN kid.kids : \A k \in DOMAIN kid.kids[j].kids :
          Counted(kid.kids[j].kids[k])

LEMMA CountedByKid ==
  ASSUME NEW elem, \A i \in DOMAIN elem.kids : KidCounted(elem.kids[i])
  PROVE  ArraysAreCounted(elem)
BY DEF ArraysAreCounted, KidCounted, Counted

LEMMA LeafCounted == ASSUME NEW name, NEW text PROVE KidCounted(Leaf(name, text))
<1> DEFINE leaf == Leaf(name, text)
<1>1. leaf.array.of = "" /\ leaf.kids = <<>>
  BY DEF Leaf, NoArray
<1> HIDE DEF leaf
<1>2. DOMAIN leaf.kids = {}
  <2>1. DOMAIN <<>> = {}
    OBVIOUS
  <2> QED BY <1>1, <2>1
<1> QED BY <1>1, <1>2 DEF KidCounted, Counted, leaf

LEMMA ArrayKidCounted ==
  ASSUME NEW name, NEW strings, IsList(strings)
  PROVE  KidCounted(StringArray(name, strings))
<1> DEFINE array == StringArray(name, strings)
<1>1. Counted(array) /\ DOMAIN array.kids = DOMAIN strings
      /\ \A i \in DOMAIN strings : array.kids[i].kids = <<>>
  BY ArrayCounted
<1> HIDE DEF array
<1>2. \A i \in DOMAIN array.kids : DOMAIN array.kids[i].kids = {}
  BY <1>1
<1> QED BY <1>1, <1>2 DEF KidCounted, array

\* From the children to the message.
LEMMA PartsCounted ==
  ASSUME NEW message, NEW kids, \A i \in DOMAIN kids : KidCounted(kids[i])
  PROVE  ArraysAreCounted(generateMessageParts(message, kids).rpc)
<1> DEFINE elem == generateMessageParts(message, kids).rpc
<1>1. elem.kids = kids
  BY DEF generateMessageParts, Tree
<1> HIDE DEF elem
<1>2. ArraysAreCounted(elem)
  BY <1>1, CountedByKid
<1> QED BY <1>2 DEF elem

LEMMA TwoCounted ==
  ASSUME NEW message, NEW a, NEW b, KidCounted(a), KidCounted(b)
  PROVE  /\ ArraysAreCounted(generateMessageParts(message, <<>>).rpc)
         /\ ArraysAreCounted(generateMessageParts(message, <<a>>).rpc)
         /\ ArraysAreCounted(generateMessageParts(message, <<a, b>>).rpc)
<1>1. \A i \in DOMAIN <<>> : KidCounted(<<>>[i])
  OBVIOUS
<1>2. \A i \in DOMAIN <<a>> : KidCounted(<<a>>[i])
  OBVIOUS
<1>3. \A i \in DOMAIN <<a, b>> : KidCounted(<<a, b>>[i])
  OBVIOUS
<1> QED BY <1>1, <1>2, <1>3, PartsCounted

\* An array of trees whose children are counted.
LEMMA ArrayOfTrees ==
  ASSUME NEW name, NEW of, NEW list, IsList(list),
         NEW trees, trees = [i \in DOMAIN list |-> trees[i]],
         \A i \in DOMAIN list : \A k \in DOMAIN trees[i].kids : Counted(trees[i].kids[k])
  PROVE  KidCounted(ArrayTree(name, of, Len(list), trees))
<1> DEFINE array == ArrayTree(name, of, Len(list), trees)
<1>1. array.kids = trees /\ array.array.count = Len(list)
  BY DEF ArrayTree
<1>2. Len(trees) = Len(list) /\ DOMAIN trees = DOMAIN list
  <2>1. DOMAIN trees = DOMAIN list
    OBVIOUS
  <2> QED BY <2>1, EachLen
<1> HIDE DEF array
<1>3. KidCounted(array)
  BY <1>1, <1>2 DEF KidCounted, Counted
<1> QED BY <1>3 DEF array

\* Every generator of an RPC counts the arrays it writes.
LEMMA CallCounted ==
  ASSUME NEW c \in ApiCalls, c.rpc \in RpcNames
  PROVE  ArraysAreCounted(Generate(buildCwmpMessageFromParts(RpcId, c.rpc, c.params)).rpc)
<1> DEFINE message == buildCwmpMessageFromParts(RpcId, c.rpc, c.params)
<1>1. message.name = c.rpc /\ message.fields = FieldsOf(c.rpc, c.params)
  BY DEF buildCwmpMessageFromParts, Outgoing
<1>2. /\ IsList(Field(c.params, "ParameterNames", <<>>))
      /\ IsList(Field(c.params, "Attributes", <<>>))
      /\ IsList(Field(c.params, "ParameterList", <<>>))
      /\ \A i \in DOMAIN Field(c.params, "Attributes", <<>>) :
            IsList(Field(c.params, "Attributes", <<>>)[i].AccessList)
  BY ApiCallsAssumption
<1> HIDE DEF message
<1> DEFINE goal == ArraysAreCounted(Generate(message).rpc)
<1>3. ASSUME c.rpc \in {"AddObject", "DeleteObject"}
      PROVE  goal
  <2>1. Generate(message)
          = generateMessageParts(message, <<Leaf("ObjectName", message.fields.ObjectName),
                                            Leaf("ParameterKey", message.fields.ParameterKey)>>)
    BY <1>1, <1>3 DEF Generate, GenerateObject
  <2> QED BY <2>1, LeafCounted, TwoCounted
<1>4. ASSUME c.rpc \in {"GetParameterAttributes", "GetParameterValues"}
      PROVE  goal
  <2>1. Generate(message)
          = generateMessageParts(message, <<StringArray("ParameterNames",
                                                        message.fields.ParameterNames)>>)
    BY <1>1, <1>4 DEF Generate, GenerateNames
  <2>2. message.fields = [ParameterNames |-> Field(c.params, "ParameterNames", <<>>)]
    BY <1>1, <1>4 DEF FieldsOf
  <2>3. IsList(message.fields.ParameterNames)
    BY <1>2, <2>2
  <2> QED BY <2>1, <2>3, ArrayKidCounted, TwoCounted
<1>5. ASSUME c.rpc = "GetParameterNames"
      PROVE  goal
  <2>1. Generate(message)
          = generateMessageParts(message,
                <<Leaf("ParameterPath", message.fields.ParameterPath),
                  Leaf("NextLevel", FormatBool(message.fields.NextLevel))>>)
    BY <1>1, <1>5 DEF Generate, GenerateGetParameterNames
  <2> QED BY <2>1, LeafCounted, TwoCounted
<1>6. ASSUME c.rpc = "GetRPCMethods"
      PROVE  goal
  <2>1. Generate(message) = generateMessageParts(message, <<>>)
    BY <1>1, <1>6 DEF Generate, GenerateGetRPCMethods
  <2> QED BY <2>1, LeafCounted, TwoCounted
<1>7. ASSUME c.rpc = "Reboot"
      PROVE  goal
  <2>1. Generate(message)
          = generateMessageParts(message, <<Leaf("CommandKey", message.fields.CommandKey)>>)
    BY <1>1, <1>7 DEF Generate, GenerateReboot
  <2> QED BY <2>1, LeafCounted, TwoCounted
<1>8. ASSUME c.rpc = "SetParameterAttributes"
      PROVE  goal
  <2> DEFINE list == Field(c.params, "Attributes", <<>>)
             TreeOf(param) == Tree("SetParameterAttributesStruct",
                    <<Leaf("Name", param.Name),
                      Leaf("NotificationChange", FormatBool(param.NotificationChange)),
                      Leaf("Notification", param.Notification),
                      Leaf("AccessListChange", FormatBool(param.AccessListChange)),
                      StringArray("AccessList", param.AccessList)>>)
             trees == [i \in DOMAIN list |-> TreeOf(list[i])]
             array == ArrayTree("ParameterList", "SetParameterAttributesStruct", Len(list), trees)
  <2>1. message.fields.ParameterList = list
    <3>1. message.fields = [ParameterList |-> list]
      BY <1>1, <1>8 DEF FieldsOf
    <3> QED BY <3>1
  <2>2. Generate(message) = generateMessageParts(message, <<array>>)
    <3>1. Generate(message) = GenerateSetParameterAttributes(message)
      BY <1>1, <1>8 DEF Generate
    <3> QED BY <3>1, <2>1 DEF GenerateSetParameterAttributes, Each
  <2>3. ASSUME NEW param, IsList(param.AccessList)
        PROVE  \A k \in DOMAIN TreeOf(param).kids : Counted(TreeOf(param).kids[k])
    <3> DEFINE access == StringArray("AccessList", param.AccessList)
               kids == <<Leaf("Name", param.Name),
                      Leaf("NotificationChange", FormatBool(param.NotificationChange)),
                      Leaf("Notification", param.Notification),
                      Leaf("AccessListChange", FormatBool(param.AccessListChange)),
                      access>>
    <3>1. KidCounted(access)
      BY <2>3, ArrayKidCounted
    <3> HIDE DEF access
    <3>2. \A k \in DOMAIN kids : KidCounted(kids[k])
      BY <3>1, LeafCounted
    <3>3. TreeOf(param).kids = kids
      BY DEF Tree, access
    <3> QED BY <3>2, <3>3 DEF KidCounted
  <2>4. \A i \in DOMAIN list : trees[i] = TreeOf(list[i]) /\ IsList(list[i].AccessList)
    BY <1>2
  <2>5. trees = [i \in DOMAIN list |-> trees[i]] /\ IsList(list)
    BY <1>2
  <2> HIDE DEF TreeOf, trees, list
  <2>6. \A i \in DOMAIN list : \A k \in DOMAIN trees[i].kids : Counted(trees[i].kids[k])
    BY <2>3, <2>4
  <2>7. KidCounted(array)
    BY <2>5, <2>6, ArrayOfTrees
  <2> HIDE DEF array
  <2> QED BY <2>2, <2>7, TwoCounted
<1>9. ASSUME c.rpc = "SetParameterValues"
      PROVE  goal
  <2> DEFINE given == Field(c.params, "ParameterList", <<>>)
             list == [i \in DOMAIN given |-> [given[i] EXCEPT !.Type = WithoutPrefix(@)]]
             TreeOf(param) == Tree("ParameterValueStruct",
                    <<Leaf("Name", param.Name),
                      TypedLeaf("Value", param.Value, <<"xsd">> \o param.Type)>>)
             trees == [i \in DOMAIN list |-> TreeOf(list[i])]
             array == ArrayTree("ParameterList", "ParameterValueStruct", Len(list), trees)
             key == Leaf("ParameterKey", message.fields.ParameterKey)
  <2>1. message.fields.ParameterList = list
    <3> DEFINE second == Field(c.params, "ParameterKey", "")
    <3>1. message.fields = [ParameterList |-> list, ParameterKey |-> second]
      BY <1>1, <1>9 DEF FieldsOf
    <3> HIDE DEF list, second
    <3> QED BY <3>1
  <2>2. Generate(message) = generateMessageParts(message, <<array, key>>)
    <3>1. Generate(message) = GenerateSetParameterValues(message)
      BY <1>1, <1>9 DEF Generate
    <3> HIDE DEF list
    <3> QED BY <3>1, <2>1 DEF GenerateSetParameterValues, Each
  <2>3. ASSUME NEW param
        PROVE  \A k \in DOMAIN TreeOf(param).kids : Counted(TreeOf(param).kids[k])
    <3> DEFINE value == TypedLeaf("Value", param.Value, <<"xsd">> \o param.Type)
               kids == <<Leaf("Name", param.Name), value>>
    <3>1. value.array.of = ""
      BY DEF TypedLeaf, NoArray
    <3> HIDE DEF value
    <3>2. \A k \in DOMAIN kids : Counted(kids[k])
      <4>1. Counted(Leaf("Name", param.Name))
        BY LeafCounted DEF KidCounted
      <4>2. Counted(value)
        BY <3>1 DEF Counted
      <4> QED BY <4>1, <4>2
    <3>3. TreeOf(param).kids = kids
      BY DEF Tree, value
    <3> QED BY <3>2, <3>3
  <2>4. IsList(list)
    <3>1. DOMAIN given = 1 .. Len(given) /\ Len(given) \in Nat
      BY <1>2, ListFacts
    <3>2. DOMAIN list = DOMAIN given /\ list = [i \in DOMAIN list |-> list[i]]
      OBVIOUS
    <3> HIDE DEF list
    <3>3. list \in Seq({list[i] : i \in DOMAIN list})
      BY <3>1, <3>2
    <3> QED BY <3>3 DEF IsList
  <2> HIDE DEF list
  <2>5. \A i \in DOMAIN list : trees[i] = TreeOf(list[i])
    OBVIOUS
  <2>6. trees = [i \in DOMAIN list |-> trees[i]]
    OBVIOUS
  <2> HIDE DEF TreeOf, trees
  <2>7. \A i \in DOMAIN list : \A k \in DOMAIN trees[i].kids : Counted(trees[i].kids[k])
    BY <2>3, <2>5
  <2>8. KidCounted(array)
    BY <2>4, <2>6, <2>7, ArrayOfTrees
  <2>9. KidCounted(key)
    BY LeafCounted
  <2> HIDE DEF array, key
  <2> QED BY <2>2, <2>8, <2>9, TwoCounted
<1>10. goal
  BY <1>3, <1>4, <1>5, <1>6, <1>7, <1>8, <1>9 DEF RpcNames
<1> QED BY <1>10 DEF message

\* A row that is there can be sent (findOutgoingRpc).
LEMMA FetchSends ==
  ASSUME CallInv, FetchRpc
  PROVE  CallInv'
<1> DEFINE message == buildCwmpMessageFromParts(RpcId, call.rpc, call.params)
<1>1. /\ stage = "queued" /\ call \in ApiCalls /\ Builds(call.rpc, call.params)
      /\ row = [name |-> call.rpc, parameters |-> StoreParameters(call.params)]
  BY DEF FetchRpc, CallInv
<1>2. LoadParameters(row.parameters) = [error |-> FALSE, params |-> call.params]
      /\ row.name = call.rpc
  BY <1>1, LoadStored
<1>3. Answer(version, message) /\ stage' = "sent" /\ UNCHANGED <<call, row>>
  BY <1>1, <1>2 DEF FetchRpc
<1>4. call.rpc \in RpcNames
  BY <1>1 DEF Builds
<1>5. message.name = call.rpc
  BY DEF buildCwmpMessageFromParts, Outgoing
<1>6. HasGenerator(version, message.name)
  BY <1>4, <1>5 DEF HasGenerator, defaultCwmpMessageGenerators, CwmpMessageGenerators
<1>7. Generate(message).header.ID = RpcId /\ Generate(message).rpc.name = call.rpc
  BY <1>4, GeneratedNamed DEF buildCwmpMessageFromParts
<1>8. ArraysAreCounted(Generate(message).rpc)
  BY <1>1, <1>4, CallCounted
<1> HIDE DEF message
<1>9. reply' = [kind |-> "xml", message |-> message, xml |-> Generate(message)]
  BY <1>3, <1>6 DEF Answer
<1>10. reply'.kind = "xml" /\ reply'.xml = Generate(message)
  BY <1>9
<1>11. ArraysAreCounted(reply'.xml.rpc)
  BY <1>8, <1>10
<1> QED BY <1>1, <1>3, <1>7, <1>10, <1>11 DEF CallInv

LEMMA CallStep == CallInv /\ [ExchangeNext]_exchangeVars => CallInv'
<1> SUFFICES ASSUME CallInv, [ExchangeNext]_exchangeVars
             PROVE  CallInv'
  OBVIOUS
<1>1. CASE TakePost \/ UNCHANGED exchangeVars
  <2>1. UNCHANGED sessionVars
    BY <1>1 DEF TakePost, exchangeVars
  <2> QED BY <2>1 DEF sessionVars, CallInv, ArraysAreCounted
<1>2. CASE AnswerWithoutSession
  BY <1>2, AnswerKind DEF AnswerWithoutSession, CallInv
<1>3. CASE RefuseInform
  <2>1. /\ stage = "incoming" /\ stage' = "closed" /\ UNCHANGED <<call, row>>
        /\ reply'.kind \in {"none", "xml", "error"}
    BY <1>3, AnswerErrorKind DEF RefuseInform, ReadInform
  <2> QED BY <2>1 DEF CallInv
<1>4. CASE FailInform
  <2>1. /\ stage = "incoming" /\ stage' = "closed" /\ UNCHANGED <<call, row>>
        /\ reply'.kind \in {"none", "xml", "error"}
    BY <1>4, AnswerKind DEF FailInform, ReadInform
  <2> QED BY <2>1 DEF CallInv
<1>5. CASE AcceptInform
  <2>1. /\ stage = "incoming" /\ stage' = "informed" /\ UNCHANGED <<call, row>>
        /\ reply'.kind \in {"none", "xml", "error"}
    BY <1>5, AnswerKind DEF AcceptInform, ReadInform
  <2> QED BY <2>1 DEF CallInv
<1>6. CASE ReceiveRequest
  <2>1. stage = "informed" /\ UNCHANGED <<stage, call, row>>
    BY <1>6 DEF ReceiveRequest
  <2>2. reply'.kind \in {"none", "xml", "error"}
    BY <1>6, AnswerKind, AnswerErrorKind DEF ReceiveRequest
  <2> QED BY <2>1, <2>2 DEF CallInv
<1>7. CASE QueueCall
  BY <1>7 DEF QueueCall, CallInv, NoReply
<1>8. CASE FetchRpc
  BY <1>8, FetchSends
<1>9. CASE ReceiveResponse
  <2>1. stage \in {"sent", "refused"}
    BY <1>9 DEF ReceiveResponse
  <2>2. \/ /\ stage' = "refused" /\ UNCHANGED <<call, row>>
           /\ \E parsed : AnswerError(parsed)
        \/ stage' = "settled" /\ row' = NoRow /\ reply' = NoReply
        \/ stage' = "queued" /\ UNCHANGED <<call, row>> /\ reply' = NoReply
    BY <1>9, ZenonT(100) DEF ReceiveResponse
  <2>3. reply'.kind \in {"none", "xml", "error"}
    BY <2>2, AnswerErrorKind DEF NoReply
  <2> QED BY <2>1, <2>2, <2>3 DEF CallInv
<1> QED BY <1>1, <1>2, <1>3, <1>4, <1>5, <1>6, <1>7, <1>8, <1>9 DEF ExchangeNext

LEMMA CallInvariant == ExchangeSpec => []CallInv
<1>1. ExchangeInit => CallInv
  BY DEF ExchangeInit, CallInv, NoReply
<1> QED BY <1>1, CallStep, PTL DEF ExchangeSpec

\* What ApiHandler accepted can be sent: the row it left builds again in the
\* session that fetches it, has a generator in every version of CWMP, is written
\* with every array as long as it says, and no session ends over it.
THEOREM AcceptedSent == ExchangeSpec => []AcceptedCallIsSent
<1>1. CallInv => AcceptedCallIsSent
  BY DEF CallInv, AcceptedCallIsSent
<1> QED BY <1>1, CallInvariant, PTL

-----------------------------------------------------------------------------
(* What the handler writes and the parsers read.                            *)

\* The texts of the children of a name, the last of them.
TextsIn(elem, name) == FoundIn(elem, name, LAMBDA kid : {kid.text})

\* What a fault with this code and string has in its detail.
LEMMA FaultDetail ==
  ASSUME NEW code, NEW string
  PROVE  LET detail == Tree("detail", <<Tree("Fault", <<Leaf("FaultCode", code),
                                                       Leaf("FaultString", string)>>)>>)
         IN  /\ FoundInFaults(detail, "FaultCode") = {code}
             /\ FoundInFaults(detail, "FaultString") = {string}
<1> DEFINE fault == Tree("Fault", <<Leaf("FaultCode", code), Leaf("FaultString", string)>>)
           detail == Tree("detail", <<fault>>)
<1>1. TextsIn(fault, "FaultCode") = {code}
  <2> DEFINE sets == Each(fault.kids, LAMBDA kid :
                         IF kid.name = "FaultCode" THEN {kid.text} ELSE {})
  <2>1. DOMAIN sets = 1 .. 2 /\ sets[1] = {code} /\ sets[2] = {}
    BY DEF Each, Tree, Leaf
  <2>2. TextsIn(fault, "FaultCode") = LastFound(sets)
    BY DEF TextsIn, FoundIn
  <2> HIDE DEF sets
  <2> QED BY <2>1, <2>2, LoopOfTwo
<1>2. TextsIn(fault, "FaultString") = {string}
  <2> DEFINE sets == Each(fault.kids, LAMBDA kid :
                         IF kid.name = "FaultString" THEN {kid.text} ELSE {})
  <2>1. DOMAIN sets = 1 .. 2 /\ sets[2] = {string}
    BY DEF Each, Tree, Leaf
  <2>2. TextsIn(fault, "FaultString") = LastFound(sets)
    BY DEF TextsIn, FoundIn
  <2> HIDE DEF sets
  <2> QED BY <2>1, <2>2, LoopOfTwo
<1>3. ASSUME NEW name
      PROVE  FoundInFaults(detail, name) = TextsIn(fault, name)
  <2> DEFINE sets == Each(detail.kids, LAMBDA kid :
                         IF kid.name = "Fault" THEN TextsIn(kid, name) ELSE {})
  <2>1. FoundInFaults(detail, name) = LastFound(sets)
    BY DEF FoundInFaults, FoundIn, TextsIn
  <2>2. detail.kids = <<fault>> /\ fault.name = "Fault"
    BY DEF Tree
  <2>3. DOMAIN sets = 1 .. 1 /\ sets[1] = TextsIn(fault, name)
    <3> HIDE DEF fault, detail
    <3> QED BY <2>2 DEF Each
  <2> HIDE DEF sets
  <2> QED BY <2>1, <2>3, LoopOfOne
<1> HIDE DEF fault, detail
<1>4. /\ FoundInFaults(detail, "FaultCode") = {code}
      /\ FoundInFaults(detail, "FaultString") = {string}
  BY <1>1, <1>2, <1>3
<1> QED BY <1>4 DEF fault, detail

\* ParseFault gets out of the three children what GenerateFault put in.
LEMMA FaultReadBack ==
  ASSUME NEW message, message.name = "Fault", NEW source \in {"Client", "Server"},
         NEW code, Atoi(code), NEW string,
         message.fields = [Source |-> source, FaultCode |-> code, FaultString |-> string]
  PROVE  ParseFault(Generate(message).rpc) = Message("Fault", message.fields)
<1> DEFINE fault == Tree("Fault", <<Leaf("FaultCode", code), Leaf("FaultString", string)>>)
           detail == Tree("detail", <<fault>>)
           kids == <<Leaf("faultcode", source), Leaf("faultstring", "CWMP fault"), detail>>
           elem == Tree("Fault", kids)
<1>1. Generate(message).rpc = elem
  <2>1. Generate(message) = GenerateFault(message)
    BY DEF Generate
  <2>2. CwmpFault(message) = detail
    BY DEF CwmpFault
  <2>3. GenerateFault(message).rpc
           = Tree("Fault", <<Leaf("faultcode", source), Leaf("faultstring", "CWMP fault"),
                             CwmpFault(message)>>)
    BY DEF GenerateFault, generateMessageParts
  <2> HIDE DEF detail
  <2> QED BY <2>1, <2>2, <2>3
<1>2. elem.kids = kids
  BY DEF Tree
<1>3. detail.kids = <<fault>> /\ detail.name = "detail"
  <2> HIDE DEF fault
  <2> QED BY DEF Tree
<1>4. /\ fault.name = "Fault" /\ DOMAIN fault.kids = 1 .. 2
      /\ fault.kids[1] = Leaf("FaultCode", code)
      /\ fault.kids[2] = Leaf("FaultString", string)
  BY DEF Tree
<1>5. /\ FoundInFaults(detail, "FaultCode") = {code}
       /\ FoundInFaults(detail, "FaultString") = {string}
  BY FaultDetail
<1> HIDE DEF fault, detail
<1>6. /\ DOMAIN kids = 1 .. 3 /\ kids[3] = detail
       /\ kids[1] = Leaf("faultcode", source) /\ kids[2] = Leaf("faultstring", "CWMP fault")
  OBVIOUS
<1>7. \A name, text : Leaf(name, text).name = name /\ Leaf(name, text).text = text
  BY DEF Leaf
<1> HIDE DEF kids, elem
<1>8. /\ kids[1].name = "faultcode" /\ kids[1].text = source
       /\ kids[2].name = "faultstring" /\ kids[3].name = "detail"
  <2>1. kids[1].name = "faultcode" /\ kids[1].text = source
    <3>1. kids[1] = Leaf("faultcode", source)
      BY <1>6
    <3>2. Leaf("faultcode", source).name = "faultcode"
      BY <1>7
    <3>3. Leaf("faultcode", source).text = source
      BY <1>7
    <3> QED BY <3>1, <3>2, <3>3
  <2>2. kids[2].name = "faultstring"
    BY <1>6, <1>7, Zenon
  <2>3. kids[3].name = "detail"
    BY <1>3, <1>6, Zenon
  <2> QED BY <2>1, <2>2, <2>3
<1>9. DOMAIN elem.kids = 1 .. 3 /\ 1 \in 1 .. 3 /\ 2 \in 1 .. 3 /\ 3 \in 1 .. 3
  <2>1. DOMAIN kids = 1 .. 3
    BY <1>6
  <2>2. DOMAIN elem.kids = DOMAIN kids
    BY <1>2
  <2>3. 1 \in 1 .. 3 /\ 2 \in 1 .. 3 /\ 3 \in 1 .. 3
    OBVIOUS
  <2> QED BY <2>1, <2>2, <2>3
<1>10. FaultSource(elem) = source
  <2> DEFINE sets == Each(elem.kids, LAMBDA kid : IF kid.name = "faultcode"
                              THEN {kid.text} \cap {"Client", "Server"} ELSE {})
  <2>1. FaultSource(elem) = ValueOr(LastFound(sets), "Client")
    BY DEF FaultSource, FoundIn
  <2>2. /\ DOMAIN sets = 1 .. 3
        /\ \A i \in 1 .. 3 : sets[i] = IF kids[i].name = "faultcode"
                                      THEN {kids[i].text} \cap {"Client", "Server"} ELSE {}
    BY <1>2, <1>9 DEF Each
  <2>3. DOMAIN sets = 1 .. 3 /\ sets[1] = {source} /\ sets[2] = {} /\ sets[3] = {}
    <3> HIDE DEF sets
    <3> QED BY <1>8, <1>9, <2>2
  <2> HIDE DEF sets
  <2>4. LastFound(sets) = {source}
    BY <2>3, LoopOfThree
  <2> QED BY <2>1, <2>4, ValueOrOne
<1>11. FaultCode(elem) = code
  <2> DEFINE sets == Each(elem.kids, LAMBDA kid : IF kid.name = "detail"
                              THEN FoundInFaults(kid, "FaultCode") ELSE {})
  <2>1. FaultCode(elem) = ValueOr(LastFound(sets), "0")
    BY DEF FaultCode, FoundIn
  <2>2. /\ DOMAIN sets = 1 .. 3
        /\ \A i \in 1 .. 3 : sets[i] = IF kids[i].name = "detail"
                                      THEN FoundInFaults(kids[i], "FaultCode") ELSE {}
    BY <1>2, <1>9 DEF Each
  <2>3. DOMAIN sets = 1 .. 3 /\ sets[3] = {code}
    <3> HIDE DEF sets
    <3> QED BY <1>5, <1>6, <1>8, <1>9, <2>2
  <2> HIDE DEF sets
  <2>4. LastFound(sets) = {code}
    BY <2>3, LoopOfThree
  <2> QED BY <2>1, <2>4, ValueOrOne
<1>12. FaultString(elem) = string
  <2> DEFINE sets == Each(elem.kids, LAMBDA kid :
                         CASE kid.name = "faultstring" -> {kid.text}
                           [] kid.name = "detail" -> FoundInFaults(kid, "FaultString")
                           [] OTHER -> {})
  <2>1. FaultString(elem) = ValueOr(LastFound(sets), "")
    BY DEF FaultString
  <2>2. /\ DOMAIN sets = 1 .. 3
        /\ sets[3] = CASE kids[3].name = "faultstring" -> {kids[3].text}
                       [] kids[3].name = "detail" -> FoundInFaults(kids[3], "FaultString")
                       [] OTHER -> {}
    BY <1>2, <1>9 DEF Each
  <2>3. DOMAIN sets = 1 .. 3 /\ sets[3] = {string}
    <3> HIDE DEF sets
    <3> QED BY <1>5, <1>6, <1>8, <2>2
  <2> HIDE DEF sets
  <2>4. LastFound(sets) = {string}
    BY <2>3, LoopOfThree
  <2> QED BY <2>1, <2>4, ValueOrOne
<1>13. FaultCodesAreInts(elem)
  <2> SUFFICES ASSUME NEW i \in 1 .. 3, kids[i].name = "detail",
                      NEW j \in DOMAIN kids[i].kids, kids[i].kids[j].name = "Fault"
               PROVE  AllInts(kids[i].kids[j], {"FaultCode"})
    BY <1>2, <1>6 DEF FaultCodesAreInts, EachIs
  <2>1. i = 3
    BY <1>8
  <2>2. kids[i].kids[j] = fault
    <3>1. kids[i].kids = <<fault>>
      BY <2>1, <1>3, <1>6
    <3> QED BY <3>1
  <2>3. AllInts(fault, {"FaultCode"})
    BY <1>4, <1>7 DEF AllInts, EachIs
  <2> QED BY <2>2, <2>3
<1>14. ParseFault(elem) = Message("Fault", [Source |-> source, FaultCode |-> code,
                                           FaultString |-> string])
  BY <1>10, <1>11, <1>12, <1>13 DEF ParseFault
<1> QED BY <1>1, <1>14

\* ParseGetRPCMethodsResponse gets the list of methods that was written.
LEMMA MethodsReadBack ==
  ASSUME NEW message, message.name = "GetRPCMethodsResponse", NEW methods, IsList(methods),
         message.fields.MethodList = methods
  PROVE  ParseGetRPCMethodsResponse(Generate(message).rpc)
            = Message("GetRPCMethodsResponse", [List |-> methods])
<1> DEFINE array == StringArray("MethodList", methods)
           elem == Tree("GetRPCMethodsResponse", <<array>>)
           items == Each(array.kids, LAMBDA kid : kid.text)
           list == [ok |-> TRUE, items |-> methods]
           none == [ok |-> TRUE, items |-> <<>>]
           sets == Each(elem.kids, LAMBDA kid : IF kid.name = "MethodList"
                                   THEN {parseMethodList(kid)} ELSE {})
<1>1. Generate(message).rpc = elem
  BY DEF Generate, GenerateGetRPCMethodsResponse, generateMessageParts
<1>2. DOMAIN methods = 1 .. Len(methods) /\ Len(methods) \in Nat
  BY ListFacts
<1>3. /\ array.name = "MethodList" /\ array.array.of = "string"
      /\ array.array.count = Len(methods)
      /\ DOMAIN array.kids = DOMAIN methods
      /\ \A i \in DOMAIN methods : /\ array.kids[i].name = "string"
                                   /\ array.kids[i].text = methods[i]
  BY DEF StringArray, ArrayTree, Each, Leaf
<1>4. elem.kids = <<array>>
  BY DEF Tree
<1> HIDE DEF array, elem
<1>5. items = methods
  <2>1. items = [i \in DOMAIN methods |-> methods[i]]
    BY <1>3 DEF Each
  <2>2. methods \in Seq({methods[i] : i \in DOMAIN methods})
    BY DEF IsList
  <2> HIDE DEF items
  <2> QED BY <2>1, <2>2
<1>6. OnlyKids(array, {"string"})
  BY <1>3 DEF OnlyKids, EachIs
<1>7. parseMethodList(array) = list
  <2>1. Len(items) = array.array.count
    BY <1>3, <1>5
  <2>2. parseMethodList(array) = IF /\ array.array.of = "string" /\ OnlyKids(array, {"string"})
                                    /\ TRUE /\ Len(items) = array.array.count
                                 THEN [ok |-> TRUE, items |-> items] ELSE BadList
    BY DEF parseMethodList, ParseList
  <2> HIDE DEF items
  <2> QED BY <2>1, <2>2, <1>3, <1>5, <1>6
<1>8. list.ok /\ list.items = methods
  OBVIOUS
<1> HIDE DEF list, none, items
<1>9. EachIs(elem.kids, LAMBDA kid : kid.name = "MethodList" => parseMethodList(kid).ok)
  BY <1>4, <1>7, <1>8 DEF EachIs
<1>10. ListsOf(elem, "MethodList", parseMethodList) = list
  <2>1. ListsOf(elem, "MethodList", parseMethodList) = ValueOr(LastFound(sets), none)
    BY <1>9 DEF ListsOf, LastParsed, FoundIn, none
  <2>2. DOMAIN sets = 1 .. 1 /\ sets[1] = {list}
    BY <1>3, <1>4, <1>7 DEF Each
  <2> HIDE DEF sets
  <2>3. LastFound(sets) = {list}
    BY <2>2, LoopOfOne
  <2>4. ValueOr(LastFound(sets), none) = list
    BY <2>3, ValueOrOne
  <2> QED BY <2>1, <2>4
<1>11. ParseGetRPCMethodsResponse(elem) = Message("GetRPCMethodsResponse", [List |-> methods])
  BY <1>8, <1>10 DEF ParseGetRPCMethodsResponse, ListMessage
<1> QED BY <1>1, <1>11

\* What a reply may be that the parsers have a name for.
Readable(message) ==
    \/ message.name \notin CwmpMessageParsers
    \/ message.name = "GetRPCMethods"
    \/ message.name = "GetRPCMethodsResponse" /\ IsList(message.fields.MethodList)
    \/ /\ message.name = "Fault"
       /\ \E source \in {"Client", "Server"}, code \in {"8000", "8001", "8002", "8003"} :
          \E string :
             message.fields = [Source |-> source, FaultCode |-> code, FaultString |-> string]

\* The last reply was generated from a message the parsers can read.
ReplyInv ==
    reply.kind = "xml" => reply.xml = Generate(reply.message) /\ Readable(reply.message)

\* Each kind of answer keeps the replies readable.
LEMMA AnswerReadable ==
  ASSUME NEW v, NEW message, Readable(message), Answer(v, message)
  PROVE  ReplyInv'
<1>1. CASE HasGenerator(v, message.name)
  <2>1. reply' = [kind |-> "xml", message |-> message, xml |-> Generate(message)]
    BY <1>1 DEF Answer
  <2>2. reply'.message = message /\ reply'.xml = Generate(message)
    BY <2>1
  <2> QED BY <2>2 DEF ReplyInv
<1>2. CASE ~HasGenerator(v, message.name)
  BY <1>2 DEF Answer, ReplyInv
<1> QED BY <1>1, <1>2

\* The Faults of the handler.
LEMMA FaultReadable ==
  ASSUME NEW id, NEW source \in {"Client", "Server"},
         NEW code \in {"8000", "8001", "8002", "8003"}
  PROVE  Readable(generateFault(id, source, code))
BY DEF Readable, generateFault, Outgoing

\* The errors of the parsers.
LEMMA ErrorCodes ==
  ASSUME NEW v, NEW name, NEW elem
  PROVE  LET parsed == parseCwmpMessageViaMap(v, name, elem)
         IN  parsed.error = "IncomingMessageError" => parsed.code \in {"8000", "8003"}
<1> DEFINE parsed == Parse(name, elem)
           fits == parsed.error = "none" \/ parsed = Invalid \/ parsed = OtherError
<1>1. \A n, list : \/ ListMessage(n, list).error = "none"
                   \/ ListMessage(n, list) = Invalid
  BY DEF ListMessage, Message
<1>2. ASSUME name \in {"AddObjectResponse", "DeleteObjectResponse", "SetParameterValuesResponse"}
      PROVE  fits
  <2>1. fits
    BY <1>2 DEF Parse, ParseAddObjectResponse, ParseDeleteObjectResponse,
                ParseSetParameterValuesResponse, Message
  <2> QED BY <2>1
<1>3. ASSUME name = "Fault"
      PROVE  fits
  <2>1. parsed = ParseFault(elem)
    BY <1>3 DEF Parse
  <2>2. ParseFault(elem).error = "none" \/ ParseFault(elem) = OtherError
    BY DEF ParseFault, Message
  <2> QED BY <2>1, <2>2
<1>4. ASSUME name = "Inform"
      PROVE  fits
  <2>1. parsed = ParseInform(elem)
    BY <1>4 DEF Parse
  <2>2. ParseInform(elem).error = "none" \/ ParseInform(elem) = Invalid
    BY DEF ParseInform, Message
  <2> QED BY <2>1, <2>2
<1>5. ASSUME name \in {"GetRPCMethods", "RebootResponse", "SetParameterAttributesResponse"}
      PROVE  fits
  BY <1>5 DEF Parse, ParseGetRPCMethods, ParseRebootResponse,
              ParseSetParameterAttributesResponse, Message
<1>6. ASSUME name = "GetParameterAttributesResponse"
      PROVE  fits
  <2> DEFINE list == ListsOf(elem, "ParameterList", parseParameterAttributeStructList)
  <2>1. parsed = ListMessage(name, list)
    BY <1>6 DEF Parse, ParseGetParameterAttributesResponse
  <2> HIDE DEF list, parsed
  <2> QED BY <1>1, <2>1
<1>7. ASSUME name = "GetParameterNamesResponse"
      PROVE  fits
  <2> DEFINE list == ListsOf(elem, "ParameterList", parseParameterInfoStructList)
  <2>1. parsed = ListMessage(name, list)
    BY <1>7 DEF Parse, ParseGetParameterNamesResponse
  <2> HIDE DEF list, parsed
  <2> QED BY <1>1, <2>1
<1>8. ASSUME name = "GetParameterValuesResponse"
      PROVE  fits
  <2> DEFINE list == ListsOf(elem, "ParameterList", parseParameterValueStructList)
  <2>1. parsed = ListMessage(name, list)
    BY <1>8 DEF Parse, ParseGetParameterValuesResponse
  <2> HIDE DEF list, parsed
  <2> QED BY <1>1, <2>1
<1>9. ASSUME name = "GetRPCMethodsResponse"
      PROVE  fits
  <2> DEFINE list == ListsOf(elem, "MethodList", parseMethodList)
  <2>1. parsed = ListMessage(name, list)
    BY <1>9 DEF Parse, ParseGetRPCMethodsResponse
  <2> HIDE DEF list, parsed
  <2> QED BY <1>1, <2>1
<1>10. name \in CwmpMessageParsers => fits
  <2> HIDE DEF fits
  <2> QED BY <1>2, <1>3, <1>4, <1>5, <1>6, <1>7, <1>8, <1>9 DEF CwmpMessageParsers
<1> HIDE DEF parsed
<1>11. CASE name \in CwmpMessageParsers
  <2>1. parseCwmpMessageViaMap(v, name, elem) = parsed
    BY <1>11 DEF parseCwmpMessageViaMap, defaultCwmpMessageParsers, parsed
  <2> QED BY <2>1, <1>10, <1>11 DEF Invalid, OtherError
<1>12. CASE name \notin CwmpMessageParsers
  <2>1. parseCwmpMessageViaMap(v, name, elem) = Unsupported
    BY <1>12 DEF parseCwmpMessageViaMap, defaultCwmpMessageParsers, cwmpMessageParsers
  <2> QED BY <2>1 DEF Unsupported
<1> QED BY <1>11, <1>12

\* The answer to an error of a parser is a Fault, or none.
LEMMA AnswerErrorReadable ==
  ASSUME NEW v, NEW name, NEW elem,
         AnswerError(parseCwmpMessageViaMap(v, name, elem))
  PROVE  ReplyInv'
<1> DEFINE parsed == parseCwmpMessageViaMap(v, name, elem)
<1>1. parsed.error = "IncomingMessageError" => parsed.code \in {"8000", "8003"}
  BY ErrorCodes
<1>2. AnswerError(parsed)
  OBVIOUS
<1> HIDE DEF parsed
<1>3. CASE parsed.error = "IncomingMessageError"
  <2>1. Answer(version, IF parsed = Unsupported
                        THEN generateFault(CpeId, "Server", parsed.code)
                        ELSE generateFault(NoId, "Client", parsed.code))
    BY <1>2, <1>3 DEF AnswerError
  <2>2. /\ Readable(generateFault(CpeId, "Server", parsed.code))
        /\ Readable(generateFault(NoId, "Client", parsed.code))
    BY <1>1, <1>3, FaultReadable
  <2> QED BY <2>1, <2>2, AnswerReadable
<1>4. CASE parsed.error # "IncomingMessageError"
  BY <1>2, <1>4 DEF AnswerError, ReplyInv
<1> QED BY <1>3, <1>4

\* Each order in which incomingRequestNames is ranged over is a list of names.
LEMMA OrdersAreLists == \A order \in RangeOrders(incomingRequestNames) : IsList(order)
<1>1. IsFiniteSet(incomingRequestNames)
  <2>1. IsFiniteSet({"Inform"}) /\ IsFiniteSet({"GetRPCMethods"})
        /\ IsFiniteSet({"TransferComplete"})
    BY FS_Singleton
  <2>2. incomingRequestNames = ({"Inform"} \cup {"GetRPCMethods"}) \cup {"TransferComplete"}
    BY DEF incomingRequestNames
  <2>3. IsFiniteSet({"Inform"} \cup {"GetRPCMethods"})
    BY <2>1, FS_Union
  <2> QED BY <2>1, <2>2, <2>3, FS_Union
<1>2. Cardinality(incomingRequestNames) \in Nat
  BY <1>1, FS_CardinalityType
<1> SUFFICES ASSUME NEW order \in RangeOrders(incomingRequestNames)
             PROVE  IsList(order)
  OBVIOUS
<1>3. order \in [1 .. Cardinality(incomingRequestNames) -> incomingRequestNames]
  BY DEF RangeOrders
<1> QED BY <1>2, <1>3 DEF IsList

\* What each action writes is readable.
LEMMA ReplyStep == ReplyInv /\ CallInv /\ [ExchangeNext]_exchangeVars => ReplyInv'
<1> SUFFICES ASSUME ReplyInv, CallInv, [ExchangeNext]_exchangeVars
             PROVE  ReplyInv'
  OBVIOUS
<1>1. CASE TakePost \/ UNCHANGED exchangeVars
  <2>1. UNCHANGED reply
    BY <1>1 DEF TakePost, exchangeVars, sessionVars
  <2> QED BY <2>1 DEF ReplyInv
<1>2. CASE AnswerWithoutSession
  <2>1. PICK v \in AllVersions : Answer(v, generateFault(CpeId, "Server", "8001"))
    BY <1>2 DEF AnswerWithoutSession
  <2> QED BY <2>1, FaultReadable, AnswerReadable
<1>3. CASE RefuseInform
  <2>1. PICK kids \in InformContents : AnswerError(ParsedInform(kids))
    BY <1>3 DEF RefuseInform
  <2> QED BY <2>1, AnswerErrorReadable DEF ParsedInform
<1>4. CASE FailInform
  <2>1. PICK code \in {"8001", "8002"} : Answer(version, generateFault(CpeId, "Server", code))
    BY <1>4 DEF FailInform
  <2>2. Readable(generateFault(CpeId, "Server", code))
    BY FaultReadable
  <2> QED BY <2>1, <2>2, AnswerReadable
<1>5. CASE AcceptInform
  <2>1. PICK fields : Answer(version, Outgoing("InformResponse", CpeId, fields))
    BY <1>5 DEF AcceptInform
  <2>2. Readable(Outgoing("InformResponse", CpeId, fields))
    BY DEF Readable, Outgoing, CwmpMessageParsers
  <2> QED BY <2>1, <2>2, AnswerReadable
<1>6. CASE ReceiveRequest
  <2>1. \/ \E methods \in RangeOrders(incomingRequestNames) :
              Answer(version, Outgoing("GetRPCMethodsResponse", CpeId,
                                       [MethodList |-> methods]))
        \/ \E name, elem : AnswerError(parseCwmpMessageViaMap(version, name, elem))
    BY <1>6 DEF ReceiveRequest
  <2>2. \A methods \in RangeOrders(incomingRequestNames) :
           Readable(Outgoing("GetRPCMethodsResponse", CpeId, [MethodList |-> methods]))
    BY OrdersAreLists DEF Readable, Outgoing
  <2> QED BY <2>1, <2>2, AnswerReadable, AnswerErrorReadable
<1>7. CASE QueueCall
  BY <1>7 DEF QueueCall, NoReply, ReplyInv
<1>8. CASE FetchRpc
  <2>1. CASE UNCHANGED reply
    BY <2>1 DEF ReplyInv
  <2>2. CASE \E params : /\ Builds(row.name, params)
                         /\ Answer(version, buildCwmpMessageFromParts(RpcId, row.name, params))
    <3>1. PICK params : /\ Builds(row.name, params)
                        /\ Answer(version, buildCwmpMessageFromParts(RpcId, row.name, params))
      BY <2>2
    <3>2. row.name \in RpcNames
      BY <3>1 DEF Builds
    <3>3. Readable(buildCwmpMessageFromParts(RpcId, row.name, params))
      BY <3>2 DEF Readable, buildCwmpMessageFromParts, Outgoing, RpcNames, CwmpMessageParsers
    <3> QED BY <3>1, <3>3, AnswerReadable
  <2> QED BY <1>8, <2>1, <2>2 DEF FetchRpc
<1>9. CASE ReceiveResponse
  <2>1. \/ reply' = NoReply
        \/ \E name, elem : AnswerError(parseCwmpMessageViaMap(version, name, elem))
    BY <1>9 DEF ReceiveResponse
  <2> QED BY <2>1, AnswerErrorReadable DEF NoReply, ReplyInv
<1> QED BY <1>1, <1>2, <1>3, <1>4, <1>5, <1>6, <1>7, <1>8, <1>9 DEF ExchangeNext

\* Faults, GetRPCMethods and GetRPCMethodsResponse, the messages that go both
\* ways, are read by the parsers as they were written by the generators.
THEOREM ReadsBack == ExchangeSpec => []OwnParserReadsBack
<1>1. ExchangeInit => ReplyInv
  BY DEF ExchangeInit, ReplyInv, NoReply
<1>2. ReplyInv => OwnParserReadsBack
  <2> SUFFICES ASSUME ReplyInv, reply.kind = "xml", reply.message.name \in CwmpMessageParsers
               PROVE  OwnParserReadsBack
    BY DEF OwnParserReadsBack
  <2> DEFINE message == reply.message
             parsed == parseCwmpMessageViaMap(version, message.name, reply.xml.rpc)
  <2>1. reply.xml = Generate(message) /\ Readable(message)
    BY DEF ReplyInv
  <2>2. parsed = Parse(message.name, Generate(message).rpc)
    BY <2>1 DEF parseCwmpMessageViaMap, defaultCwmpMessageParsers
  <2> DEFINE asWritten == CASE message.name = "Fault" -> parsed = Message("Fault", message.fields)
                            [] message.name = "GetRPCMethods" ->
                                  parsed = Message("GetRPCMethods", NoFields)
                            [] message.name = "GetRPCMethodsResponse" ->
                                  parsed = Message(message.name,
                                                   [List |-> message.fields.MethodList])
  <2> HIDE DEF message, parsed
  <2>3. ASSUME message.name = "Fault"
        PROVE  asWritten
    <3>0. PICK source \in {"Client", "Server"}, code \in {"8000", "8001", "8002", "8003"} :
             \E string : message.fields = [Source |-> source, FaultCode |-> code,
                                           FaultString |-> string]
      BY <2>1, <2>3 DEF Readable, CwmpMessageParsers
    <3>1. PICK string :
             message.fields = [Source |-> source, FaultCode |-> code, FaultString |-> string]
      BY <3>0
    <3>2. Atoi(code)
      BY DEF Atoi
    <3>3. parsed = ParseFault(Generate(message).rpc)
      BY <2>2, <2>3 DEF Parse
    <3>4. parsed = Message("Fault", message.fields)
      BY <2>3, <3>1, <3>2, <3>3, FaultReadBack
    <3> QED BY <2>3, <3>4
  <2>4. ASSUME message.name = "GetRPCMethods"
        PROVE  asWritten
    <3>1. parsed = ParseGetRPCMethods(Generate(message).rpc)
      BY <2>2, <2>4 DEF Parse
    <3> QED BY <2>4, <3>1 DEF ParseGetRPCMethods
  <2>5. ASSUME message.name = "GetRPCMethodsResponse"
        PROVE  asWritten
    <3>1. parsed = ParseGetRPCMethodsResponse(Generate(message).rpc)
      BY <2>2, <2>5 DEF Parse
    <3>2. IsList(message.fields.MethodList)
      BY <2>1, <2>5 DEF Readable, CwmpMessageParsers
    <3>3. parsed = Message(message.name, [List |-> message.fields.MethodList])
      BY <2>5, <3>1, <3>2, MethodsReadBack
    <3> QED BY <2>5, <3>3
  <2>6. \/ message.name = "Fault" \/ message.name = "GetRPCMethods"
        \/ message.name = "GetRPCMethodsResponse"
    BY <2>1 DEF Readable, message
  <2>7. asWritten
    BY <2>3, <2>4, <2>5, <2>6
  <2> QED BY <2>7 DEF OwnParserReadsBack, message, parsed
<1> QED BY <1>1, <1>2, ReplyStep, CallInvariant, PTL DEF ExchangeSpec

-----------------------------------------------------------------------------
(* Responses.                                                               *)

\* The lists of responses, parsed.
AttributesOf(elem) == ListsOf(elem, "ParameterList", parseParameterAttributeStructList)
InfosOf(elem) == ListsOf(elem, "ParameterList", parseParameterInfoStructList)
MethodsOf(elem) == ListsOf(elem, "MethodList", parseMethodList)

\* A list parses if it is an array of valid items.
LEMMA ListParses ==
  ASSUME NEW elem, IsList(elem.kids), NEW item, NEW valid, NEW items,
         items = [i \in DOMAIN elem.kids |-> items[i]]
  PROVE  ParseList(elem, item, item, valid, items).ok
            <=> /\ elem.array.of = item /\ elem.array.count = Len(elem.kids)
                /\ \A i \in DOMAIN elem.kids : elem.kids[i].name = item
                /\ valid
<1>1. DOMAIN items = DOMAIN elem.kids
  OBVIOUS
<1>2. Len(items) = Len(elem.kids)
  BY <1>1, EachLen
<1>3. OnlyKids(elem, {item}) <=> \A i \in DOMAIN elem.kids : elem.kids[i].name = item
  BY DEF OnlyKids, EachIs
<1> DEFINE fits == /\ elem.array.of = item /\ OnlyKids(elem, {item})
                   /\ valid /\ Len(items) = elem.array.count
<1>4. ParseList(elem, item, item, valid, items)
         = IF fits THEN [ok |-> TRUE, items |-> items] ELSE BadList
  BY DEF ParseList
<1>5. ParseList(elem, item, item, valid, items).ok <=> fits
  <2> HIDE DEF fits
  <2>1. CASE fits
    BY <1>4, <2>1
  <2>2. CASE ~fits
    BY <1>4, <2>2 DEF BadList
  <2> QED BY <2>1, <2>2
<1> QED BY <1>2, <1>3, <1>5

\* Each parser of a list wants an array of the items it is for: here attributes,
LEMMA AttributesParse ==
  ASSUME NEW elem, IsList(elem.kids)
  PROVE  parseParameterAttributeStructList(elem).ok <=> IsArray(elem, "ParameterAttributeStruct")
<1> DEFINE Item(kid) ==
               [Name |-> LastText(kid, "Name", ""),
                Notification |-> LastText(kid, "Notification", "0"),
                AccessList |-> AccessListOf(kid)]
           items == Each(elem.kids, Item)
           valid == EachIs(elem.kids, LAMBDA kid : AllInts(kid, {"Notification"}))
<1>1. parseParameterAttributeStructList(elem)
         = ParseList(elem, "ParameterAttributeStruct", "ParameterAttributeStruct", valid, items)
  BY DEF parseParameterAttributeStructList
<1>2. items = [i \in DOMAIN elem.kids |-> items[i]]
  <2> HIDE DEF Item
  <2> QED BY DEF Each
<1>3. ASSUME \A i \in DOMAIN elem.kids : elem.kids[i].name = "ParameterAttributeStruct"
      PROVE  valid <=> \A i \in DOMAIN elem.kids : ItemFits(elem.kids[i])
  BY <1>3 DEF EachIs, AllInts, ItemFits
<1> HIDE DEF items, valid
<1>4. parseParameterAttributeStructList(elem).ok
         <=> /\ elem.array.of = "ParameterAttributeStruct" /\ elem.array.count = Len(elem.kids)
             /\ \A i \in DOMAIN elem.kids : elem.kids[i].name = "ParameterAttributeStruct"
             /\ valid
  BY <1>1, <1>2, ListParses
<1> QED BY <1>3, <1>4 DEF IsArray

\* infos,
LEMMA InfosParse ==
  ASSUME NEW elem, IsList(elem.kids)
  PROVE  parseParameterInfoStructList(elem).ok <=> IsArray(elem, "ParameterInfoStruct")
<1> DEFINE Item(kid) ==
               [Name |-> LastText(kid, "Name", ""), Writable |-> LastText(kid, "Writable", "false")]
           items == Each(elem.kids, Item)
           valid == EachIs(elem.kids, LAMBDA kid :
                        OnlyKids(kid, {"Name", "Writable"}) /\ AllBools(kid, {"Writable"}))
<1>1. parseParameterInfoStructList(elem)
         = ParseList(elem, "ParameterInfoStruct", "ParameterInfoStruct", valid, items)
  BY DEF parseParameterInfoStructList
<1>2. items = [i \in DOMAIN elem.kids |-> items[i]]
  <2> HIDE DEF Item
  <2> QED BY DEF Each
<1>3. ASSUME \A i \in DOMAIN elem.kids : elem.kids[i].name = "ParameterInfoStruct"
      PROVE  valid <=> \A i \in DOMAIN elem.kids : ItemFits(elem.kids[i])
  BY <1>3 DEF EachIs, OnlyKids, AllBools, ItemFits
<1> HIDE DEF items, valid
<1>4. parseParameterInfoStructList(elem).ok
         <=> /\ elem.array.of = "ParameterInfoStruct" /\ elem.array.count = Len(elem.kids)
             /\ \A i \in DOMAIN elem.kids : elem.kids[i].name = "ParameterInfoStruct"
             /\ valid
  BY <1>1, <1>2, ListParses
<1> QED BY <1>3, <1>4 DEF IsArray

\* values
LEMMA ValuesParse ==
  ASSUME NEW elem, IsList(elem.kids)
  PROVE  parseParameterValueStructList(elem).ok <=> IsArray(elem, "ParameterValueStruct")
<1> DEFINE Item(kid) ==
               [Name |-> LastText(kid, "Name", NoName), Value |-> LastText(kid, "Value", "")]
           items == Each(elem.kids, Item)
           valid == EachIs(elem.kids, LAMBDA kid : OnlyKids(kid, {"Name", "Value"}))
<1>1. parseParameterValueStructList(elem)
         = ParseList(elem, "ParameterValueStruct", "ParameterValueStruct", valid, items)
  BY DEF parseParameterValueStructList
<1>2. items = [i \in DOMAIN elem.kids |-> items[i]]
  <2> HIDE DEF Item
  <2> QED BY DEF Each
<1>3. ASSUME \A i \in DOMAIN elem.kids : elem.kids[i].name = "ParameterValueStruct"
      PROVE  valid <=> \A i \in DOMAIN elem.kids : ItemFits(elem.kids[i])
  BY <1>3 DEF EachIs, OnlyKids, ItemFits
<1> HIDE DEF items, valid
<1>4. parseParameterValueStructList(elem).ok
         <=> /\ elem.array.of = "ParameterValueStruct" /\ elem.array.count = Len(elem.kids)
             /\ \A i \in DOMAIN elem.kids : elem.kids[i].name = "ParameterValueStruct"
             /\ valid
  BY <1>1, <1>2, ListParses
<1> QED BY <1>3, <1>4 DEF IsArray

\* and methods.
LEMMA MethodsParse ==
  ASSUME NEW elem, IsList(elem.kids)
  PROVE  parseMethodList(elem).ok <=> IsArray(elem, "string")
<1> DEFINE Item(kid) == kid.text
           items == Each(elem.kids, Item)
           valid == TRUE
<1>1. parseMethodList(elem)
         = ParseList(elem, "string", "string", valid, items)
  BY DEF parseMethodList
<1>2. items = [i \in DOMAIN elem.kids |-> items[i]]
  <2> HIDE DEF Item
  <2> QED BY DEF Each
<1>3. ASSUME \A i \in DOMAIN elem.kids : elem.kids[i].name = "string"
      PROVE  valid <=> \A i \in DOMAIN elem.kids : ItemFits(elem.kids[i])
  BY <1>3 DEF ItemFits
<1> HIDE DEF items, valid
<1>4. parseMethodList(elem).ok
         <=> /\ elem.array.of = "string" /\ elem.array.count = Len(elem.kids)
             /\ \A i \in DOMAIN elem.kids : elem.kids[i].name = "string"
             /\ valid
  BY <1>1, <1>2, ListParses
<1> QED BY <1>3, <1>4 DEF IsArray

\* The list a loop over the children of a name leaves, if all of them parse.
Collected(list, kids, name, parsed, sets, zero) ==
    /\ DOMAIN sets = DOMAIN kids
    /\ \A i \in DOMAIN kids : sets[i] = IF kids[i].name = name THEN {parsed[i]} ELSE {}
    /\ list = IF \A i \in DOMAIN kids : kids[i].name = name => parsed[i].ok
              THEN ValueOr(LastFound(sets), zero) ELSE BadList

ParsedAs(kids, parsed, item) == \A i \in DOMAIN kids : parsed[i].ok <=> IsArray(kids[i], item)

NamedAs(kids, name, item) ==
    \A i \in DOMAIN kids : kids[i].name = name => IsArray(kids[i], item)

\* What counts is then one that did.
LEMMA LastParses ==
  ASSUME NEW kids, IsList(kids), NEW name, NEW item, NEW parsed, ParsedAs(kids, parsed, item),
         NEW zero, zero.ok, NEW sets, NEW list, Collected(list, kids, name, parsed, sets, zero)
  PROVE  list.ok <=> NamedAs(kids, name, item)
<1> DEFINE allOk == \A i \in DOMAIN kids : kids[i].name = name => parsed[i].ok
<1>1. LastOfName(kids, name, parsed, ValueOr(LastFound(sets), zero), zero)
  BY OneParsed DEF Collected
<1>2. allOk => ValueOr(LastFound(sets), zero).ok
  BY <1>1 DEF LastOfName
<1>3. list = IF allOk THEN ValueOr(LastFound(sets), zero) ELSE BadList
  BY DEF Collected
<1>4. allOk <=> NamedAs(kids, name, item)
  BY DEF ParsedAs, NamedAs
<1> HIDE DEF allOk
<1>5. list.ok <=> allOk
  BY <1>2, <1>3 DEF BadList
<1> QED BY <1>4, <1>5

\* So the lists of attributes parse exactly when all of them are such arrays,
LEMMA AttributeListsParse ==
  ASSUME NEW elem, AreElements(elem.kids)
  PROVE  AttributesOf(elem).ok <=> NamedAs(elem.kids, "ParameterList", "ParameterAttributeStruct")
<1> DEFINE zero == [ok |-> TRUE, items |-> <<>>]
           sets == Each(elem.kids, LAMBDA kid : IF kid.name = "ParameterList"
                                   THEN {parseParameterAttributeStructList(kid)} ELSE {})
           parsed == [i \in DOMAIN elem.kids |->
                         parseParameterAttributeStructList(elem.kids[i])]
<1>1. Collected(AttributesOf(elem), elem.kids, "ParameterList", parsed, sets, zero)
  BY DEF Collected, Each, AttributesOf, ListsOf, LastParsed, FoundIn, EachIs
<1>2. IsList(elem.kids) /\ \A i \in DOMAIN elem.kids : IsList(elem.kids[i].kids)
  BY DEF AreElements
<1>3. ParsedAs(elem.kids, parsed, "ParameterAttributeStruct")
  BY <1>2, AttributesParse DEF ParsedAs
<1>4. zero.ok
  OBVIOUS
<1> HIDE DEF zero, sets, parsed
<1> QED BY <1>1, <1>2, <1>3, <1>4, LastParses

\* those of infos,
LEMMA InfoListsParse ==
  ASSUME NEW elem, AreElements(elem.kids)
  PROVE  InfosOf(elem).ok <=> NamedAs(elem.kids, "ParameterList", "ParameterInfoStruct")
<1> DEFINE zero == [ok |-> TRUE, items |-> <<>>]
           sets == Each(elem.kids, LAMBDA kid : IF kid.name = "ParameterList"
                                   THEN {parseParameterInfoStructList(kid)} ELSE {})
           parsed == [i \in DOMAIN elem.kids |->
                         parseParameterInfoStructList(elem.kids[i])]
<1>1. Collected(InfosOf(elem), elem.kids, "ParameterList", parsed, sets, zero)
  BY DEF Collected, Each, InfosOf, ListsOf, LastParsed, FoundIn, EachIs
<1>2. IsList(elem.kids) /\ \A i \in DOMAIN elem.kids : IsList(elem.kids[i].kids)
  BY DEF AreElements
<1>3. ParsedAs(elem.kids, parsed, "ParameterInfoStruct")
  BY <1>2, InfosParse DEF ParsedAs
<1>4. zero.ok
  OBVIOUS
<1> HIDE DEF zero, sets, parsed
<1> QED BY <1>1, <1>2, <1>3, <1>4, LastParses

\* of values
LEMMA ValueListsParse ==
  ASSUME NEW elem, AreElements(elem.kids)
  PROVE  ParametersOf(elem).ok <=> NamedAs(elem.kids, "ParameterList", "ParameterValueStruct")
<1> DEFINE zero == [ok |-> TRUE, items |-> <<>>]
           sets == Each(elem.kids, LAMBDA kid : IF kid.name = "ParameterList"
                                   THEN {parseParameterValueStructList(kid)} ELSE {})
           parsed == [i \in DOMAIN elem.kids |->
                         parseParameterValueStructList(elem.kids[i])]
<1>1. Collected(ParametersOf(elem), elem.kids, "ParameterList", parsed, sets, zero)
  BY DEF Collected, Each, ParametersOf, ListsOf, LastParsed, FoundIn, EachIs
<1>2. IsList(elem.kids) /\ \A i \in DOMAIN elem.kids : IsList(elem.kids[i].kids)
  BY DEF AreElements
<1>3. ParsedAs(elem.kids, parsed, "ParameterValueStruct")
  BY <1>2, ValuesParse DEF ParsedAs
<1>4. zero.ok
  OBVIOUS
<1> HIDE DEF zero, sets, parsed
<1> QED BY <1>1, <1>2, <1>3, <1>4, LastParses

\* and of methods.
LEMMA MethodListsParse ==
  ASSUME NEW elem, AreElements(elem.kids)
  PROVE  MethodsOf(elem).ok <=> NamedAs(elem.kids, "MethodList", "string")
<1> DEFINE zero == [ok |-> TRUE, items |-> <<>>]
           sets == Each(elem.kids, LAMBDA kid : IF kid.name = "MethodList"
                                   THEN {parseMethodList(kid)} ELSE {})
           parsed == [i \in DOMAIN elem.kids |->
                         parseMethodList(elem.kids[i])]
<1>1. Collected(MethodsOf(elem), elem.kids, "MethodList", parsed, sets, zero)
  BY DEF Collected, Each, MethodsOf, ListsOf, LastParsed, FoundIn, EachIs
<1>2. IsList(elem.kids) /\ \A i \in DOMAIN elem.kids : IsList(elem.kids[i].kids)
  BY DEF AreElements
<1>3. ParsedAs(elem.kids, parsed, "string")
  BY <1>2, MethodsParse DEF ParsedAs
<1>4. zero.ok
  OBVIOUS
<1> HIDE DEF zero, sets, parsed
<1> QED BY <1>1, <1>2, <1>3, <1>4, LastParses

\* A response parses exactly when it is well-formed.
LEMMA ResponseParses ==
  ASSUME NEW name \in CwmpMessageParsers \ {"Inform", "GetRPCMethods"},
         NEW kids, AreElements(kids)
  PROVE  Parse(name, Tree(name, kids)).error = "none" <=> WellFormed(name, kids)
<1> DEFINE elem == Tree(name, kids)
           parsed == Parse(name, elem)
           goal == parsed.error = "none" <=> WellFormed(name, kids)
<1>1. elem.kids = kids
  BY DEF Tree
<1> HIDE DEF elem
<1>2. \A n, list : ListMessage(n, list).error = "none" <=> list.ok
  BY DEF ListMessage, Message, Invalid
<1>3. ASSUME name = "AddObjectResponse"
      PROVE  goal
  <2>1. parsed.error = "none" <=> AllInts(elem, {"InstanceNumber", "Status"})
    BY <1>3 DEF Parse, ParseAddObjectResponse, Message, Invalid
  <2>2. WellFormed(name, kids) <=> AllInts(elem, {"InstanceNumber", "Status"})
    BY <1>1, <1>3 DEF WellFormed, ResponseKidFits, AllInts, EachIs
  <2> QED BY <2>1, <2>2
<1>4. ASSUME name \in {"DeleteObjectResponse", "SetParameterValuesResponse"}
      PROVE  goal
  <2>1. parsed.error = "none" <=> AllInts(elem, {"Status"})
    BY <1>4 DEF Parse, ParseDeleteObjectResponse, ParseSetParameterValuesResponse,
                Message, Invalid
  <2>2. WellFormed(name, kids) <=> AllInts(elem, {"Status"})
    BY <1>1, <1>4 DEF WellFormed, ResponseKidFits, AllInts, EachIs
  <2> QED BY <2>1, <2>2
<1>5. ASSUME name = "Fault"
      PROVE  goal
  <2>1. parsed = ParseFault(elem)
    BY <1>5 DEF Parse
  <2>2. ParseFault(elem).error = "none" <=> FaultCodesAreInts(elem)
    BY DEF ParseFault, Message, OtherError
  <2>3. WellFormed(name, kids) <=> FaultCodesAreInts(elem)
    BY <1>1, <1>5 DEF WellFormed, ResponseKidFits, FaultFits, FaultCodesAreInts, AllInts, EachIs
  <2> QED BY <2>1, <2>2, <2>3
<1>6. ASSUME name \in {"RebootResponse", "SetParameterAttributesResponse"}
      PROVE  goal
  <2>1. parsed.error = "none"
    BY <1>6 DEF Parse, ParseRebootResponse, ParseSetParameterAttributesResponse, Message
  <2>2. WellFormed(name, kids)
    BY <1>6 DEF WellFormed, ResponseKidFits
  <2> QED BY <2>1, <2>2
<1>7. ASSUME name = "GetParameterAttributesResponse"
      PROVE  goal
  <2>1. parsed = ListMessage(name, AttributesOf(elem))
    BY <1>7 DEF Parse, ParseGetParameterAttributesResponse, AttributesOf
  <2>2. WellFormed(name, kids) <=> AttributesOf(elem).ok
    BY <1>1, <1>7, AttributeListsParse DEF WellFormed, ResponseKidFits, NamedAs
  <2> QED BY <1>2, <2>1, <2>2
<1>8. ASSUME name = "GetParameterNamesResponse"
      PROVE  goal
  <2>1. parsed = ListMessage(name, InfosOf(elem))
    BY <1>8 DEF Parse, ParseGetParameterNamesResponse, InfosOf
  <2>2. WellFormed(name, kids) <=> InfosOf(elem).ok
    BY <1>1, <1>8, InfoListsParse DEF WellFormed, ResponseKidFits, NamedAs
  <2> QED BY <1>2, <2>1, <2>2
<1>9. ASSUME name = "GetParameterValuesResponse"
      PROVE  goal
  <2>1. parsed = ListMessage(name, ParametersOf(elem))
    BY <1>9 DEF Parse, ParseGetParameterValuesResponse, ParametersOf
  <2>2. WellFormed(name, kids) <=> ParametersOf(elem).ok
    BY <1>1, <1>9, ValueListsParse DEF WellFormed, ResponseKidFits, NamedAs
  <2> QED BY <1>2, <2>1, <2>2
<1>10. ASSUME name = "GetRPCMethodsResponse"
       PROVE  goal
  <2>1. parsed = ListMessage(name, MethodsOf(elem))
    BY <1>10 DEF Parse, ParseGetRPCMethodsResponse, MethodsOf
  <2>2. WellFormed(name, kids) <=> MethodsOf(elem).ok
    BY <1>1, <1>10, MethodListsParse DEF WellFormed, ResponseKidFits, NamedAs
  <2> QED BY <1>2, <2>1, <2>2
<1>11. goal
  <2> HIDE DEF goal
  <2> QED BY <1>3, <1>4, <1>5, <1>6, <1>7, <1>8, <1>9, <1>10 DEF CwmpMessageParsers
<1> QED BY <1>11 DEF elem

\* What settled an RPC was well-formed and had its id; what was refused was not.
SettledInv ==
    /\ stage \in {"incoming", "informed", "queued", "sent", "refused", "settled", "closed"}
    /\ OnlyGoodResponsesSettle

\* So do those of a CPE, in every version.
LEMMA ReceivedParses ==
  ASSUME NEW name \in ResponseNames, NEW kids \in GoodResponses[name] \cup BadResponses[name]
  PROVE  parseCwmpMessageViaMap(version, name, Tree(name, kids)).error = "none"
            <=> WellFormed(name, kids)
<1>1. name \in CwmpMessageParsers \ {"Inform", "GetRPCMethods"} /\ AreElements(kids)
  BY ResponsesAssumption DEF ResponseNames
<1>2. parseCwmpMessageViaMap(version, name, Tree(name, kids)) = Parse(name, Tree(name, kids))
  BY <1>1 DEF parseCwmpMessageViaMap, defaultCwmpMessageParsers
<1> QED BY <1>1, <1>2, ResponseParses

\* Only ReceiveResponse settles an RPC or refuses a response.
LEMMA SettledStep == SettledInv /\ [ExchangeNext]_exchangeVars => SettledInv'
<1> SUFFICES ASSUME SettledInv, [ExchangeNext]_exchangeVars
             PROVE  SettledInv'
  OBVIOUS
<1>1. CASE TakePost \/ ReceiveRequest \/ UNCHANGED exchangeVars
  <2>1. UNCHANGED <<stage, incoming>>
    BY <1>1 DEF TakePost, ReceiveRequest, exchangeVars, sessionVars
  <2> QED BY <2>1 DEF SettledInv, OnlyGoodResponsesSettle
<1>2. CASE AnswerWithoutSession \/ RefuseInform \/ FailInform \/ AcceptInform \/ QueueCall
           \/ FetchRpc
  <2>1. stage' \in {"closed", "informed", "queued", "sent"}
    BY <1>2 DEF AnswerWithoutSession, RefuseInform, FailInform, AcceptInform, ReadInform,
                QueueCall, FetchRpc
  <2> QED BY <2>1 DEF SettledInv, OnlyGoodResponsesSettle
<1>3. CASE ReceiveResponse
  <2>1. PICK name, headerKids, kids :
           LET id == ParseCPEHeader(headerKids).ID
               parsed == parseCwmpMessageViaMap(version, name, Tree(name, kids))
           IN  /\ name \in ResponseNames /\ kids \in GoodResponses[name] \cup BadResponses[name]
               /\ \/ /\ parsed.error # "none" /\ stage' = "refused"
                     /\ incoming' = [name |-> name, kids |-> kids]
                  \/ /\ parsed.error = "none" /\ id = RpcId /\ stage' = "settled"
                     /\ incoming' = [name |-> name, kids |-> kids, header |-> headerKids]
                  \/ stage' = "queued"
    BY <1>3 DEF ReceiveResponse
  <2>2. parseCwmpMessageViaMap(version, name, Tree(name, kids)).error = "none"
           <=> WellFormed(name, kids)
    BY <2>1, ReceivedParses
  <2>3. ParseCPEHeader(headerKids).ID = LastText(Tree("Header", headerKids), "ID", "")
    BY DEF ParseCPEHeader
  <2>4. CASE stage' = "queued"
    BY <2>4 DEF SettledInv, OnlyGoodResponsesSettle
  <2>5. CASE ~WellFormed(name, kids) /\ stage' = "refused"
             /\ incoming' = [name |-> name, kids |-> kids]
    <3>1. incoming'.name = name /\ incoming'.kids = kids
      BY <2>5
    <3> QED BY <2>5, <3>1 DEF SettledInv, OnlyGoodResponsesSettle
  <2>6. CASE /\ WellFormed(name, kids) /\ ParseCPEHeader(headerKids).ID = RpcId
             /\ stage' = "settled"
             /\ incoming' = [name |-> name, kids |-> kids, header |-> headerKids]
    <3>1. /\ incoming'.name = name /\ incoming'.kids = kids
          /\ incoming'.header = headerKids
      BY <2>6
    <3> QED BY <2>3, <2>6, <3>1 DEF SettledInv, OnlyGoodResponsesSettle
  <2> QED BY <2>1, <2>2, <2>4, <2>5, <2>6
<1> QED BY <1>1, <1>2, <1>3 DEF ExchangeNext

\* Whatever responses come, in whatever order and however often the RPC is sent
\* again: it is settled by a well-formed response with its id, and only a response
\* that is not well-formed is refused.
THEOREM GoodResponsesSettle == ExchangeSpec => []OnlyGoodResponsesSettle
<1>1. ExchangeInit => SettledInv
  BY DEF ExchangeInit, SettledInv, OnlyGoodResponsesSettle
<1>2. SettledInv => OnlyGoodResponsesSettle
  BY DEF SettledInv
<1> QED BY <1>1, <1>2, SettledStep, PTL DEF ExchangeSpec
-----------------------------------------------------------------------------
(* Types. *)

\* A device has a name once it was informed of.
LEMMA DeviceNamed == DeviceInv => (device.device_id # <<>> <=> stage = "informed")
<1> SUFFICES ASSUME DeviceInv
             PROVE  device.device_id # <<>> <=> stage = "informed"
  OBVIOUS
<1>1. CASE stage = "informed"
  <2> DEFINE id == ParsedInform(incoming.kids).fields.DeviceId
  <2>1. id \in DeviceIdStruct /\ id.OUI # <<>>
    BY <1>1, ParsedDeviceId DEF DeviceInv
  <2>0. device.device_id = generateDeviceIdString(id)
    BY <1>1 DEF DeviceInv, DeviceRow
  <2> HIDE DEF id
  <2>2. device.device_id = id.OUI \o id.ProductClass \o id.SerialNumber
    BY <2>0 DEF generateDeviceIdString
  <2>3. /\ id.OUI \in Seq(STRING) /\ id.ProductClass \in Seq(STRING)
        /\ id.SerialNumber \in Seq(STRING)
    BY <2>1 DEF DeviceIdStruct
  <2>4. id.OUI \o id.ProductClass \in Seq(STRING) /\ id.OUI \o id.ProductClass # <<>>
    BY <2>1, <2>3, ConcatEqualIffEmpty, ConcatProperties
  <2>5. device.device_id # <<>>
    BY <2>2, <2>3, <2>4, ConcatEqualIffEmpty
  <2> QED BY <1>1, <2>5
<1>2. CASE stage # "informed"
  BY <1>2 DEF DeviceInv, NoDevice
<1> QED BY <1>1, <1>2

\* The variables of an exchange have their types; a session has a device as long
\* as it has its Inform, and a row names the call it came from.
THEOREM ExchangeTypeCorrect == ExchangeSpec => []ExchangeTypeOK
<1>1. EnvelopeInv /\ VersionInv => IncomingTypeOK
  BY DEF EnvelopeInv, DocumentFits, VersionInv, IncomingTypeOK
<1>2. CallInv => (stage \in {"queued", "sent", "refused"} =>
                     call \in ApiCalls /\ row.name = call.rpc)
  BY DEF CallInv
<1>3. IncomingTypeOK /\ DeviceInv /\ CallInv => ExchangeTypeOK
  BY <1>2, DeviceNamed DEF DeviceInv, CallInv, ExchangeTypeOK
<1> QED BY <1>1, <1>3, ParserInvariant, VersionInvariant, DeviceInvariant, CallInvariant, PTL

=============================================================================
