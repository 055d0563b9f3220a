-------------------------- MODULE InboxFileProofs ---------------------------
(***************************************************************************)
(* What TLAPS proves of module InboxFile, for any number of threads, any    *)
(* cap, and any errors, deaths and cancelled requests.                      *)
(***************************************************************************)
EXTENDS InboxFile, SequenceTheorems, FiniteSetTheorems, NaturalsInduction,
        WellFoundedInduction, TLAPS

-----------------------------------------------------------------------------
(* The inductive invariant.                                                 *)

(* What the types leave out: an open last line is a line, the quarantine    *)
(* only gets lines that do not parse, an append has an id of its own.       *)
Formed ==
  /\ \A i \in Inode : data[i].open => data[i].lines # <<>>
  /\ \A th \in Thread :
       /\ run[th].junk \subseteq -MaxMsgs .. -1
       /\ run[th].pc = "write" \/ run[th].op = "append" => run[th].id \in 1 .. posted

(* The file as a reader sees it.                                            *)
Text == Lines(file)
OpenEnd == file # 0 /\ data[file].open

Solo == \A a, b \in Thread : run[a].pc # "idle" /\ run[b].pc # "idle" => a = b

Apart == file = tmp => file = 0

(* What a thread has in its hands, at each of its steps.                    *)
WritesAt(r) ==
  /\ r.pc = "idle" <=> r.op = "none"
  /\ r.pc \in {"write", "trim"} => r.op = "append"
  /\ r.pc \in {"scan", "quarantine"} => r.op = "ack"
  /\ r.op = "append" => r.id = posted /\ posted \notin stored /\ (r.pc # "write" => ~OpenEnd)
  /\ r.op = "ack" => r.id \in 1 .. cut

HoldsAt(r) ==
  /\ r.op = "append" /\ r.pc \in {"open", "fill", "replace"} =>
       Cap > 0 /\ Len(Text) > Cap /\ r.buf = LastOf(Text, Cap)
  /\ r.op = "ack" /\ r.pc # "scan" => r.buf = Survivors(Text, r.id)
  /\ r.pc = "quarantine" => r.junk = Junk(Text)
  /\ r.op = "ack" /\ r.pc \in {"open", "fill", "replace"} => Junk(Text) \subseteq quar
  /\ r.pc = "fill" => tmp # 0 /\ r.ino = tmp /\ data[tmp] = Blank
  /\ r.pc = "replace" => tmp # 0 /\ data[tmp].lines = r.buf /\ ~data[tmp].open

Working == \A th \in Thread : WritesAt(run[th]) /\ HoldsAt(run[th])

(* The newest message of which something can be in the file.                *)
Sent == IF \E th \in Thread : run[th].pc = "write" THEN posted - 1 ELSE posted

OrderIn(s) == \A i, j \in 1 .. Len(s) : i < j /\ s[i] > 0 /\ s[j] > 0 => s[i] < s[j]

BoundIn(s, n) == \A i \in 1 .. Len(s) : s[i] <= n

Ordered == OrderIn(Text) /\ BoundIn(Text, Sent)

(* Whatever is glued to the last line, it is no record that was stored.     *)
OpenLast == OpenEnd => Text[Len(Text)] \notin stored

(* What is stored, or will be unless something goes wrong.                  *)
Pending == {run[th].id : th \in {o \in Thread : run[o].op = "append" /\ run[o].pc # "write"}}

(* How many lines the messages after m, up to n, can have taken.            *)
Behind(m, n) == n - m + Cardinality(Wide \cap (m + 1 .. n))

Within(s, m, d) == \E i \in 1 .. Len(s) : s[i] = m /\ Len(s) - i <= d

(* A record that is due is in the file, and so near its end that the cap    *)
(* does not reach it.                                                       *)
Close == \A m \in (stored \cup Pending) \ (Wide \cup glued) :
           Due(m) => Within(Text, m, Behind(m, Sent))

Calm == Solo /\ Apart /\ Working /\ Ordered /\ OpenLast /\ Close

FileInv == TypeOK /\ Formed /\ (~overlap => Calm)

-----------------------------------------------------------------------------
(* Sequences of lines.                                                      *)

LEMMA Constants ==
  /\ MaxMsgs \in Nat /\ MaxErrors \in Nat /\ MaxCrashes \in Nat /\ MaxTimeouts \in Nat
  /\ Cap \in Nat /\ Line \subseteq Int
BY FileAssumption DEF FileAssumption, Line

LEMMA LeastNumber ==
  ASSUME NEW S, S \subseteq Nat, S # {}
  PROVE  \E i \in S : \A j \in S : i <= j
<1> DEFINE R == OpToRel(<, Nat)
<1>1. IsWellFoundedOn(R, Nat)
  BY NatLessThanWellFounded
<1>2. PICK i \in S : \A j \in S : ~ (<<j, i>> \in R)
  BY <1>1, WFMin
<1>3. ASSUME NEW j \in S
      PROVE  i <= j
  <2>1. j < i => <<j, i>> \in R
    BY DEF OpToRel
  <2> HIDE DEF R
  <2> QED
    BY <1>2, <2>1
<1> QED
  BY <1>3

LEMMA SeqFacts ==
  ASSUME NEW S, NEW s \in Seq(S)
  PROVE  /\ Len(s) \in Nat /\ DOMAIN s = 1 .. Len(s)
         /\ \A i \in 1 .. Len(s) : s[i] \in S
BY LenProperties, ElementOfSeq

LEMMA AppendFacts ==
  ASSUME NEW S, NEW s \in Seq(S), NEW x \in S
  PROVE  /\ Append(s, x) \in Seq(S)
         /\ Len(Append(s, x)) = Len(s) + 1 /\ Len(s) \in Nat
         /\ \A i \in 1 .. Len(s) : Append(s, x)[i] = s[i]
         /\ Append(s, x)[Len(s) + 1] = x
BY AppendProperties, LenProperties

(* The loop of _ack_sync, written as an equation: it has a solution.        *)
KeepStep(s, last, f, n) ==
  IF n = 0 THEN <<>>
  ELSE IF s[n] > last THEN Append(f[n - 1], s[n])
  ELSE f[n - 1]

Keeps(s, last, f, m) == f = [n \in 0 .. m |-> KeepStep(s, last, f, n)]

LEMMA KeepExists ==
  ASSUME NEW s, NEW last, NEW N \in Nat
  PROVE  \E f : Keeps(s, last, f, N)
<1> DEFINE bad == {n \in 0 .. N : ~ \E f : Keeps(s, last, f, n)}
<1>1. SUFFICES ASSUME bad # {} PROVE FALSE
  OBVIOUS
<1>2. bad \subseteq Nat
  OBVIOUS
<1>3. PICK m \in bad : \A j \in bad : m <= j
  BY <1>1, <1>2, LeastNumber
<1>4. m # 0
  <2> DEFINE f == [n \in 0 .. 0 |-> <<>>]
  <2>1. f = [n \in 0 .. 0 |-> KeepStep(s, last, f, n)]
    BY DEF KeepStep
  <2>2. Keeps(s, last, f, 0)
    BY <2>1 DEF Keeps
  <2> QED
    BY <2>2
<1>5. m - 1 \in 0 .. N /\ m - 1 \notin bad /\ m \in 0 .. N
  BY <1>3, <1>4
<1>6. PICK f : Keeps(s, last, f, m - 1)
  BY <1>5
<1> DEFINE g == [n \in 0 .. m |-> IF n = m THEN KeepStep(s, last, f, m) ELSE f[n]]
<1>7. ASSUME NEW n \in 0 .. m PROVE g[n] = KeepStep(s, last, g, n)
  <2>1. CASE n = m
    <3>1. g[m] = KeepStep(s, last, f, m) /\ g[m - 1] = f[m - 1]
      BY <1>4, <1>5
    <3> QED
      BY <2>1, <3>1 DEF KeepStep
  <2>2. CASE n # m
    <3>1. n \in 0 .. m - 1 /\ g[n] = f[n] /\ (n # 0 => g[n - 1] = f[n - 1])
      BY <1>5, <2>2
    <3>2. f[n] = KeepStep(s, last, f, n)
      BY <1>6, <3>1 DEF Keeps
    <3> QED
      BY <3>1, <3>2 DEF KeepStep
  <2> QED
    BY <2>1, <2>2
<1>8. Keeps(s, last, g, m)
  <2>1. g = [n \in 0 .. m |-> g[n]]
    OBVIOUS
  <2> HIDE DEF g
  <2>2. [n \in 0 .. m |-> g[n]] = [n \in 0 .. m |-> KeepStep(s, last, g, n)]
    BY <1>7
  <2> QED
    BY <2>1, <2>2 DEF Keeps
<1> QED
  BY <1>3, <1>8


(* The records an ack leaves: those after last_id, in their order, none of  *)
(* them further from the end than it was.                                   *)
KeptOf(k, s, last, n) ==
  /\ k \in Seq(Line) /\ Len(k) <= n
  /\ \A a \in 1 .. Len(k) : k[a] > last /\ \E i \in 1 .. n : s[i] = k[a]
  /\ \A i \in 1 .. n : s[i] > last => Within(k, s[i], n - i)
  /\ OrderIn(s) => OrderIn(k)

LEMMA KeptNext ==
  ASSUME NEW s \in Seq(Line), NEW last \in Nat, NEW n \in 1 .. Len(s),
         NEW k, KeptOf(k, s, last, n - 1)
  PROVE  KeptOf(IF s[n] > last THEN Append(k, s[n]) ELSE k, s, last, n)
<1>0. /\ Len(s) \in Nat /\ \A i \in 1 .. Len(s) : s[i] \in Line /\ s[i] \in Int
      /\ n \in Nat /\ n - 1 \in Nat /\ k \in Seq(Line)
      /\ \A i \in 1 .. n : i \in 1 .. n - 1 \/ i = n
  <2>1. Len(s) \in Nat /\ \A i \in 1 .. Len(s) : s[i] \in Line
    BY SeqFacts
  <2>2. \A i \in 1 .. Len(s) : s[i] \in Int
    BY <2>1, Constants
  <2> QED
    BY <2>1, <2>2 DEF KeptOf
<1>1. /\ Len(k) \in Nat /\ Len(k) <= n - 1
      /\ \A a \in 1 .. Len(k) : k[a] \in Line /\ k[a] \in Int
      /\ \A a \in 1 .. Len(k) : k[a] > last /\ \E i \in 1 .. n - 1 : s[i] = k[a]
      /\ \A i \in 1 .. n - 1 : s[i] > last => Within(k, s[i], n - 1 - i)
      /\ OrderIn(s) => OrderIn(k)
  BY <1>0, Constants, SeqFacts DEF KeptOf
<1>2. CASE ~ (s[n] > last)
  <2>1. ASSUME NEW i \in 1 .. n, s[i] > last PROVE Within(k, s[i], n - i)
    <3>1. i \in 1 .. n - 1
      BY <1>0, <1>2, <2>1
    <3>2. PICK a \in 1 .. Len(k) : k[a] = s[i] /\ Len(k) - a <= n - 1 - i
      BY <1>1, <2>1, <3>1 DEF Within
    <3>3. Len(k) - a <= n - i
      BY <1>0, <1>1, <3>1, <3>2
    <3> QED
      BY <3>2, <3>3 DEF Within
  <2> QED
    BY <1>0, <1>1, <1>2, <2>1 DEF KeptOf
<1>3. CASE s[n] > last
  <2> DEFINE t == Append(k, s[n])
  <2>1. /\ t \in Seq(Line) /\ Len(t) = Len(k) + 1
        /\ \A a \in 1 .. Len(k) : t[a] = k[a]
        /\ t[Len(k) + 1] = s[n]
    BY <1>0, <1>1, AppendFacts
  <2> HIDE DEF t
  <2>2. \A a \in 1 .. Len(t) : a \in 1 .. Len(k) \/ a = Len(t)
    BY <1>1, <2>1
  <2>3. ASSUME NEW a \in 1 .. Len(t) PROVE t[a] > last /\ \E i \in 1 .. n : s[i] = t[a]
    <3>1. CASE a \in 1 .. Len(k)
      BY <1>0, <1>1, <2>1, <3>1
    <3>2. CASE a = Len(t)
      BY <1>0, <1>3, <2>1, <3>2
    <3> QED
      BY <2>2, <3>1, <3>2
  <2>4. ASSUME NEW i \in 1 .. n, s[i] > last PROVE Within(t, s[i], n - i)
    <3>1. CASE i = n
      BY <1>0, <1>1, <2>1, <3>1 DEF Within
    <3>2. CASE i \in 1 .. n - 1
      <4>1. PICK a \in 1 .. Len(k) : k[a] = s[i] /\ Len(k) - a <= n - 1 - i
        BY <1>1, <2>4, <3>2 DEF Within
      <4>2. a \in 1 .. Len(t) /\ t[a] = s[i] /\ Len(t) - a <= n - i
        BY <1>0, <1>1, <2>1, <3>2, <4>1
      <4> QED
        BY <4>2 DEF Within
    <3> QED
      BY <1>0, <3>1, <3>2
  <2>5. ASSUME OrderIn(s) PROVE OrderIn(t)
    <3>1. SUFFICES ASSUME NEW a \in 1 .. Len(t), NEW b \in 1 .. Len(t),
                          a < b, t[a] > 0, t[b] > 0
                   PROVE  t[a] < t[b]
      BY DEF OrderIn
    <3>2. a \in 1 .. Len(k)
      BY <1>1, <2>1, <2>2, <3>1
    <3>3. CASE b \in 1 .. Len(k)
      BY <1>1, <2>1, <2>5, <3>1, <3>2, <3>3 DEF OrderIn
    <3>4. CASE b = Len(t)
      <4>1. PICK i \in 1 .. n - 1 : s[i] = k[a]
        BY <1>1, <3>2
      <4>2. i \in 1 .. Len(s) /\ n \in 1 .. Len(s) /\ i < n /\ s[i] > 0 /\ s[n] > 0
        BY <1>0, <1>1, <2>1, <3>1, <3>2, <3>4, <4>1
      <4>3. s[i] < s[n]
        BY <2>5, <4>2 DEF OrderIn
      <4> QED
        BY <2>1, <3>2, <3>4, <4>1, <4>3
    <3> QED
      BY <2>2, <3>3, <3>4
  <2>6. Len(t) <= n
    BY <1>0, <1>1, <2>1
  <2>7. KeptOf(t, s, last, n)
    BY <2>1, <2>3, <2>4, <2>5, <2>6 DEF KeptOf
  <2> QED
    BY <1>3, <2>7 DEF t
<1> QED
  BY <1>2, <1>3

LEMMA SurvivorsKept ==
  ASSUME NEW s \in Seq(Line), NEW last \in Nat
  PROVE  KeptOf(Survivors(s, last), s, last, Len(s))
<1> DEFINE N == Len(s)
           step(f, n) == IF n = 0 THEN <<>>
                         ELSE IF s[n] > last THEN Append(f[n - 1], s[n])
                         ELSE f[n - 1]
           keep == CHOOSE f : f = [n \in 0 .. N |-> step(f, n)]
<1>1. N \in Nat
  BY SeqFacts
<1>2. Survivors(s, last) = keep[N]
  BY DEF Survivors
<1>3. keep = [n \in 0 .. N |-> step(keep, n)]
  <2>1. PICK f : Keeps(s, last, f, N)
    BY <1>1, KeepExists
  <2>2. f = [n \in 0 .. N |-> step(f, n)]
    BY <2>1 DEF Keeps, KeepStep
  <2> HIDE DEF step
  <2> QED
    BY <2>2
<1> HIDE DEF keep, N
<1>4. \A n \in 0 .. N : keep[n] = step(keep, n)
  BY <1>3
<1> DEFINE bad == {n \in 0 .. N : ~ KeptOf(keep[n], s, last, n)}
<1>5. bad = {}
  <2>1. SUFFICES ASSUME bad # {} PROVE FALSE
    OBVIOUS
  <2>2. bad \subseteq Nat
    OBVIOUS
  <2>3. PICK m \in bad : \A j \in bad : m <= j
    BY <2>1, <2>2, LeastNumber
  <2>4. m # 0
    <3>1. keep[0] = <<>>
      BY <1>1, <1>4
    <3>2. Len(<<>>) = 0 /\ <<>> \in Seq(Line)
      BY EmptySeq
    <3>3. KeptOf(<<>>, s, last, 0)
      BY <3>2 DEF KeptOf, OrderIn
    <3> QED
      BY <2>3, <3>1, <3>3
  <2>5. m \in 1 .. N /\ m - 1 \in 0 .. N /\ m - 1 \notin bad
    BY <1>1, <2>3, <2>4
  <2>6. KeptOf(keep[m - 1], s, last, m - 1)
    BY <2>5
  <2>7. keep[m] = IF s[m] > last THEN Append(keep[m - 1], s[m]) ELSE keep[m - 1]
    BY <1>1, <1>4, <2>5
  <2>8. KeptOf(keep[m], s, last, m)
    BY <2>5, <2>6, <2>7, KeptNext DEF N
  <2> QED
    BY <2>3, <2>8
<1>6. N \in 0 .. N
  BY <1>1
<1> QED
  BY <1>2, <1>5, <1>6 DEF N


LEMMA LastOfFacts ==
  ASSUME NEW s \in Seq(Line), NEW n \in Nat, n > 0, n <= Len(s)
  PROVE  /\ LastOf(s, n) \in Seq(Line) /\ Len(LastOf(s, n)) = n
         /\ \A i \in 1 .. n : LastOf(s, n)[i] = s[Len(s) - n + i]
<1>1. Len(s) \in Nat /\ \A i \in 1 .. Len(s) : s[i] \in Line
  BY SeqFacts
<1> DEFINE a == Len(s) - n + 1
           b == Len(s)
<1>2. a \in Int /\ b \in Int /\ \A i \in a .. b : s[i] \in Line
  BY <1>1
<1>3. /\ b - a + 1 = n /\ a <= b
      /\ \A i \in 1 .. n : a + i - 1 = Len(s) - n + i
  BY <1>1
<1> HIDE DEF a, b
<1>4. /\ SubSeq(s, a, b) \in Seq(Line)
      /\ Len(SubSeq(s, a, b)) = IF a <= b THEN b - a + 1 ELSE 0
      /\ \A i \in 1 .. b - a + 1 : SubSeq(s, a, b)[i] = s[a + i - 1]
  BY <1>2, SubSeqProperties
<1> QED
  BY <1>3, <1>4 DEF LastOf, a, b

LEMMA OverlayFacts ==
  ASSUME NEW L \in Seq(Line), NEW s \in Seq(Line)
  PROVE  /\ Overlay(L, s) \in Seq(Line)
         /\ s # <<>> => Overlay(L, s) # <<>>
         /\ s = <<>> => Overlay(L, s) = L
<1>1. /\ Len(L) \in Nat /\ Len(s) \in Nat /\ \A i \in 1 .. Len(s) : s[i] \in Line
  BY SeqFacts
<1> DEFINE a == Len(L) + 1
           b == Len(s)
           t == SubSeq(s, a, b)
<1>2. a \in Int /\ b \in Int /\ (\A i \in a .. b : s[i] \in Line)
      /\ b - a + 1 = Len(s) - Len(L)
  BY <1>1
<1> HIDE DEF a, b
<1>3. t \in Seq(Line) /\ Len(t) = IF a <= b THEN b - a + 1 ELSE 0
  BY <1>2, SubSeqProperties
<1>4. Overlay(L, s) = L \o t
  BY DEF Overlay, a, b
<1> HIDE DEF t
<1>5. L \o t \in Seq(Line) /\ Len(L \o t) = Len(L) + Len(t)
  BY <1>3, ConcatProperties
<1>6. s # <<>> => Len(s) > 0
  BY <1>1, EmptySeq
<1>7. s # <<>> => Len(L \o t) > 0
  <2>1. SUFFICES ASSUME s # <<>> PROVE Len(L \o t) > 0
    OBVIOUS
  <2>2. Len(s) > 0
    BY <1>6, <2>1
  <2>3. CASE a <= b
    <3>1. Len(t) = b - a + 1
      BY <1>3, <2>3
    <3>2. Len(t) = Len(s) - Len(L)
      BY <1>2, <3>1
    <3> QED
      BY <1>1, <1>5, <2>2, <3>2
  <2>4. CASE ~(a <= b)
    <3>1. Len(t) = 0
      BY <1>3, <2>4
    <3>2. Len(L) + 1 > Len(s)
      BY <1>1, <2>4 DEF a, b
    <3> QED
      BY <1>1, <1>5, <2>2, <3>1, <3>2
  <2> QED
    BY <2>3, <2>4
<1>8. s = <<>> => t = <<>>
  <2>1. s = <<>> => Len(s) = 0
    BY EmptySeq
  <2>2. s = <<>> => Len(t) = 0
    BY <1>1, <1>3, <2>1 DEF a, b
  <2> QED
    BY <1>3, <2>2, EmptySeq
<1>9. L \o <<>> = L
  BY ConcatEmptySeq
<1>10. L \o t # <<>> \/ Len(L \o t) = 0
  BY EmptySeq
<1> QED
  BY <1>4, <1>5, <1>6, <1>7, <1>8, <1>9, <1>10

(* What a write can put into the file.                                      *)
Piece(m, L) == L \in {<<m>>, <<-m>>, <<-m, -m>>}

LEMMA PieceFacts ==
  ASSUME NEW m \in 1 .. MaxMsgs, NEW L, Piece(m, L)
  PROVE  /\ L \in Seq(Line) /\ L # <<>>
         /\ Len(L) \in {1, 2}
         /\ L[1] \in {m, -m} /\ (Len(L) = 2 => L[1] = -m /\ L[2] = -m)
<1>1. m \in Line /\ -m \in Line
  BY Constants DEF Line
<1>2. CASE L = <<m>>
  BY <1>1, <1>2
<1>3. CASE L = <<-m>>
  BY <1>1, <1>3
<1>4. CASE L = <<-m, -m>>
  BY <1>1, <1>4
<1> QED
  BY <1>2, <1>3, <1>4 DEF Piece

LEMMA WrittenFacts ==
  ASSUME NEW m \in 1 .. MaxMsgs, NEW L \in {Written(m)} \cup Torn(m)
  PROVE  /\ Piece(m, L)
         /\ Len(L) <= IF m \in Wide THEN 2 ELSE 1
         /\ m \notin Wide => Written(m) = <<m>>
<1>1. Len(<<m>>) = 1 /\ Len(<<-m>>) = 1 /\ Len(<<-m, -m>>) = 2
  OBVIOUS
<1> DEFINE p == <<m>>
           q == <<-m>>
           r == <<-m, -m>>
<1>2. /\ Written(m) = IF m \in Wide THEN r ELSE p
      /\ Torn(m) = {q, Written(m)}
      /\ Piece(m, L) <=> L \in {p, q, r}
      /\ Len(p) = 1 /\ Len(q) = 1 /\ Len(r) = 2
      /\ L \in {Written(m), q}
  BY <1>1 DEF Written, Torn, Piece
<1> HIDE DEF p, q, r
<1>3. /\ Piece(m, L)
      /\ Len(L) <= IF m \in Wide THEN 2 ELSE 1
      /\ m \notin Wide => Written(m) = p
  <2>1. CASE m \in Wide
    <3>1. L = r \/ L = q
      BY <1>2, <2>1
    <3>2. Len(L) \in {1, 2}
      BY <1>2, <3>1
    <3>3. Len(L) <= IF m \in Wide THEN 2 ELSE 1
      BY <2>1, <3>2
    <3> QED
      BY <1>2, <2>1, <3>1, <3>3
  <2>2. CASE m \notin Wide
    <3>1. L = p \/ L = q
      BY <1>2, <2>2
    <3>2. Len(L) = 1
      BY <1>2, <3>1
    <3> QED
      BY <1>2, <2>2, <3>1, <3>2
  <2> QED
    BY <2>1, <2>2
<1> QED
  BY <1>3 DEF p

(* A line behind a text of which the last one may lack its newline.         *)
Joins(s, open, m, L, t) ==
  /\ t \in Seq(Line) /\ t # <<>>
  /\ Len(t) = Len(s) + Len(L) - (IF open THEN 1 ELSE 0)
  /\ \A i \in 1 .. Len(s) : IF open /\ i = Len(s) THEN t[i] < 0 ELSE t[i] = s[i]
  /\ \A i \in Len(s) + 1 .. Len(t) :
       t[i] = -m \/ (t[i] = m /\ i = Len(s) + 1 /\ i = Len(t))
  /\ ~open /\ L = <<m>> => t[Len(t)] = m

LEMMA JoinsOpen ==
  ASSUME NEW s \in Seq(Line), s # <<>>, NEW m \in 1 .. MaxMsgs, NEW L, Piece(m, L)
  PROVE  Joins(s, TRUE, m, L,
               Append(SubSeq(s, 1, Len(s) - 1),
                      IF IsRecord(s[Len(s)]) THEN -s[Len(s)] ELSE s[Len(s)]) \o Tail(L))
<1> DEFINE n == Len(s)
           x == IF IsRecord(s[n]) THEN -s[n] ELSE s[n]
           u == SubSeq(s, 1, n - 1)
           v == Append(u, x)
           w == Tail(L)
           t == v \o w
<1>1. n \in Nat \ {0} /\ \A i \in 1 .. n : s[i] \in Line
  BY SeqFacts, EmptySeq
<1>2. s[n] \in Line
  BY <1>1
<1>3. x \in Line /\ x < 0
  BY <1>2, Constants DEF Line, IsRecord
<1>4. L \in Seq(Line) /\ L # <<>> /\ Len(L) \in {1, 2} /\ (Len(L) = 2 => L[2] = -m)
  BY PieceFacts
<1>5. /\ w \in Seq(Line) /\ Len(w) = Len(L) - 1
      /\ \A i \in 1 .. Len(w) : w[i] = L[i + 1]
  BY <1>4, HeadTailProperties
<1>6. \A i \in 1 .. n - 1 : s[i] \in Line
  BY <1>1
<1> HIDE DEF x, w, n
<1>7. /\ u \in Seq(Line) /\ Len(u) = IF 1 <= n - 1 THEN n - 1 - 1 + 1 ELSE 0
      /\ \A i \in 1 .. n - 1 - 1 + 1 : u[i] = s[1 + i - 1]
  BY <1>1, <1>6, SubSeqProperties
<1>8. /\ u \in Seq(Line) /\ Len(u) = n - 1
      /\ \A i \in 1 .. n - 1 : u[i] = s[i]
  BY <1>1, <1>7
<1> HIDE DEF u
<1>9. /\ v \in Seq(Line) /\ Len(v) = n /\ v[n] = x
      /\ \A i \in 1 .. n - 1 : v[i] = s[i]
  <2>1. /\ v \in Seq(Line) /\ Len(v) = Len(u) + 1 /\ v[Len(u) + 1] = x
        /\ \A i \in 1 .. Len(u) : v[i] = u[i]
    BY <1>3, <1>8, AppendFacts
  <2> QED
    BY <1>1, <1>8, <2>1
<1> HIDE DEF v
<1>10. /\ t \in Seq(Line) /\ Len(t) = n + Len(L) - 1
       /\ \A i \in 1 .. n : t[i] = v[i]
       /\ \A i \in n + 1 .. Len(t) : t[i] = -m
  <2>1. /\ t \in Seq(Line) /\ Len(t) = Len(v) + Len(w)
        /\ \A i \in 1 .. Len(v) + Len(w) : t[i] = IF i <= Len(v) THEN v[i] ELSE w[i - Len(v)]
    BY <1>5, <1>9, ConcatProperties
  <2> HIDE DEF t
  <2>0. /\ Len(w) \in {0, 1} /\ Len(t) = n + Len(w)
        /\ \A i \in 1 .. n + Len(w) : t[i] = IF i <= n THEN v[i] ELSE w[i - n]
    <3>1. Len(w) \in {0, 1}
      BY <1>4, <1>5
    <3>2. Len(v) = n
      BY <1>9
    <3> QED
      BY <2>1, <3>1, <3>2
  <2>2. \A i \in 1 .. n : t[i] = v[i]
    BY <1>1, <2>0
  <2>3. ASSUME NEW i \in n + 1 .. Len(t) PROVE t[i] = -m
    <3>0. Len(w) # 0
      <4>1. Len(w) = 0 => Len(t) = n
        BY <1>1, <2>0
      <4> QED
        BY <1>1, <2>3, <4>1
    <3>1. i = n + 1 /\ Len(w) = 1
      <4>1. Len(w) = 1 /\ Len(t) = n + 1
        BY <1>1, <2>0, <3>0
      <4> QED
        BY <1>1, <2>3, <4>1
    <3>2. t[i] = w[1] /\ w[1] = L[2] /\ Len(L) = 2
      BY <1>1, <1>4, <1>5, <2>0, <3>1
    <3> QED
      BY <1>4, <3>1, <3>2
  <2> QED
    BY <1>1, <1>4, <1>5, <1>9, <2>1, <2>2, <2>3
<1> HIDE DEF t
<1>11. t # <<>>
  BY <1>1, <1>4, <1>10, EmptySeq
<1>12. Joins(s, TRUE, m, L, t)
  BY <1>1, <1>3, <1>9, <1>10, <1>11 DEF Joins, n
<1> QED
  BY <1>12 DEF t, v, u, x, w, n

LEMMA JoinsClosed ==
  ASSUME NEW s \in Seq(Line), NEW m \in 1 .. MaxMsgs, NEW L, Piece(m, L)
  PROVE  Joins(s, FALSE, m, L, s \o L)
<1> DEFINE t == s \o L
<1>1. Len(s) \in Nat
  BY SeqFacts
<1>2. /\ L \in Seq(Line) /\ Len(L) \in {1, 2} /\ L[1] \in {m, -m}
      /\ (Len(L) = 2 => L[1] = -m /\ L[2] = -m)
      /\ (L = <<m>> => L[1] = m /\ Len(L) = 1)
  BY PieceFacts
<1>3. /\ t \in Seq(Line) /\ Len(t) = Len(s) + Len(L)
      /\ \A i \in 1 .. Len(s) + Len(L) : t[i] = IF i <= Len(s) THEN s[i] ELSE L[i - Len(s)]
  BY <1>2, ConcatProperties
<1> HIDE DEF t
<1>4. \A i \in 1 .. Len(s) : t[i] = s[i]
  BY <1>1, <1>2, <1>3
<1>5. ASSUME NEW i \in Len(s) + 1 .. Len(t)
      PROVE  t[i] = -m \/ (t[i] = m /\ i = Len(s) + 1 /\ i = Len(t))
  <2>1. CASE Len(L) = 1
    <3>1. i = Len(s) + 1 /\ i = Len(t) /\ t[i] = L[1]
      BY <1>1, <1>3, <2>1
    <3> QED
      BY <1>2, <3>1
  <2>2. CASE Len(L) = 2
    <3>1. (i = Len(s) + 1 /\ t[i] = L[1]) \/ (i = Len(s) + 2 /\ t[i] = L[2])
      BY <1>1, <1>3, <2>2
    <3> QED
      BY <1>2, <2>2, <3>1
  <2> QED
    BY <1>2, <2>1, <2>2
<1>6. L = <<m>> => t[Len(t)] = m
  <2>1. SUFFICES ASSUME L = <<m>> PROVE t[Len(t)] = m
    OBVIOUS
  <2>2. Len(t) = Len(s) + 1 /\ t[Len(s) + 1] = L[1]
    BY <1>1, <1>2, <1>3, <2>1
  <2> QED
    BY <1>2, <2>1, <2>2
<1>7. t # <<>>
  BY <1>1, <1>2, <1>3, EmptySeq
<1>8. Joins(s, FALSE, m, L, t)
  BY <1>1, <1>3, <1>4, <1>5, <1>6, <1>7 DEF Joins
<1> QED
  BY <1>8 DEF t

LEMMA ContentFields ==
  ASSUME NEW x \in Content
  PROVE  /\ x.lines \in Seq(Line) /\ x.open \in BOOLEAN /\ x.bad \in BOOLEAN
         /\ \A l \in Seq(Line) : [x EXCEPT !.lines = l] \in Content
BY DEF Content

LEMMA ExtendFacts ==
  ASSUME NEW f \in Content, f.open => f.lines # <<>>,
         NEW m \in 1 .. MaxMsgs, NEW L, Piece(m, L), NEW o \in BOOLEAN, NEW b \in BOOLEAN
  PROVE  /\ Extend(f, L, o, b) \in Content
         /\ Extend(f, L, o, b).open = o
         /\ Joins(f.lines, f.open, m, L, Extend(f, L, o, b).lines)
<1> DEFINE s == f.lines
           t == IF f.open
                THEN Append(SubSeq(s, 1, Len(s) - 1),
                            IF IsRecord(s[Len(s)]) THEN -s[Len(s)] ELSE s[Len(s)]) \o Tail(L)
                ELSE s \o L
           b2 == f.bad \/ b
<1>1. Extend(f, L, o, b) = [lines |-> t, open |-> o, bad |-> b2]
  BY DEF Extend
<1>2. s \in Seq(Line) /\ f.open \in BOOLEAN /\ b2 \in BOOLEAN
  BY ContentFields
<1>3. Joins(s, f.open, m, L, t)
  <2>1. CASE f.open
    <3>1. f.open = TRUE
      BY <1>2, <2>1
    <3> QED
      BY <1>2, <2>1, <3>1, JoinsOpen
  <2>2. CASE ~f.open
    <3>1. f.open = FALSE
      BY <1>2, <2>2
    <3> QED
      BY <1>2, <2>2, <3>1, JoinsClosed
  <2> QED
    BY <2>1, <2>2
<1> HIDE DEF t, b2
<1>4. t \in Seq(Line)
  BY <1>3 DEF Joins
<1>5. [lines |-> t, open |-> o, bad |-> b2] \in Content
  BY <1>2, <1>4 DEF Content
<1> QED
  BY <1>1, <1>3, <1>5


-----------------------------------------------------------------------------
(* Types.                                                                   *)

(* Open finds an inode: the threads and the two paths have fewer than there *)
(* are as long as one of the paths is free.                                 *)
LEMMA FreshIsFree ==
  ASSUME TypeOK, file = 0 \/ tmp = 0
  PROVE  /\ Fresh \in Inode /\ Fresh # file /\ Fresh # tmp
         /\ \A th \in Thread : Fresh # run[th].ino
<1> DEFINE I == {run[th].ino : th \in Thread}
           used == {file, tmp} \cup I
           x == IF file = 0 THEN tmp ELSE file
           N == Cardinality(Thread)
<1>1. IsFiniteSet(Thread) /\ N \in Nat
  BY FileAssumption, FS_CardinalityType DEF FileAssumption
<1>2. IsFiniteSet(I) /\ Cardinality(I) <= N /\ Cardinality(I) \in Nat
  <2>1. IsFiniteSet(I) /\ Cardinality(I) <= N
    <3> DEFINE f == [th \in Thread |-> run[th].ino]
    <3>1. f \in Surjection(Thread, I)
      BY DEF Surjection
    <3> HIDE DEF f, I
    <3> QED
      BY <1>1, <3>1, FS_Surjection
  <2> QED
    BY <2>1, FS_CardinalityType
<1>3. IsFiniteSet(I \cup {x}) /\ Cardinality(I \cup {x}) \in Nat
      /\ Cardinality(I \cup {x}) <= Cardinality(I) + 1
  <2>1. /\ IsFiniteSet(I \cup {x})
        /\ Cardinality(I \cup {x}) = IF x \in I THEN Cardinality(I) ELSE Cardinality(I) + 1
    BY <1>2, FS_AddElement
  <2> HIDE DEF x, I
  <2> QED
    BY <1>2, <2>1, FS_CardinalityType
<1>4. Cardinality(Inode) = N + 2
  <2>1. Cardinality(1 .. N + 2) = IF 1 > N + 2 THEN 0 ELSE N + 2 - 1 + 1
    BY <1>1, FS_Interval
  <2> QED
    BY <1>1, <2>1 DEF Inode
<1>5. ~ (Inode \subseteq used)
  <2>1. SUFFICES ASSUME Inode \subseteq used PROVE FALSE
    OBVIOUS
  <2>2. 0 \notin Inode
    BY <1>1 DEF Inode
  <2>3. Inode \subseteq I \cup {x}
    BY <2>1, <2>2
  <2>4. Cardinality(Inode) <= Cardinality(I \cup {x})
    BY <1>3, <2>3, FS_Subset
  <2> HIDE DEF N, x, I
  <2> QED
    BY <1>1, <1>2, <1>3, <1>4, <2>4
<1>6. \E i \in Inode : i \notin used
  BY <1>5
<1>7. Fresh = CHOOSE i \in Inode : i \notin used
  BY DEF Fresh
<1>8. Fresh \in Inode /\ Fresh \notin used
  BY <1>6, <1>7
<1> QED
  BY <1>8

LEMMA RunFields ==
  ASSUME NEW r \in Run
  PROVE  /\ r.pc \in Pc /\ r.op \in {"none", "append", "ack"} /\ r.id \in 0 .. MaxMsgs
         /\ r.buf \in Seq(Line) /\ r.junk \in SUBSET Line /\ r.ino \in {0} \cup Inode
BY DEF Run

LEMMA RunChanges ==
  ASSUME NEW r \in Run, NEW pc \in Pc
  PROVE  /\ [r EXCEPT !.pc = pc] \in Run
         /\ \A buf \in Seq(Line) : [r EXCEPT !.pc = pc, !.buf = buf] \in Run
         /\ \A i \in {0} \cup Inode : [r EXCEPT !.pc = pc, !.ino = i] \in Run
         /\ \A buf \in Seq(Line), junk \in SUBSET Line :
              [r EXCEPT !.pc = pc, !.buf = buf, !.junk = junk] \in Run
BY DEF Run

LEMMA IdleType ==
  /\ Idle \in Run
  /\ Idle.pc = "idle" /\ Idle.op = "none" /\ Idle.id = 0 /\ Idle.junk = {}
<1>1. <<>> \in Seq(Line)
  OBVIOUS
<1>2. 0 \in 0 .. MaxMsgs
  BY Constants
<1> QED
  BY <1>1, <1>2 DEF Idle, Run, Pc

LEMMA BlankType == /\ Blank \in Content /\ Blank.lines = <<>>
                   /\ Blank.open = FALSE /\ Blank.bad = FALSE
<1>1. <<>> \in Seq(Line)
  OBVIOUS
<1> QED
  BY <1>1 DEF Blank, Content

LEMMA TextType ==
  ASSUME TypeOK
  PROVE  Text \in Seq(Line) /\ OpenEnd \in BOOLEAN
<1>1. data \in [Inode -> Content] /\ file \in {0} \cup Inode
  BY DEF TypeOK
<1>2. CASE file = 0
  <2>1. Text = <<>>
    BY <1>2 DEF Text, Lines
  <2>2. <<>> \in Seq(Line)
    OBVIOUS
  <2>3. OpenEnd \in BOOLEAN
    BY DEF OpenEnd
  <2> QED
    BY <2>1, <2>2, <2>3
<1>3. CASE file # 0
  <2>1. data[file] \in Content
    BY <1>1, <1>3
  <2>2. data[file].lines \in Seq(Line)
    BY <2>1, ContentFields
  <2>3. Text \in Seq(Line)
    BY <1>3, <2>2 DEF Text, Lines
  <2>4. OpenEnd \in BOOLEAN
    BY DEF OpenEnd
  <2> QED
    BY <2>3, <2>4
<1> QED
  BY <1>2, <1>3

(* A write to the file, whether it is there or not.                         *)
LEMMA PutFacts ==
  ASSUME TypeOK, Formed, NEW m \in 1 .. posted, NEW L, Piece(m, L),
         NEW o \in BOOLEAN, NEW b \in BOOLEAN, Put(m, L, o, b)
  PROVE  /\ data' \in [Inode -> Content] /\ file' \in Inode
         /\ glued' \in SUBSET (1 .. posted)
         /\ \A i \in Inode : data'[i].open => data'[i].lines # <<>>
         /\ glued' = IF OpenEnd THEN glued \cup {m} ELSE glued
         /\ OpenEnd' = o
         /\ Joins(Text, OpenEnd, m, L, Text')
         /\ file' = tmp => file = tmp
<1> DEFINE i == IF file = 0 THEN Fresh ELSE file
           f == IF file = 0 THEN Blank ELSE data[file]
           g == Extend(f, L, o, b)
<1>1. /\ data \in [Inode -> Content] /\ file \in {0} \cup Inode /\ posted \in 0 .. MaxMsgs
      /\ glued \in SUBSET (1 .. posted)
      /\ \A j \in Inode : data[j].open => data[j].lines # <<>>
  BY DEF TypeOK, Formed
<1>2. i \in Inode /\ (i = tmp => file = tmp)
  BY <1>1, FreshIsFree
<1>3. /\ f \in Content /\ (f.open => f.lines # <<>>)
      /\ Text = f.lines /\ f.open = OpenEnd
  <2>1. CASE file = 0
    BY <2>1, BlankType DEF Text, OpenEnd, Lines
  <2>2. CASE file # 0
    <3>1. f = data[file] /\ data[file] \in Content
      BY <1>1, <2>2
    <3>2. f.open \in BOOLEAN
      BY <3>1, ContentFields
    <3> QED
      BY <1>1, <2>2, <3>1, <3>2 DEF Text, OpenEnd, Lines
  <2> QED
    BY <2>1, <2>2
<1>4. m \in 1 .. MaxMsgs
  BY <1>1, Constants
<1>5. /\ file' = i /\ data' = [data EXCEPT ![i] = g]
      /\ glued' = IF f.open THEN glued \cup {m} ELSE glued
  BY DEF Put
<1> HIDE DEF f, i
<1>6. g \in Content /\ g.open = o /\ Joins(f.lines, f.open, m, L, g.lines)
  BY <1>3, <1>4, ExtendFacts
<1> HIDE DEF g
<1>7. g.lines # <<>>
  BY <1>6 DEF Joins
<1>8. data' \in [Inode -> Content] /\ data'[i] = g /\ \A j \in Inode : j # i => data'[j] = data[j]
  BY <1>1, <1>2, <1>5, <1>6
<1>9. 0 \notin Inode
  BY DEF Inode
<1>10. Text' = g.lines /\ OpenEnd' = o
  BY <1>2, <1>5, <1>6, <1>8, <1>9 DEF Text, OpenEnd, Lines
<1>11. \A j \in Inode : data'[j].open => data'[j].lines # <<>>
  BY <1>1, <1>7, <1>8
<1> QED
  BY <1>1, <1>2, <1>3, <1>5, <1>6, <1>8, <1>10, <1>11


GoodRun(r, n) ==
  /\ r \in Run /\ r.junk \subseteq -MaxMsgs .. -1
  /\ r.pc = "write" \/ r.op = "append" => r.id \in 1 .. n

GoodRuns == run \in [Thread -> Run] /\ \A th \in Thread : GoodRun(run[th], posted)

GoodData ==
  /\ data \in [Inode -> Content] /\ file \in {0} \cup Inode /\ tmp \in {0} \cup Inode
  /\ \A i \in Inode : data[i].open => data[i].lines # <<>>

GoodCounts ==
  /\ quar \in SUBSET (-MaxMsgs .. -1)
  /\ lock \in Thread \cup {None}
  /\ up \in BOOLEAN /\ overlap \in BOOLEAN
  /\ posted \in 0 .. MaxMsgs /\ errors \in 0 .. MaxErrors
  /\ crashes \in 0 .. MaxCrashes /\ timeouts \in 0 .. MaxTimeouts
  /\ stored \in SUBSET (1 .. posted) /\ cut \in 0 .. posted
  /\ glued \in SUBSET (1 .. posted)

LEMMA TypeSplit == TypeOK /\ Formed => GoodRuns /\ GoodData /\ GoodCounts
BY DEF TypeOK, Formed, GoodRuns, GoodRun, GoodData, GoodCounts

LEMMA TypeJoin == GoodRuns' /\ GoodData' /\ GoodCounts' => TypeOK' /\ Formed'
BY DEF TypeOK, Formed, GoodRuns, GoodRun, GoodData, GoodCounts

LEMMA IdleGood == ASSUME NEW n PROVE GoodRun(Idle, n)
BY IdleType DEF GoodRun

LEMMA ChangesGood ==
  ASSUME NEW n, NEW r, GoodRun(r, n), NEW pc \in Pc, pc # "write"
  PROVE  /\ GoodRun([r EXCEPT !.pc = pc], n)
         /\ \A buf \in Seq(Line) : GoodRun([r EXCEPT !.pc = pc, !.buf = buf], n)
         /\ \A i \in {0} \cup Inode : GoodRun([r EXCEPT !.pc = pc, !.ino = i], n)
         /\ \A buf \in Seq(Line), junk \in SUBSET (-MaxMsgs .. -1) :
              GoodRun([r EXCEPT !.pc = pc, !.buf = buf, !.junk = junk], n)
<1>1. -MaxMsgs .. -1 \subseteq Line
  BY Constants DEF Line
<1>2. r \in Run /\ r.junk \subseteq -MaxMsgs .. -1 /\ (r.op = "append" => r.id \in 1 .. n)
  BY DEF GoodRun
<1>3. GoodRun([r EXCEPT !.pc = pc], n)
  BY <1>2 DEF GoodRun, Run
<1>4. ASSUME NEW buf \in Seq(Line) PROVE GoodRun([r EXCEPT !.pc = pc, !.buf = buf], n)
  BY <1>2 DEF GoodRun, Run
<1>5. ASSUME NEW i \in {0} \cup Inode PROVE GoodRun([r EXCEPT !.pc = pc, !.ino = i], n)
  BY <1>2 DEF GoodRun, Run
<1>6. ASSUME NEW buf \in Seq(Line), NEW junk \in SUBSET (-MaxMsgs .. -1)
      PROVE  GoodRun([r EXCEPT !.pc = pc, !.buf = buf, !.junk = junk], n)
  BY <1>1, <1>2 DEF GoodRun, Run
<1> QED
  BY <1>3, <1>4, <1>5, <1>6

LEMMA RunSet ==
  ASSUME GoodRuns, GoodCounts, posted' \in {posted, posted + 1},
         NEW th \in Thread, NEW r, GoodRun(r, posted'), run' = [run EXCEPT ![th] = r]
  PROVE  GoodRuns'
<1>1. posted \in Nat /\ posted' \in Nat /\ posted <= posted'
  BY Constants DEF GoodCounts
<1>2. r \in Run /\ run \in [Thread -> Run]
  BY DEF GoodRun, GoodRuns
<1>3. run' \in [Thread -> Run]
  BY <1>2
<1>4. ASSUME NEW o \in Thread PROVE GoodRun(run'[o], posted')
  <2>1. CASE o = th
    BY <1>2, <2>1
  <2>2. CASE o # th
    <3>1. run'[o] = run[o] /\ GoodRun(run[o], posted)
      BY <1>2, <2>2 DEF GoodRuns
    <3> QED
      BY <1>1, <3>1 DEF GoodRun
  <2> QED
    BY <2>1, <2>2
<1>5. \A o \in Thread : GoodRun(run'[o], posted')
  BY <1>4
<1> QED
  BY <1>3, <1>5 DEF GoodRuns

LEMMA RunEnd ==
  ASSUME GoodRuns, GoodCounts, posted' = posted, NEW th \in Thread, End(th)
  PROVE  GoodRuns' /\ lock' \in Thread \cup {None}
<1>1. GoodRun(Idle, posted')
  BY IdleGood
<1>2. run' = [run EXCEPT ![th] = Idle] /\ lock' = IF lock = th THEN None ELSE lock
  BY DEF End
<1>3. GoodRuns'
  BY <1>1, <1>2, RunSet
<1> QED
  BY <1>2, <1>3 DEF GoodCounts

LEMMA RunGoto ==
  ASSUME GoodRuns, GoodCounts, posted' = posted, NEW th \in Thread,
         NEW pc \in Pc, pc # "write", Goto(th, pc)
  PROVE  GoodRuns' /\ lock' = lock
<1>1. run' = [run EXCEPT ![th] = [run[th] EXCEPT !.pc = pc]] /\ lock' = lock
  BY DEF Goto
<1>2. GoodRun(run[th], posted)
  BY DEF GoodRuns
<1>3. GoodRun([run[th] EXCEPT !.pc = pc], posted)
  BY <1>2, ChangesGood
<1>4. GoodRuns'
  BY <1>1, <1>3, RunSet
<1> QED
  BY <1>1, <1>4

LEMMA StoredType ==
  ASSUME GoodRuns, GoodCounts, posted' = posted, NEW th \in Thread, Stored(th)
  PROVE  stored' \in SUBSET (1 .. posted')
BY DEF GoodRuns, GoodRun, GoodCounts, Stored


(* The steps, one by one.                                                   *)
Good == GoodRuns /\ GoodData /\ GoodCounts

LEMMA BeginGood ==
  ASSUME Good, NEW th \in Thread, NEW op \in {"append", "ack"}, NEW id \in 1 .. posted',
         NEW pc \in Pc, Begin(th, op, id, pc), posted' \in {posted, posted + 1},
         posted' \in 0 .. MaxMsgs
  PROVE  GoodRuns' /\ lock' \in Thread \cup {None} /\ overlap' \in BOOLEAN
<1> DEFINE r == [Idle EXCEPT !.pc = pc, !.op = op, !.id = id]
<1>1. run' = [run EXCEPT ![th] = r] /\ lock' = th
  BY DEF Begin
<1>2. id \in 0 .. MaxMsgs
  BY Constants
<1>3. r \in Run /\ r.id = id /\ r.junk = {}
  <2>1. <<>> \in Seq(Line)
    OBVIOUS
  <2> QED
    BY <1>2, <2>1 DEF Idle, Run
<1> HIDE DEF r
<1>4. GoodRun(r, posted')
  BY <1>3 DEF GoodRun
<1>5. GoodRuns'
  BY <1>1, <1>4, RunSet DEF Good
<1>6. overlap' \in BOOLEAN
  BY DEF Begin, Good, GoodCounts
<1> QED
  BY <1>1, <1>5, <1>6

LEMMA StartAppendGood == ASSUME Good, NEW th \in Thread, StartAppend(th) PROVE Good'
<1>1. /\ posted' = posted + 1 /\ posted < MaxMsgs /\ Begin(th, "append", posted + 1, "write")
      /\ UNCHANGED <<fsVars, up, errors, crashes, timeouts, stored, cut, glued>>
  BY DEF StartAppend
<1>2. posted \in Nat /\ posted' \in 1 .. MaxMsgs /\ posted + 1 \in 1 .. posted'
  BY <1>1, Constants DEF Good, GoodCounts
<1>3. GoodRuns' /\ lock' \in Thread \cup {None} /\ overlap' \in BOOLEAN
  <2>1. "append" \in {"append", "ack"} /\ "write" \in Pc
    BY DEF Pc
  <2> QED
    BY <1>1, <1>2, <2>1, BeginGood
<1>4. GoodData'
  BY <1>1 DEF Good, GoodData, fsVars
<1>5. GoodCounts'
  BY <1>1, <1>2, <1>3, Constants DEF Good, GoodCounts, fsVars
<1> QED
  BY <1>3, <1>4, <1>5 DEF Good

LEMMA StartAckGood ==
  ASSUME Good, NEW th \in Thread, NEW last \in 1 .. posted, StartAck(th, last) PROVE Good'
<1>1. /\ Begin(th, "ack", last, "scan")
      /\ cut' = IF last > cut THEN last ELSE cut
      /\ UNCHANGED <<fsVars, up, counters, stored, glued>>
  BY DEF StartAck
<1>2. posted' = posted /\ posted \in 0 .. MaxMsgs
  BY <1>1 DEF counters, Good, GoodCounts
<1>3. GoodRuns' /\ lock' \in Thread \cup {None} /\ overlap' \in BOOLEAN
  <2>1. "ack" \in {"append", "ack"} /\ "scan" \in Pc /\ last \in 1 .. posted'
    BY <1>2 DEF Pc
  <2> QED
    BY <1>1, <1>2, <2>1, BeginGood
<1>4. GoodData'
  BY <1>1 DEF Good, GoodData, fsVars
<1>5. cut' \in 0 .. posted
  BY <1>1, <1>2, Constants DEF Good, GoodCounts
<1>6. GoodCounts'
  BY <1>1, <1>3, <1>5 DEF Good, GoodCounts, fsVars, counters
<1> QED
  BY <1>3, <1>4, <1>6 DEF Good

LEMMA PutGood ==
  ASSUME Good, NEW m \in 1 .. posted, NEW L, Piece(m, L),
         NEW o \in BOOLEAN, NEW b \in BOOLEAN, Put(m, L, o, b), tmp' = tmp
  PROVE  GoodData' /\ glued' \in SUBSET (1 .. posted)
<1>1. TypeOK /\ Formed
  BY DEF Good, GoodRuns, GoodRun, GoodData, GoodCounts, TypeOK, Formed
<1>2. /\ data' \in [Inode -> Content] /\ file' \in Inode
      /\ glued' \in SUBSET (1 .. posted)
      /\ \A i \in Inode : data'[i].open => data'[i].lines # <<>>
  BY <1>1, PutFacts
<1> QED
  BY <1>2 DEF Good, GoodData

LEMMA WriterId ==
  ASSUME Good, NEW th \in Thread, run[th].pc = "write"
  PROVE  run[th].id \in 1 .. posted /\ run[th].id \in 1 .. MaxMsgs
<1>1. run[th].id \in 1 .. posted /\ posted \in 0 .. MaxMsgs
  BY DEF Good, GoodRuns, GoodRun, GoodCounts
<1> QED
  BY <1>1, Constants

LEMMA WriteGood == ASSUME Good, NEW th \in Thread, Write(th) PROVE Good'
<1> DEFINE m == run[th].id
<1>1. /\ run[th].pc = "write" /\ Put(m, Written(m), FALSE, FALSE) /\ Goto(th, "trim")
      /\ UNCHANGED <<tmp, quar, up, counters, stored, cut, overlap>>
  BY DEF Write
<1>2. m \in 1 .. posted /\ m \in 1 .. MaxMsgs
  BY <1>1, WriterId
<1>3. Piece(m, Written(m))
  BY <1>2, WrittenFacts
<1> HIDE DEF m
<1>4. GoodData' /\ glued' \in SUBSET (1 .. posted)
  BY <1>1, <1>2, <1>3, PutGood
<1>5. posted' = posted
  BY <1>1 DEF counters
<1>6. GoodRuns' /\ lock' = lock
  <2>1. "trim" \in Pc /\ "trim" # "write"
    BY DEF Pc
  <2> QED
    BY <1>1, <1>5, <2>1, RunGoto DEF Good
<1>7. GoodCounts'
  BY <1>1, <1>4, <1>6 DEF Good, GoodCounts, counters
<1> QED
  BY <1>4, <1>6, <1>7 DEF Good

LEMMA PutPartGood ==
  ASSUME Good, NEW m \in 1 .. posted, PutPart(m), tmp' = tmp
  PROVE  GoodData' /\ glued' \in SUBSET (1 .. posted)
<1>1. PICK L \in Torn(m), b \in BOOLEAN : Put(m, L, TRUE, b)
  BY DEF PutPart
<1>2. m \in 1 .. MaxMsgs
  BY Constants DEF Good, GoodCounts
<1>3. Piece(m, L)
  BY <1>2, WrittenFacts
<1> QED
  BY <1>1, <1>3, PutGood

LEMMA ErrorType == ASSUME Good, Error PROVE errors' \in 0 .. MaxErrors
BY Constants DEF Good, GoodCounts, Error

LEMMA WriteErrorGood == ASSUME Good, NEW th \in Thread, WriteError(th) PROVE Good'
<1> DEFINE m == run[th].id
<1>1. /\ run[th].pc = "write" /\ Error /\ End(th)
      /\ \/ PutPart(m)
         \/ Put(m, Written(m), FALSE, FALSE)
         \/ UNCHANGED <<data, file, glued>>
      /\ UNCHANGED <<tmp, quar, up, posted, crashes, timeouts, stored, cut, overlap>>
  BY DEF WriteError
<1>2. m \in 1 .. posted /\ m \in 1 .. MaxMsgs
  BY <1>1, WriterId
<1>3. Piece(m, Written(m))
  BY <1>2, WrittenFacts
<1> HIDE DEF m
<1>4. GoodData' /\ glued' \in SUBSET (1 .. posted)
  <2>1. CASE PutPart(m)
    BY <1>1, <1>2, <2>1, PutPartGood
  <2>2. CASE Put(m, Written(m), FALSE, FALSE)
    BY <1>1, <1>2, <1>3, <2>2, PutGood
  <2>3. CASE UNCHANGED <<data, file, glued>>
    BY <1>1, <2>3 DEF Good, GoodData, GoodCounts
  <2> QED
    BY <1>1, <2>1, <2>2, <2>3
<1>5. GoodRuns' /\ lock' \in Thread \cup {None}
  BY <1>1, RunEnd DEF Good
<1>6. errors' \in 0 .. MaxErrors
  BY <1>1, ErrorType
<1>7. GoodCounts'
  BY <1>1, <1>4, <1>5, <1>6 DEF Good, GoodCounts
<1> QED
  BY <1>4, <1>5, <1>7 DEF Good

LEMMA TextGood == ASSUME Good PROVE Text \in Seq(Line) /\ Len(Text) \in Nat
<1>1. TypeOK
  BY DEF Good, GoodRuns, GoodRun, GoodData, GoodCounts, TypeOK
<1> QED
  BY <1>1, TextType, SeqFacts

LEMMA TrimGood == ASSUME Good, NEW th \in Thread, Trim(th) PROVE Good'
<1>1. UNCHANGED <<fsVars, up, counters, cut, glued, overlap>>
  BY DEF Trim
<1>2. posted' = posted /\ GoodData'
  BY <1>1 DEF counters, fsVars, Good, GoodData
<1>3. GoodRuns' /\ lock' \in Thread \cup {None} /\ stored' \in SUBSET (1 .. posted')
  <2>1. CASE End(th) /\ UNCHANGED stored
    BY <1>2, <2>1, RunEnd DEF Good, GoodCounts
  <2>2. CASE End(th) /\ Stored(th)
    BY <1>2, <2>2, RunEnd, StoredType DEF Good
  <2>3. CASE /\ Cap > 0 /\ Len(Lines(file)) > Cap
             /\ run' = [run EXCEPT ![th].pc = "open", ![th].buf = LastOf(Lines(file), Cap)]
             /\ UNCHANGED <<lock, stored>>
    <3> DEFINE buf == LastOf(Text, Cap)
               r == [run[th] EXCEPT !.pc = "open", !.buf = buf]
    <3>1. run' = [run EXCEPT ![th] = r]
      BY <2>3 DEF Text
    <3>2. buf \in Seq(Line)
      <4>1. Len(Text) > Cap /\ Cap > 0
        BY <2>3 DEF Text
      <4>2. Cap <= Len(Text) /\ Cap \in Nat
        BY <4>1, TextGood, Constants
      <4> QED
        BY <4>1, <4>2, LastOfFacts, TextGood
    <3>3. GoodRun(run[th], posted)
      BY DEF Good, GoodRuns
    <3>4. "open" \in Pc /\ "open" # "write"
      BY DEF Pc
    <3> HIDE DEF buf
    <3>5. GoodRun(r, posted)
      BY <3>2, <3>3, <3>4, ChangesGood
    <3> HIDE DEF r
    <3>6. GoodRuns'
      BY <1>2, <3>1, <3>5, RunSet DEF Good
    <3> QED
      BY <1>2, <2>3, <3>6 DEF Good, GoodCounts
  <2> QED
    BY <2>1, <2>2, <2>3 DEF Trim
<1>4. GoodCounts'
  BY <1>1, <1>3 DEF Good, GoodCounts, counters, fsVars
<1> QED
  BY <1>2, <1>3, <1>4 DEF Good


LEMMA JunkType == ASSUME NEW s \in Seq(Line) PROVE Junk(s) \in SUBSET (-MaxMsgs .. -1)
<1>1. DOMAIN s = 1 .. Len(s) /\ \A i \in 1 .. Len(s) : s[i] \in Line
  BY SeqFacts
<1> QED
  BY <1>1, Constants DEF Junk, IsRecord, Line

LEMMA AckScanGood == ASSUME Good, NEW th \in Thread, AckScan(th) PROVE Good'
<1> DEFINE junk == Junk(Text)
           buf == Survivors(Text, run[th].id)
           pc == IF junk = {} THEN "open" ELSE "quarantine"
           r == [run[th] EXCEPT !.pc = pc, !.buf = buf, !.junk = junk]
<1>1. /\ UNCHANGED <<fsVars, up, counters, history>>
      /\ \/ End(th)
         \/ run' = [run EXCEPT ![th] = r] /\ UNCHANGED lock
  BY DEF AckScan, Text
<1>2. posted' = posted /\ GoodData'
  BY <1>1 DEF counters, fsVars, Good, GoodData
<1>3. GoodRun(r, posted)
  <2>1. junk \in SUBSET (-MaxMsgs .. -1)
    BY JunkType, TextGood
  <2>2. run[th].id \in Nat /\ GoodRun(run[th], posted)
    BY Constants DEF Good, GoodRuns, GoodRun, Run
  <2>3. buf \in Seq(Line)
    BY <2>2, SurvivorsKept, TextGood DEF KeptOf
  <2>4. pc \in Pc /\ pc # "write"
    BY DEF Pc
  <2> HIDE DEF junk, buf, pc
  <2> QED
    BY <2>1, <2>2, <2>3, <2>4, ChangesGood
<1> HIDE DEF r
<1>4. GoodRuns' /\ lock' \in Thread \cup {None}
  <2>1. CASE End(th)
    BY <1>2, <2>1, RunEnd DEF Good
  <2>2. CASE run' = [run EXCEPT ![th] = r] /\ UNCHANGED lock
    BY <1>2, <1>3, <2>2, RunSet DEF Good, GoodCounts
  <2> QED
    BY <1>1, <2>1, <2>2
<1>5. GoodCounts'
  BY <1>1, <1>4 DEF Good, GoodCounts, counters, fsVars, history
<1> QED
  BY <1>2, <1>4, <1>5 DEF Good

LEMMA QuarantineGood == ASSUME Good, NEW th \in Thread, Quarantine(th) PROVE Good'
<1>1. /\ quar' = quar \cup run[th].junk /\ Goto(th, "open")
      /\ UNCHANGED <<data, file, tmp, up, counters, history>>
  BY DEF Quarantine
<1>2. posted' = posted /\ GoodData'
  BY <1>1 DEF counters, Good, GoodData
<1>3. GoodRuns' /\ lock' = lock
  <2>1. "open" \in Pc /\ "open" # "write"
    BY DEF Pc
  <2> QED
    BY <1>1, <1>2, <2>1, RunGoto DEF Good
<1>4. quar' \in SUBSET (-MaxMsgs .. -1)
  BY <1>1 DEF Good, GoodCounts, GoodRuns, GoodRun
<1>5. GoodCounts'
  BY <1>1, <1>3, <1>4 DEF Good, GoodCounts, counters, history
<1> QED
  BY <1>2, <1>3, <1>5 DEF Good

LEMMA OpenTmpGood == ASSUME Good, NEW th \in Thread, OpenTmp(th) PROVE Good'
<1> DEFINE i == IF tmp = 0 THEN Fresh ELSE tmp
           r == [run[th] EXCEPT !.pc = "fill", !.ino = i]
<1>1. /\ tmp' = i /\ data' = [data EXCEPT ![i] = Blank]
      /\ run' = [run EXCEPT ![th] = r]
      /\ UNCHANGED <<file, quar, lock, up, counters, history>>
  BY DEF OpenTmp
<1>2. i \in Inode
  <2>1. TypeOK
    BY DEF Good, GoodRuns, GoodRun, GoodData, GoodCounts, TypeOK
  <2> QED
    BY <2>1, FreshIsFree DEF Good, GoodData
<1>3. GoodRun(r, posted)
  <2>1. GoodRun(run[th], posted) /\ "fill" \in Pc /\ "fill" # "write"
    BY DEF Good, GoodRuns, Pc
  <2> HIDE DEF i
  <2> QED
    BY <1>2, <2>1, ChangesGood
<1> HIDE DEF r, i
<1>4. posted' = posted
  BY <1>1 DEF counters
<1>5. GoodRuns'
  BY <1>1, <1>3, <1>4, RunSet DEF Good
<1>6. GoodData'
  <2>1. data \in [Inode -> Content] /\ \A j \in Inode : data[j].open => data[j].lines # <<>>
    BY DEF Good, GoodData
  <2>2. data' \in [Inode -> Content]
    BY <1>1, <2>1, BlankType
  <2>3. \A j \in Inode : data'[j] = Blank \/ data'[j] = data[j]
    BY <1>1, <2>1
  <2>4. \A j \in Inode : data'[j].open => data'[j].lines # <<>>
    BY <2>1, <2>3, BlankType
  <2> QED
    BY <1>1, <1>2, <2>2, <2>4 DEF Good, GoodData
<1>7. GoodCounts'
  BY <1>1 DEF Good, GoodCounts, counters, history
<1> QED
  BY <1>5, <1>6, <1>7 DEF Good

(* What a thread writes to its tmp file.                                    *)
LEMMA OverlayGood ==
  ASSUME Good, NEW i \in {0} \cup Inode, NEW L \in Seq(Line),
         data' = [data EXCEPT ![i].lines = Overlay(L, @)],
         UNCHANGED <<file, tmp>>
  PROVE  GoodData'
<1>1. data \in [Inode -> Content] /\ \A j \in Inode : data[j].open => data[j].lines # <<>>
  BY DEF Good, GoodData
<1>2. \A j \in Inode : data'[j] = data[j] \/ data'[j] = [data[j] EXCEPT !.lines = Overlay(L, @)]
  BY <1>1
<1>3. ASSUME NEW x \in Content
      PROVE  /\ [x EXCEPT !.lines = Overlay(L, @)] \in Content
             /\ [x EXCEPT !.lines = Overlay(L, @)].open = x.open
             /\ [x EXCEPT !.lines = Overlay(L, @)].lines = Overlay(L, x.lines)
             /\ x.lines # <<>> => Overlay(L, x.lines) # <<>>
  <2>1. x.lines \in Seq(Line)
    BY ContentFields
  <2>2. Overlay(L, x.lines) \in Seq(Line) /\ (x.lines # <<>> => Overlay(L, x.lines) # <<>>)
    BY <2>1, OverlayFacts
  <2> QED
    BY <2>2 DEF Content
<1>4. \A j \in Inode : data'[j] \in Content /\ (data'[j].open => data'[j].lines # <<>>)
  <2>1. SUFFICES ASSUME NEW j \in Inode
                 PROVE  data'[j] \in Content /\ (data'[j].open => data'[j].lines # <<>>)
    OBVIOUS
  <2>2. data[j] \in Content
    BY <1>1
  <2>3. CASE data'[j] = data[j]
    BY <1>1, <2>2, <2>3
  <2>4. CASE data'[j] = [data[j] EXCEPT !.lines = Overlay(L, @)]
    BY <1>1, <1>3, <2>2, <2>4
  <2> QED
    BY <1>2, <2>3, <2>4
<1>5. data' = [j \in Inode |-> data'[j]]
  BY <1>1
<1>6. data' \in [Inode -> Content]
  BY <1>4, <1>5
<1> QED
  BY <1>4, <1>6 DEF Good, GoodData

LEMMA FillGood == ASSUME Good, NEW th \in Thread, Fill(th) PROVE Good'
<1>1. /\ data' = [data EXCEPT ![run[th].ino].lines = Overlay(run[th].buf, @)]
      /\ Goto(th, "replace")
      /\ UNCHANGED <<file, tmp, quar, up, counters, history>>
  BY DEF Fill
<1>2. run[th].ino \in {0} \cup Inode /\ run[th].buf \in Seq(Line)
  BY DEF Good, GoodRuns, GoodRun, Run
<1>3. GoodData'
  BY <1>1, <1>2, OverlayGood
<1>4. GoodRuns' /\ lock' = lock
  <2>1. "replace" \in Pc /\ "replace" # "write" /\ posted' = posted
    BY <1>1 DEF Pc, counters
  <2> QED
    BY <1>1, <2>1, RunGoto DEF Good
<1>5. GoodCounts'
  BY <1>1, <1>4 DEF Good, GoodCounts, counters, history
<1> QED
  BY <1>3, <1>4, <1>5 DEF Good

LEMMA ReplaceGood == ASSUME Good, NEW th \in Thread, Replace(th) PROVE Good'
<1>1. /\ tmp # 0 /\ file' = tmp /\ tmp' = 0 /\ data' = [data EXCEPT ![file] = Blank]
      /\ Stored(th) /\ End(th)
      /\ UNCHANGED <<quar, up, counters, cut, glued, overlap>>
  BY DEF Replace
<1>2. GoodData'
  <2>1. /\ data \in [Inode -> Content] /\ tmp \in {0} \cup Inode
        /\ \A j \in Inode : data[j].open => data[j].lines # <<>>
    BY DEF Good, GoodData
  <2>2. data' \in [Inode -> Content]
    BY <1>1, <2>1, BlankType
  <2>3. \A j \in Inode : data'[j] = Blank \/ data'[j] = data[j]
    BY <1>1, <2>1
  <2>4. \A j \in Inode : data'[j].open => data'[j].lines # <<>>
    BY <2>1, <2>3, BlankType
  <2> QED
    BY <1>1, <2>1, <2>2, <2>4 DEF GoodData
<1>3. GoodRuns' /\ lock' \in Thread \cup {None} /\ stored' \in SUBSET (1 .. posted')
  BY <1>1, RunEnd, StoredType DEF Good, counters
<1>4. GoodCounts'
  BY <1>1, <1>3 DEF Good, GoodCounts, counters
<1> QED
  BY <1>2, <1>3, <1>4 DEF Good

LEMMA ReplaceGoneGood == ASSUME Good, NEW th \in Thread, ReplaceGone(th) PROVE Good'
<1>1. End(th) /\ UNCHANGED <<fsVars, up, counters, history>>
  BY DEF ReplaceGone
<1>2. GoodRuns' /\ lock' \in Thread \cup {None}
  BY <1>1, RunEnd DEF Good, counters
<1>3. GoodData' /\ GoodCounts'
  BY <1>1, <1>2 DEF Good, GoodData, GoodCounts, counters, history, fsVars
<1> QED
  BY <1>2, <1>3 DEF Good

LEMMA RewriteErrorGood == ASSUME Good, NEW th \in Thread, RewriteError(th) PROVE Good'
<1>1. /\ Error /\ End(th)
      /\ \/ UNCHANGED data
         \/ \E k \in 1 .. Len(run[th].buf) :
              data' = [data EXCEPT ![run[th].ino].lines =
                         Overlay(SubSeq(run[th].buf, 1, k), @)]
      /\ UNCHANGED <<file, tmp, quar, up, posted, crashes, timeouts, history>>
  BY DEF RewriteError
<1>2. run[th].ino \in {0} \cup Inode /\ run[th].buf \in Seq(Line)
  BY DEF Good, GoodRuns, GoodRun, Run
<1>3. GoodData'
  <2>1. CASE UNCHANGED data
    BY <1>1, <2>1 DEF Good, GoodData
  <2>2. ASSUME NEW k \in 1 .. Len(run[th].buf),
               data' = [data EXCEPT ![run[th].ino].lines =
                          Overlay(SubSeq(run[th].buf, 1, k), @)]
        PROVE  GoodData'
    <3>1. \A i \in 1 .. k : run[th].buf[i] \in Line
      BY <1>2, SeqFacts
    <3>2. 1 \in Int /\ k \in Int
      BY <1>2, SeqFacts
    <3>3. SubSeq(run[th].buf, 1, k) \in Seq(Line)
      BY <3>1, <3>2, SubSeqProperties
    <3> QED
      BY <1>1, <1>2, <2>2, <3>3, OverlayGood
  <2> QED
    BY <1>1, <2>1, <2>2
<1>4. GoodRuns' /\ lock' \in Thread \cup {None}
  BY <1>1, RunEnd DEF Good
<1>5. errors' \in 0 .. MaxErrors
  BY <1>1, ErrorType
<1>6. GoodCounts'
  BY <1>1, <1>4, <1>5 DEF Good, GoodCounts, history
<1> QED
  BY <1>3, <1>4, <1>6 DEF Good

LEMMA TimeoutGood == ASSUME Good, NEW th \in Thread, Timeout(th) PROVE Good'
<1>1. /\ timeouts < MaxTimeouts /\ timeouts' = timeouts + 1 /\ lock' = None
      /\ UNCHANGED <<fsVars, run, up, posted, errors, crashes, history>>
  BY DEF Timeout
<1>2. timeouts' \in 0 .. MaxTimeouts
  BY <1>1, Constants DEF Good, GoodCounts
<1> QED
  BY <1>1, <1>2 DEF Good, GoodRuns, GoodData, GoodCounts, history, fsVars

LEMMA CrashGood == ASSUME Good, Crash PROVE Good'
<1>1. /\ crashes < MaxCrashes /\ crashes' = crashes + 1 /\ up' = FALSE /\ lock' = None
      /\ run' = [th \in Thread |-> Idle]
      /\ \/ UNCHANGED <<data, file, glued>>
         \/ \E th \in Thread : run[th].pc = "write" /\ PutPart(run[th].id)
      /\ UNCHANGED <<tmp, quar, posted, errors, timeouts, stored, cut, overlap>>
  BY DEF Crash
<1>2. GoodData' /\ glued' \in SUBSET (1 .. posted)
  <2>1. CASE UNCHANGED <<data, file, glued>>
    BY <1>1, <2>1 DEF Good, GoodData, GoodCounts
  <2>2. ASSUME NEW th \in Thread, run[th].pc = "write", PutPart(run[th].id)
        PROVE  GoodData' /\ glued' \in SUBSET (1 .. posted)
    <3>1. run[th].id \in 1 .. posted
      BY <2>2, WriterId
    <3> QED
      BY <1>1, <2>2, <3>1, PutPartGood
  <2> QED
    BY <1>1, <2>1, <2>2
<1>3. GoodRuns'
  <2>1. run' \in [Thread -> Run]
    BY <1>1, IdleType
  <2>2. \A th \in Thread : GoodRun(run'[th], posted')
    BY <1>1, IdleGood
  <2> QED
    BY <2>1, <2>2 DEF GoodRuns
<1>4. crashes' \in 0 .. MaxCrashes
  BY <1>1, Constants DEF Good, GoodCounts
<1>5. GoodCounts'
  BY <1>1, <1>2, <1>4 DEF Good, GoodCounts
<1> QED
  BY <1>2, <1>3, <1>5 DEF Good

LEMMA StartGood == ASSUME Good, Start PROVE Good'
BY DEF Good, GoodRuns, GoodData, GoodCounts, Start, counters, history, fsVars

LEMMA GoodStep == ASSUME Good, [Next]_vars PROVE Good'
<1>1. ASSUME NEW th \in Thread, NEW last \in 1 .. posted, StartAck(th, last) PROVE Good'
  BY <1>1, StartAckGood
<1>2. CASE UNCHANGED vars
  BY <1>2 DEF Good, GoodRuns, GoodData, GoodCounts, vars, counters, history, fsVars
<1> QED
  BY <1>1, <1>2, StartAppendGood, WriteGood, WriteErrorGood, TrimGood, AckScanGood,
     QuarantineGood, OpenTmpGood, FillGood, ReplaceGood, ReplaceGoneGood,
     RewriteErrorGood, TimeoutGood, CrashGood, StartGood DEF Next

LEMMA TypeStep == TypeOK /\ Formed /\ [Next]_vars => TypeOK' /\ Formed'
BY TypeSplit, TypeJoin, GoodStep DEF Good

LEMMA TypeInit == Init => TypeOK /\ Formed
<1> SUFFICES ASSUME Init PROVE TypeOK /\ Formed
  OBVIOUS
<1>1. data \in [Inode -> Content] /\ \A i \in Inode : data[i].open = FALSE
  BY BlankType DEF Init
<1>2. run \in [Thread -> Run] /\ \A th \in Thread : run[th] = Idle
  BY IdleType DEF Init
<1>3. TypeOK
  <2>1. /\ file = 0 /\ tmp = 0 /\ quar = {} /\ lock = None /\ up = TRUE /\ overlap = FALSE
        /\ posted = 0 /\ errors = 0 /\ crashes = 0 /\ timeouts = 0
        /\ stored = {} /\ cut = 0 /\ glued = {}
    BY DEF Init
  <2>2. /\ posted \in 0 .. MaxMsgs /\ errors \in 0 .. MaxErrors
        /\ crashes \in 0 .. MaxCrashes /\ timeouts \in 0 .. MaxTimeouts /\ cut \in 0 .. posted
    BY <2>1, Constants
  <2> QED
    BY <1>1, <1>2, <2>1, <2>2 DEF TypeOK
<1>4. Formed
  BY <1>1, <1>2, IdleType DEF Formed
<1> QED
  BY <1>3, <1>4

(* Every variable keeps its type: among other things there is an inode for  *)
(* every open, and what is quarantined never parses.                        *)
THEOREM TypeCorrect == Spec => []TypeOK
<1>1. Spec => [](TypeOK /\ Formed)
  BY TypeInit, TypeStep, PTL DEF Spec
<1> QED
  BY <1>1, PTL


-----------------------------------------------------------------------------
(* Distances from the end.                                                  *)

LEMMA BehindType ==
  ASSUME NEW m \in Nat, NEW n \in Nat
  PROVE  /\ IsFiniteSet(Wide \cap (m + 1 .. n))
         /\ Cardinality(Wide \cap (m + 1 .. n)) \in Nat
         /\ Behind(m, n) \in Int
<1>1. IsFiniteSet(m + 1 .. n)
  BY FS_Interval
<1>2. IsFiniteSet(Wide \cap (m + 1 .. n))
  BY <1>1, FS_Subset
<1>3. Cardinality(Wide \cap (m + 1 .. n)) \in Nat
  BY <1>2, FS_CardinalityType
<1> QED
  BY <1>2, <1>3 DEF Behind

LEMMA BehindGrows ==
  ASSUME NEW m \in Nat, NEW n \in Nat, NEW k \in Nat, n <= k
  PROVE  Behind(m, n) <= Behind(m, k)
<1> DEFINE A == Wide \cap (m + 1 .. n)
           B == Wide \cap (m + 1 .. k)
<1>1. IsFiniteSet(B) /\ Cardinality(A) \in Nat /\ Cardinality(B) \in Nat
  BY BehindType
<1>2. A \subseteq B
  OBVIOUS
<1>3. Cardinality(A) <= Cardinality(B)
  BY <1>1, <1>2, FS_Subset
<1> HIDE DEF A, B
<1>4. n - m + Cardinality(A) <= k - m + Cardinality(B)
  BY <1>1, <1>3
<1> QED
  BY <1>4 DEF Behind, A, B

LEMMA BehindNext ==
  ASSUME NEW m \in Nat, NEW p \in Nat, m < p
  PROVE  Behind(m, p) = Behind(m, p - 1) + IF p \in Wide THEN 2 ELSE 1
<1> DEFINE A == Wide \cap (m + 1 .. p - 1)
           B == Wide \cap (m + 1 .. p)
<1>0. p - 1 \in Nat
  OBVIOUS
<1>1. IsFiniteSet(A) /\ Cardinality(A) \in Nat
  BY <1>0, BehindType
<1>2. p \notin A
  OBVIOUS
<1>3. m + 1 .. p = (m + 1 .. p - 1) \cup {p}
  OBVIOUS
<1>4. CASE p \in Wide
  <2>1. B = A \cup {p}
    BY <1>3, <1>4
  <2>2. Cardinality(B) = Cardinality(A) + 1
    BY <1>1, <1>2, <2>1, FS_AddElement
  <2> HIDE DEF A, B
  <2>3. p - m + Cardinality(B) = (p - 1 - m + Cardinality(A)) + 2
    BY <1>1, <2>2
  <2> QED
    BY <1>4, <2>3 DEF Behind, A, B
<1>5. CASE p \notin Wide
  <2>1. B = A
    BY <1>3, <1>5
  <2> HIDE DEF A, B
  <2>2. p - m + Cardinality(B) = (p - 1 - m + Cardinality(A)) + 1
    BY <1>1, <2>1
  <2> QED
    BY <1>5, <2>2 DEF Behind, A, B
<1> QED
  BY <1>4, <1>5

LEMMA BehindNothing == ASSUME NEW m \in Nat PROVE Behind(m, m) >= 0
<1>1. Cardinality(Wide \cap (m + 1 .. m)) \in Nat
  BY BehindType
<1> QED
  BY <1>1 DEF Behind

LEMMA WithinMore ==
  ASSUME NEW s \in Seq(Line), NEW m, NEW d \in Int, NEW e \in Int, d <= e, Within(s, m, d)
  PROVE  Within(s, m, e)
<1>1. PICK i \in 1 .. Len(s) : s[i] = m /\ Len(s) - i <= d
  BY DEF Within
<1>2. Len(s) - i <= e
  BY <1>1, SeqFacts
<1> QED
  BY <1>1, <1>2 DEF Within

-----------------------------------------------------------------------------
(* One thread at work.                                                      *)

LEMMA OthersIdle ==
  ASSUME Solo, Working, NEW th \in Thread, run[th].pc # "idle"
  PROVE  \A o \in Thread : o # th => run[o].pc = "idle" /\ run[o].op = "none"
BY DEF Solo, Working, WritesAt

LEMMA AloneBefore ==
  ASSUME NEW th \in Thread,
         \A o \in Thread : o # th => run[o].pc = "idle" /\ run[o].op = "none"
  PROVE  /\ Sent = IF run[th].pc = "write" THEN posted - 1 ELSE posted
         /\ Pending = IF run[th].op = "append" /\ run[th].pc # "write"
                      THEN {run[th].id} ELSE {}
<1>1. (\E o \in Thread : run[o].pc = "write") <=> run[th].pc = "write"
  OBVIOUS
<1>2. CASE run[th].op = "append" /\ run[th].pc # "write"
  BY <1>1, <1>2 DEF Sent, Pending
<1>3. CASE ~ (run[th].op = "append" /\ run[th].pc # "write")
  BY <1>1, <1>3 DEF Sent, Pending
<1> QED
  BY <1>2, <1>3

LEMMA AloneAfter ==
  ASSUME NEW th \in Thread,
         \A o \in Thread : o # th => run'[o].pc = "idle" /\ run'[o].op = "none"
  PROVE  /\ Solo'
         /\ Sent' = IF run'[th].pc = "write" THEN posted' - 1 ELSE posted'
         /\ Pending' = IF run'[th].op = "append" /\ run'[th].pc # "write"
                       THEN {run'[th].id} ELSE {}
<1>1. (\E o \in Thread : run'[o].pc = "write") <=> run'[th].pc = "write"
  OBVIOUS
<1>2. CASE run'[th].op = "append" /\ run'[th].pc # "write"
  BY <1>1, <1>2 DEF Solo, Sent, Pending
<1>3. CASE ~ (run'[th].op = "append" /\ run'[th].pc # "write")
  BY <1>1, <1>3 DEF Solo, Sent, Pending
<1> QED
  BY <1>2, <1>3

(* A step of a thread leaves the others idle.                               *)
LEMMA StillIdle ==
  ASSUME TypeOK, Solo, Working, NEW th \in Thread, run[th].pc # "idle",
         NEW r, run' = [run EXCEPT ![th] = r]
  PROVE  /\ \A o \in Thread : o # th => run'[o].pc = "idle" /\ run'[o].op = "none"
         /\ run'[th] = r
<1>1. run \in [Thread -> Run]
  BY DEF TypeOK
<1>2. \A o \in Thread : o # th => run[o].pc = "idle" /\ run[o].op = "none"
  BY OthersIdle
<1> QED
  BY <1>1, <1>2

(* A thread that is idle has nothing in its hands.                          *)
LEMMA IdleWorks ==
  ASSUME NEW th \in Thread, run'[th].pc = "idle", run'[th].op = "none"
  PROVE  WritesAt(run[th])' /\ HoldsAt(run[th])'
BY DEF WritesAt, HoldsAt

LEMMA TextSame ==
  ASSUME TypeOK, file' = file, file # 0 => data'[file] = data[file]
  PROVE  Text' = Text /\ OpenEnd' = OpenEnd
BY DEF Text, OpenEnd, Lines

LEMMA SentType ==
  ASSUME TypeOK, Formed
  PROVE  Sent \in Nat /\ Sent <= posted /\ posted \in Nat /\ posted - 1 <= Sent
<1>1. posted \in Nat
  BY Constants DEF TypeOK
<1>2. (\E th \in Thread : run[th].pc = "write") => posted > 0
  BY <1>1 DEF Formed
<1> QED
  BY <1>1, <1>2 DEF Sent

LEMMA SentTypeNext ==
  ASSUME TypeOK', Formed'
  PROVE  Sent' \in Nat /\ Sent' <= posted' /\ posted' \in Nat /\ posted' - 1 <= Sent'
<1>1. posted' \in Nat
  BY Constants DEF TypeOK
<1>2. (\E th \in Thread : run'[th].pc = "write") => posted' > 0
  BY <1>1 DEF Formed
<1>3. Sent' = IF \E th \in Thread : run'[th].pc = "write" THEN posted' - 1 ELSE posted'
  BY DEF Sent
<1> DEFINE p == posted'
           x == Sent'
<1>4. p \in Nat /\ ((x = p - 1 /\ p > 0) \/ x = p)
  BY <1>1, <1>2, <1>3
<1> HIDE DEF p, x
<1>5. x \in Nat /\ x <= p /\ p - 1 <= x
  BY <1>4
<1> QED
  BY <1>4, <1>5 DEF p, x

-----------------------------------------------------------------------------
(* What a step does to the file.                                            *)

LEMMA StoredRange ==
  ASSUME TypeOK, Formed
  PROVE  /\ \A m \in stored \cup Pending : m \in Nat /\ m \in 1 .. posted /\ m <= posted
         /\ cut \in Nat
<1>1. posted \in 0 .. MaxMsgs /\ stored \in SUBSET (1 .. posted) /\ cut \in 0 .. posted
  BY DEF TypeOK
<1>2. \A th \in Thread : run[th].op = "append" => run[th].id \in 1 .. posted
  BY DEF Formed
<1> QED
  BY <1>1, <1>2, Constants DEF Pending

(* Most steps leave it as it is.                                            *)
LEMMA SameText ==
  ASSUME TypeOK, Formed, TypeOK', Formed', Ordered, OpenLast, Close,
         Text' = Text, OpenEnd' => OpenEnd /\ stored' = stored, glued' = glued,
         stored' \cup Pending' \subseteq stored \cup Pending,
         cut' >= cut, posted' >= posted, Sent' >= Sent
  PROVE  Ordered' /\ OpenLast' /\ Close'
<1> DEFINE s == Text
<1>1. s \in Seq(Line) /\ Len(s) \in Nat /\ \A i \in 1 .. Len(s) : s[i] \in Line /\ s[i] \in Int
  <2>1. s \in Seq(Line)
    BY TextType
  <2>2. Len(s) \in Nat /\ \A i \in 1 .. Len(s) : s[i] \in Line
    BY <2>1, SeqFacts
  <2> HIDE DEF s
  <2>3. \A i \in 1 .. Len(s) : s[i] \in Int
    BY <2>2, Constants
  <2> QED
    BY <2>1, <2>2, <2>3
<1>2. Text' = s /\ OrderIn(s) /\ BoundIn(s, Sent)
  BY DEF Ordered
<1>3. OpenEnd => s[Len(s)] \notin stored
  BY DEF OpenLast
<1> HIDE DEF s
<1>4. /\ Sent \in Nat /\ Sent' \in Nat /\ posted \in Nat /\ posted' \in Nat
      /\ cut \in Nat /\ cut' \in Int
  <2>1. cut' \in 0 .. posted'
    BY DEF TypeOK
  <2> QED
    BY <2>1, SentType, SentTypeNext, StoredRange
<1>5. Ordered'
  <2>1. \A i \in 1 .. Len(s) : s[i] <= Sent'
    BY <1>1, <1>2, <1>4 DEF BoundIn
  <2> QED
    BY <1>2, <2>1 DEF Ordered, OrderIn, BoundIn
<1>6. OpenLast'
  BY <1>2, <1>3 DEF OpenLast
<1>7. ASSUME NEW m \in (stored' \cup Pending') \ (Wide \cup glued'), Due(m)'
      PROVE  Within(s, m, Behind(m, Sent'))
  <2>1. m \in (stored \cup Pending) \ (Wide \cup glued) /\ m \in Nat
    BY StoredRange
  <2>2. /\ Behind(m, posted) <= Behind(m, posted') /\ Behind(m, Sent) <= Behind(m, Sent')
        /\ Behind(m, posted) \in Int /\ Behind(m, posted') \in Int
        /\ Behind(m, Sent) \in Int /\ Behind(m, Sent') \in Int
    BY <1>4, <2>1, BehindGrows, BehindType
  <2>3. m > cut' /\ (Cap = 0 \/ Behind(m, posted') < Cap)
    BY <1>7 DEF Due, Later, Behind
  <2>4. m > cut /\ (Cap = 0 \/ Behind(m, posted) < Cap)
    BY <1>4, <2>1, <2>2, <2>3, Constants
  <2>5. Due(m)
    BY <2>4 DEF Due, Later, Behind
  <2>6. Within(s, m, Behind(m, Sent))
    BY <2>1, <2>5 DEF Close, s
  <2> QED
    BY <1>1, <2>2, <2>6, WithinMore
<1>8. Close'
  BY <1>2, <1>7 DEF Close, Within, Behind
<1> QED
  BY <1>5, <1>6, <1>8


(* A write adds what is newer than everything before it, at the end; a last *)
(* line without newline is lost by it, and that was no record anybody was   *)
(* promised.                                                                *)
LEMMA PutText ==
  ASSUME TypeOK, Formed, TypeOK', Formed', Ordered, OpenLast, Close,
         Sent = posted - 1, posted \in 1 .. MaxMsgs, posted \notin stored, Pending = {},
         NEW L \in {Written(posted)} \cup Torn(posted), NEW o \in BOOLEAN,
         Joins(Text, OpenEnd, posted, L, Text'), OpenEnd' = o,
         glued' = IF OpenEnd THEN glued \cup {posted} ELSE glued,
         posted' = posted, stored' = stored, cut' = cut, Sent' = posted,
         Pending' \subseteq {posted}, Pending' # {} => L = Written(posted)
  PROVE  Ordered' /\ OpenLast' /\ Close'
<1> DEFINE s == Text
           t == Text'
           p == posted
<1>1. s \in Seq(Line) /\ Len(s) \in Nat /\ \A i \in 1 .. Len(s) : s[i] \in Line /\ s[i] \in Int
  <2>1. s \in Seq(Line)
    BY TextType
  <2>2. Len(s) \in Nat /\ \A i \in 1 .. Len(s) : s[i] \in Line
    BY <2>1, SeqFacts
  <2> HIDE DEF s
  <2>3. \A i \in 1 .. Len(s) : s[i] \in Int
    BY <2>2, Constants
  <2> QED
    BY <2>1, <2>2, <2>3
<1>2. OrderIn(s) /\ BoundIn(s, p - 1) /\ (OpenEnd => s[Len(s)] \notin stored)
  BY DEF Ordered, OpenLast
<1>3. /\ Piece(p, L) /\ Len(L) <= (IF p \in Wide THEN 2 ELSE 1)
      /\ (p \notin Wide => Written(p) = <<p>>)
  BY WrittenFacts
<1>4. Len(L) \in {1, 2}
  BY <1>3, PieceFacts
<1>5. /\ t \in Seq(Line) /\ t # <<>>
      /\ Len(t) = Len(s) + Len(L) - (IF OpenEnd THEN 1 ELSE 0)
      /\ \A i \in 1 .. Len(s) : IF OpenEnd /\ i = Len(s) THEN t[i] < 0 ELSE t[i] = s[i]
      /\ \A i \in Len(s) + 1 .. Len(t) :
           t[i] = -p \/ (t[i] = p /\ i = Len(s) + 1 /\ i = Len(t))
      /\ ~OpenEnd /\ L = <<p>> => t[Len(t)] = p
  BY DEF Joins
<1>6. p \in Nat /\ p > 0
  OBVIOUS
<1>7. Text' = t
  OBVIOUS
<1> HIDE DEF s, t, p
<1>8. /\ Len(t) \in Nat /\ Len(t) > 0
      /\ \A i \in 1 .. Len(t) : t[i] \in Int /\ (i \in 1 .. Len(s) \/ i \in Len(s) + 1 .. Len(t))
  <2>1. Len(t) \in Nat /\ (\A i \in 1 .. Len(t) : t[i] \in Line) /\ Len(t) # 0
    BY <1>5, SeqFacts, EmptySeq
  <2>2. \A i \in 1 .. Len(t) : t[i] \in Int
    BY <2>1, Constants
  <2> QED
    BY <1>1, <2>1, <2>2
<1>16. Len(t) >= Len(s) /\ Len(t) <= Len(s) + Len(L) /\ (Len(t) = Len(s) => OpenEnd)
  <2>1. CASE OpenEnd
    <3>1. Len(t) = Len(s) + Len(L) - 1
      BY <1>5, <2>1
    <3> DEFINE a == Len(s)
               b == Len(L)
               c == Len(t)
    <3>2. a \in Int /\ b \in {1, 2} /\ c = a + b - 1
      BY <1>1, <1>4, <3>1
    <3> HIDE DEF a, b, c
    <3>3. c >= a /\ c <= a + b
      BY <3>2
    <3> QED
      BY <2>1, <3>3 DEF a, b, c
  <2>2. CASE ~OpenEnd
    <3>1. Len(t) = Len(s) + Len(L) - 0
      BY <1>5, <2>2
    <3> DEFINE a == Len(s)
               b == Len(L)
               c == Len(t)
    <3>2. a \in Int /\ b \in {1, 2} /\ c = a + b - 0
      BY <1>1, <1>4, <3>1
    <3> HIDE DEF a, b, c
    <3>3. c >= a /\ c <= a + b /\ c # a
      BY <3>2
    <3> QED
      BY <3>3 DEF a, b, c
  <2> QED
    BY <2>1, <2>2
<1>9. ASSUME NEW i \in 1 .. Len(t), t[i] > 0
      PROVE  \/ i \in 1 .. Len(s) /\ t[i] = s[i] /\ t[i] < p
             \/ t[i] = p /\ i = Len(s) + 1 /\ i = Len(t)
  <2>1. CASE i \in 1 .. Len(s)
    <3>1. t[i] = s[i]
      BY <1>5, <1>8, <1>9, <2>1
    <3>2. s[i] <= p - 1
      BY <1>2, <2>1 DEF BoundIn
    <3> QED
      BY <1>1, <1>6, <2>1, <3>1, <3>2
  <2>2. CASE i \in Len(s) + 1 .. Len(t)
    <3>1. -p < 0
      BY <1>6
    <3> QED
      BY <1>5, <1>8, <1>9, <2>2, <3>1
  <2> QED
    BY <1>8, <2>1, <2>2
<1>10. OrderIn(t)
  <2>1. SUFFICES ASSUME NEW i \in 1 .. Len(t), NEW j \in 1 .. Len(t), i < j, t[i] > 0, t[j] > 0
                 PROVE  t[i] < t[j]
    BY DEF OrderIn
  <2>2. i \in 1 .. Len(s) /\ t[i] = s[i] /\ t[i] < p
    BY <1>1, <1>8, <1>9, <2>1
  <2>3. CASE j \in 1 .. Len(s) /\ t[j] = s[j]
    BY <1>2, <2>1, <2>2, <2>3 DEF OrderIn
  <2>4. CASE t[j] = p
    BY <2>2, <2>4
  <2> QED
    BY <1>9, <2>1, <2>3, <2>4
<1>11. BoundIn(t, p)
  <2>1. ASSUME NEW i \in 1 .. Len(t) PROVE t[i] <= p
    <3>1. CASE t[i] > 0
      BY <1>6, <1>8, <1>9, <3>1
    <3>2. CASE ~ (t[i] > 0)
      BY <1>6, <1>8, <3>2
    <3> QED
      BY <3>1, <3>2
  <2> QED
    BY <2>1 DEF BoundIn
<1>12. Ordered'
  BY <1>7, <1>10, <1>11 DEF Ordered, OrderIn, BoundIn, p
<1>13. OpenLast'
  <2>1. t[Len(t)] \notin stored
    <3>1. stored \in SUBSET (1 .. p) /\ p \notin stored
      BY DEF TypeOK, p
    <3>2. Len(t) \in 1 .. Len(t) /\ t[Len(t)] \in Int
      BY <1>8
    <3>3. CASE t[Len(t)] > 0
      <4>1. Len(t) \notin 1 .. Len(s)
        <5>1. SUFFICES ASSUME Len(t) \in 1 .. Len(s) PROVE FALSE
          OBVIOUS
        <5>2. Len(t) = Len(s) /\ OpenEnd
          BY <1>1, <1>8, <1>16, <5>1
        <5>3. t[Len(t)] < 0
          BY <1>5, <5>1, <5>2
        <5> QED
          BY <1>8, <3>2, <3>3, <5>3
      <4> QED
        BY <1>9, <3>1, <3>2, <3>3, <4>1
    <3>4. CASE ~ (t[Len(t)] > 0)
      BY <1>6, <3>1, <3>2, <3>4
    <3> QED
      BY <3>3, <3>4
  <2> QED
    BY <1>7, <2>1 DEF OpenLast
<1>14. ASSUME NEW m \in (stored' \cup Pending') \ (Wide \cup glued'), Due(m)'
       PROVE  Within(t, m, Behind(m, p))
  <2>1. m \in 1 .. p /\ m \in Nat
    BY StoredRange, <1>6 DEF TypeOK, p
  <2>2. CASE m = p
    <3>1. m \in Pending'
      BY <2>2 DEF p
    <3>2. L = <<p>> /\ ~OpenEnd
      BY <1>3, <2>2, <3>1 DEF p
    <3>3. t[Len(t)] = p /\ Len(t) \in 1 .. Len(t) /\ Len(t) - Len(t) = 0
      BY <1>5, <1>8, <3>2
    <3>4. Behind(p, p) >= 0
      BY <1>6, BehindNothing
    <3>5. Len(t) - Len(t) <= Behind(m, p)
      BY <2>2, <3>3, <3>4
    <3> QED
      BY <2>2, <3>3, <3>5 DEF Within
  <2>3. CASE m # p
    <3>1. m \in stored /\ m < p /\ m \in (stored \cup Pending) \ (Wide \cup glued)
      BY <1>6, <2>1, <2>3 DEF p
    <3>2. Due(m)
      BY <1>14 DEF Due, Later
    <3>3. Within(s, m, Behind(m, p - 1))
      BY <3>1, <3>2 DEF Close, s, p
    <3>4. PICK i \in 1 .. Len(s) : s[i] = m /\ Len(s) - i <= Behind(m, p - 1)
      BY <3>3 DEF Within
    <3>5. ~ (OpenEnd /\ i = Len(s))
      BY <1>2, <3>1, <3>4
    <3>6. t[i] = m
      BY <1>5, <3>4, <3>5
    <3>7. Behind(m, p) = Behind(m, p - 1) + IF p \in Wide THEN 2 ELSE 1
      BY <1>6, <2>1, <3>1, BehindNext
    <3>8. Len(t) <= Len(s) + Len(L) /\ Len(t) >= Len(s)
      BY <1>16
    <3>9. Behind(m, p) \in Int /\ Behind(m, p - 1) \in Int
      <4>1. p - 1 \in Nat
        BY <1>6
      <4> QED
        BY <1>6, <2>1, <4>1, BehindType
    <3>10. i \in 1 .. Len(t) /\ Len(t) - i <= Behind(m, p)
      <4> DEFINE w == IF p \in Wide THEN 2 ELSE 1
                 x == Behind(m, p - 1)
                 y == Behind(m, p)
      <4>1. w \in Int /\ Len(L) <= w /\ y = x + w /\ x \in Int /\ y \in Int /\ Len(s) - i <= x
        BY <1>3, <3>4, <3>7, <3>9
      <4> HIDE DEF w, x, y
      <4>2. Len(t) - i <= y
        BY <1>1, <1>4, <1>8, <3>4, <3>8, <4>1
      <4> QED
        BY <1>1, <1>8, <3>4, <3>8, <4>2 DEF y
    <3> QED
      BY <3>6, <3>10 DEF Within
  <2> QED
    BY <2>2, <2>3
<1>15. Close'
  BY <1>7, <1>14 DEF Close, Within, Behind, p
<1> QED
  BY <1>12, <1>13, <1>15


(* A rewrite takes away what is older than the cap allows or is settled.    *)
LEMMA RewriteText ==
  ASSUME TypeOK, Formed, TypeOK', Formed', Ordered, Close,
         ~ OpenEnd', glued' = glued, stored' \cup Pending' \subseteq stored \cup Pending,
         Sent = posted, posted' = posted, cut' = cut, Sent' = posted,
         \/ Cap > 0 /\ Len(Text) > Cap /\ Text' = LastOf(Text, Cap)
         \/ \E id \in 1 .. cut : Text' = Survivors(Text, id)
  PROVE  Ordered' /\ OpenLast' /\ Close'
<1> DEFINE s == Text
           t == Text'
           p == posted
<1>1. s \in Seq(Line) /\ Len(s) \in Nat /\ \A i \in 1 .. Len(s) : s[i] \in Line /\ s[i] \in Int
  <2>1. s \in Seq(Line)
    BY TextType
  <2>2. Len(s) \in Nat /\ \A i \in 1 .. Len(s) : s[i] \in Line
    BY <2>1, SeqFacts
  <2> HIDE DEF s
  <2>3. \A i \in 1 .. Len(s) : s[i] \in Int
    BY <2>2, Constants
  <2> QED
    BY <2>1, <2>2, <2>3
<1>2. OrderIn(s) /\ BoundIn(s, p)
  BY DEF Ordered
<1>3. Text' = t
  OBVIOUS
<1>4. p \in Nat /\ cut \in Nat /\ Cap \in Nat
  BY SentType, StoredRange, Constants
<1>5. \/ Cap > 0 /\ Len(s) > Cap /\ t = LastOf(s, Cap)
      \/ \E id \in 1 .. cut : t = Survivors(s, id)
  OBVIOUS
<1>6. ASSUME NEW m \in (stored' \cup Pending') \ (Wide \cup glued'), Due(m)'
      PROVE  /\ m > cut /\ (Cap = 0 \/ Behind(m, p) < Cap) /\ m \in Nat
             /\ Behind(m, p) \in Int
             /\ \E i \in 1 .. Len(s) : s[i] = m /\ Len(s) - i <= Behind(m, p)
  <2>1. m \in (stored \cup Pending) \ (Wide \cup glued) /\ m \in Nat
    BY StoredRange
  <2>2. Due(m) /\ m > cut /\ (Cap = 0 \/ Behind(m, p) < Cap)
    BY <1>6 DEF Due, Later, Behind
  <2>3. Within(s, m, Behind(m, p))
    BY <2>1, <2>2 DEF Close
  <2>4. Behind(m, p) \in Int
    BY <1>4, <2>1, BehindType
  <2> QED
    BY <2>1, <2>2, <2>3, <2>4 DEF Within
<1> HIDE DEF s, t, p
<1>7. CASE Cap > 0 /\ Len(s) > Cap /\ t = LastOf(s, Cap)
  <2>1. Len(t) = Cap /\ \A i \in 1 .. Cap : t[i] = s[Len(s) - Cap + i]
    BY <1>1, <1>4, <1>7, LastOfFacts
  <2>2. \A i \in 1 .. Cap : Len(s) - Cap + i \in 1 .. Len(s)
    BY <1>1, <1>4, <1>7
  <2>3. OrderIn(t)
    <3>1. SUFFICES ASSUME NEW i \in 1 .. Cap, NEW j \in 1 .. Cap, i < j, t[i] > 0, t[j] > 0
                   PROVE  t[i] < t[j]
      BY <2>1 DEF OrderIn
    <3> DEFINE a == Len(s) - Cap + i
               b == Len(s) - Cap + j
    <3>2. t[i] = s[a] /\ t[j] = s[b]
      BY <2>1
    <3>3. a \in 1 .. Len(s) /\ b \in 1 .. Len(s)
      BY <2>2
    <3>4. a < b
      BY <1>1, <1>4, <3>1
    <3> HIDE DEF a, b
    <3> QED
      BY <1>2, <3>1, <3>2, <3>3, <3>4 DEF OrderIn
  <2>4. BoundIn(t, p)
    BY <1>2, <2>1, <2>2 DEF BoundIn
  <2>5. ASSUME NEW m \in (stored' \cup Pending') \ (Wide \cup glued'), Due(m)'
        PROVE  Within(t, m, Behind(m, p))
    <3>1. /\ Behind(m, p) < Cap /\ Behind(m, p) \in Int
          /\ \E i \in 1 .. Len(s) : s[i] = m /\ Len(s) - i <= Behind(m, p)
      BY <1>4, <1>6, <1>7, <2>5
    <3>2. PICK i \in 1 .. Len(s) : s[i] = m /\ Len(s) - i <= Behind(m, p)
      BY <3>1
    <3> DEFINE d == Behind(m, p)
               j == i - (Len(s) - Cap)
    <3>3. d < Cap /\ d \in Int /\ Len(s) - i <= d
      BY <3>1, <3>2
    <3> HIDE DEF d
    <3>4. j \in 1 .. Cap /\ Len(s) - Cap + j = i /\ Cap - j <= d
      BY <1>1, <1>4, <1>7, <3>2, <3>3
    <3> HIDE DEF j
    <3>5. t[j] = m /\ j \in 1 .. Len(t) /\ Len(t) - j <= d
      BY <2>1, <3>2, <3>4
    <3> QED
      BY <3>5 DEF Within, d
  <2> QED
    BY <1>3, <2>3, <2>4, <2>5
      DEF Ordered, OrderIn, BoundIn, OpenLast, Close, Within, Behind, p
<1>8. ASSUME NEW id \in 1 .. cut, t = Survivors(s, id)
      PROVE  Ordered' /\ OpenLast' /\ Close'
  <2>1. id \in Nat /\ id <= cut
    BY <1>4
  <2>2. KeptOf(t, s, id, Len(s))
    BY <1>1, <1>8, <2>1, SurvivorsKept
  <2>3. /\ Len(t) \in Nat
        /\ \A a \in 1 .. Len(t) : \E i \in 1 .. Len(s) : s[i] = t[a]
        /\ \A i \in 1 .. Len(s) : s[i] > id => Within(t, s[i], Len(s) - i)
        /\ OrderIn(t) /\ t \in Seq(Line)
    BY <1>2, <2>2, SeqFacts DEF KeptOf
  <2>4. BoundIn(t, p)
    BY <1>2, <2>3 DEF BoundIn
  <2>5. ASSUME NEW m \in (stored' \cup Pending') \ (Wide \cup glued'), Due(m)'
        PROVE  Within(t, m, Behind(m, p))
    <3>1. /\ m > cut /\ m \in Nat /\ Behind(m, p) \in Int
          /\ \E i \in 1 .. Len(s) : s[i] = m /\ Len(s) - i <= Behind(m, p)
      BY <1>6, <2>5
    <3>2. PICK i \in 1 .. Len(s) : s[i] = m /\ Len(s) - i <= Behind(m, p)
      BY <3>1
    <3>3. s[i] > id
      BY <1>4, <2>1, <3>1, <3>2
    <3>4. Within(t, m, Len(s) - i)
      BY <2>3, <3>2, <3>3
    <3>5. Len(s) - i \in Int
      BY <1>1
    <3> QED
      BY <2>3, <3>1, <3>2, <3>4, <3>5, WithinMore
  <2> QED
    BY <1>3, <2>3, <2>4, <2>5
      DEF Ordered, OrderIn, BoundIn, OpenLast, Close, Within, Behind, p
<1> QED
  BY <1>5, <1>7, <1>8


-----------------------------------------------------------------------------
(* Every step keeps the peace.                                              *)

Firm == TypeOK /\ Formed /\ TypeOK' /\ Formed'

LEMMA WorkingFrom ==
  ASSUME NEW th \in Thread,
         \A o \in Thread : o # th => run'[o].pc = "idle" /\ run'[o].op = "none",
         WritesAt(run[th])', HoldsAt(run[th])'
  PROVE  Working'
<1>1. \A o \in Thread : o # th => WritesAt(run[o])' /\ HoldsAt(run[o])'
  BY IdleWorks
<1> QED
  BY <1>1 DEF Working

LEMMA EndCalm ==
  ASSUME TypeOK, Solo, Working, NEW th \in Thread, run[th].pc # "idle", End(th)
  PROVE  Solo' /\ Working' /\ Sent' = posted' /\ Pending' = {}
<1>1. run' = [run EXCEPT ![th] = Idle]
  BY DEF End
<1>2. /\ \A o \in Thread : o # th => run'[o].pc = "idle" /\ run'[o].op = "none"
      /\ run'[th] = Idle
  BY <1>1, StillIdle
<1>3. run'[th].pc = "idle" /\ run'[th].op = "none"
  BY <1>2, IdleType
<1>4. WritesAt(run[th])' /\ HoldsAt(run[th])'
  BY <1>3, IdleWorks
<1>5. Working'
  BY <1>2, <1>4, WorkingFrom
<1>6. Solo' /\ Sent' = posted' /\ Pending' = {}
  BY <1>2, <1>3, AloneAfter
<1> QED
  BY <1>5, <1>6

LEMMA NowAt ==
  ASSUME Solo, Working, NEW th \in Thread, run[th].pc # "idle"
  PROVE  /\ WritesAt(run[th]) /\ HoldsAt(run[th])
         /\ Sent = IF run[th].pc = "write" THEN posted - 1 ELSE posted
         /\ Pending = IF run[th].op = "append" /\ run[th].pc # "write"
                      THEN {run[th].id} ELSE {}
<1>1. \A o \in Thread : o # th => run[o].pc = "idle" /\ run[o].op = "none"
  BY OthersIdle
<1> QED
  BY <1>1, AloneBefore DEF Working

(* An operation begins beside nothing, or overlap says so.                  *)
LEMMA BeginView ==
  ASSUME TypeOK, Calm, NEW th \in Thread, NEW op \in {"append", "ack"}, NEW id \in Nat,
         NEW pc \in Pc \ {"idle"}, Begin(th, op, id, pc), ~overlap'
  PROVE  /\ \A o \in Thread : o # th => run'[o].pc = "idle" /\ run'[o].op = "none"
         /\ run'[th].pc = pc /\ run'[th].op = op /\ run'[th].id = id
         /\ Sent = posted /\ Pending = {}
<1>1. /\ run' = [run EXCEPT ![th] = [Idle EXCEPT !.pc = pc, !.op = op, !.id = id]]
      /\ \A o \in Thread : run[o].pc = "idle"
  BY DEF Begin
<1>2. \A o \in Thread : run[o].pc = "idle" /\ run[o].op = "none"
  BY <1>1 DEF Calm, Working, WritesAt
<1>3. run \in [Thread -> Run]
  BY DEF TypeOK
<1>4. /\ \A o \in Thread : o # th => run'[o] = run[o]
      /\ run'[th] = [Idle EXCEPT !.pc = pc, !.op = op, !.id = id]
  BY <1>1, <1>3
<1>5. run'[th].pc = pc /\ run'[th].op = op /\ run'[th].id = id
  BY <1>4 DEF Idle
<1>6. Sent = posted /\ Pending = {}
  BY <1>2 DEF Sent, Pending
<1> QED
  BY <1>2, <1>4, <1>5, <1>6

LEMMA StartAppendCalm ==
  ASSUME Firm, Calm, NEW th \in Thread, StartAppend(th), ~overlap'
  PROVE  Calm'
<1>1. /\ posted' = posted + 1 /\ Begin(th, "append", posted + 1, "write")
      /\ data' = data /\ file' = file /\ tmp' = tmp /\ quar' = quar
      /\ stored' = stored /\ cut' = cut /\ glued' = glued
  BY DEF StartAppend, fsVars
<1>2. posted \in Nat /\ posted' \in Nat /\ stored \in SUBSET (1 .. posted) /\ cut \in Nat
  BY SentType, SentTypeNext, StoredRange DEF Firm, TypeOK
<1>3. /\ \A o \in Thread : o # th => run'[o].pc = "idle" /\ run'[o].op = "none"
      /\ run'[th].pc = "write" /\ run'[th].op = "append" /\ run'[th].id = posted'
      /\ Sent = posted /\ Pending = {}
  <2>1. "write" \in Pc \ {"idle"} /\ "append" \in {"append", "ack"} /\ posted + 1 \in Nat
    BY <1>2 DEF Pc
  <2> QED
    BY <1>1, <2>1, BeginView DEF Firm
<1>4. Solo' /\ Sent' = posted' - 1 /\ Pending' = {}
  BY <1>3, AloneAfter
<1>5. Text' = Text /\ OpenEnd' = OpenEnd
  BY <1>1, TextSame DEF Firm
<1>6. posted' \notin stored'
  BY <1>1, <1>2
<1>7. Working'
  <2>1. WritesAt(run[th])' /\ HoldsAt(run[th])'
    BY <1>3, <1>6 DEF WritesAt, HoldsAt
  <2> QED
    BY <1>3, <2>1, WorkingFrom
<1>8. Ordered' /\ OpenLast' /\ Close'
  <2>1. /\ stored' \cup Pending' \subseteq stored \cup Pending
        /\ cut' >= cut /\ posted' >= posted /\ Sent' >= Sent
    BY <1>1, <1>2, <1>3, <1>4
  <2> QED
    BY <1>1, <1>5, <2>1, SameText DEF Firm, Calm
<1> QED
  BY <1>1, <1>4, <1>7, <1>8 DEF Calm, Apart

LEMMA StartAckCalm ==
  ASSUME Firm, Calm, NEW th \in Thread, NEW last \in 1 .. posted, StartAck(th, last), ~overlap'
  PROVE  Calm'
<1>1. /\ Begin(th, "ack", last, "scan") /\ cut' = IF last > cut THEN last ELSE cut
      /\ data' = data /\ file' = file /\ tmp' = tmp /\ quar' = quar
      /\ stored' = stored /\ posted' = posted /\ glued' = glued
  BY DEF StartAck, fsVars, counters
<1>2. posted \in Nat /\ cut \in Nat /\ last \in Nat /\ last > 0
  BY SentType, StoredRange DEF Firm
<1>3. /\ \A o \in Thread : o # th => run'[o].pc = "idle" /\ run'[o].op = "none"
      /\ run'[th].pc = "scan" /\ run'[th].op = "ack" /\ run'[th].id = last
      /\ Sent = posted /\ Pending = {}
  <2>1. "scan" \in Pc \ {"idle"} /\ "ack" \in {"append", "ack"}
    BY DEF Pc
  <2> QED
    BY <1>1, <1>2, <2>1, BeginView DEF Firm
<1>4. Solo' /\ Sent' = posted' /\ Pending' = {}
  BY <1>3, AloneAfter
<1>5. Text' = Text /\ OpenEnd' = OpenEnd
  BY <1>1, TextSame DEF Firm
<1>6. cut' >= cut /\ last \in 1 .. cut'
  BY <1>1, <1>2
<1>7. Working'
  <2>1. WritesAt(run[th])' /\ HoldsAt(run[th])'
    BY <1>3, <1>6 DEF WritesAt, HoldsAt
  <2> QED
    BY <1>3, <2>1, WorkingFrom
<1>8. Ordered' /\ OpenLast' /\ Close'
  <2>1. /\ stored' \cup Pending' \subseteq stored \cup Pending
        /\ posted' >= posted /\ Sent' >= Sent
    BY <1>1, <1>2, <1>3, <1>4
  <2> QED
    BY <1>1, <1>5, <1>6, <2>1, SameText DEF Firm, Calm
<1> QED
  BY <1>1, <1>4, <1>7, <1>8 DEF Calm, Apart

(* The thread that writes, and what its bytes do.                           *)
LEMMA PutCalm ==
  ASSUME Firm, Calm, NEW th \in Thread, run[th].pc = "write",
         NEW L \in {Written(run[th].id)} \cup Torn(run[th].id),
         NEW o \in BOOLEAN, NEW b \in BOOLEAN, Put(run[th].id, L, o, b),
         posted' = posted, stored' = stored, cut' = cut, tmp' = tmp, Sent' = posted,
         Pending' \subseteq {posted}, Pending' # {} => L = Written(posted)
  PROVE  Ordered' /\ OpenLast' /\ Close' /\ Apart' /\ OpenEnd' = o
<1>1. /\ WritesAt(run[th]) /\ Sent = posted - 1 /\ Pending = {}
  BY NowAt DEF Calm
<1>2. run[th].id = posted /\ posted \notin stored
  BY <1>1 DEF WritesAt
<1>3. posted \in 1 .. posted /\ posted \in 1 .. MaxMsgs
  BY <1>2, Constants DEF Firm, Formed, TypeOK
<1>4. Piece(posted, L)
  BY <1>2, <1>3, WrittenFacts
<1>5. /\ file' \in Inode /\ OpenEnd' = o /\ Joins(Text, OpenEnd, posted, L, Text')
      /\ glued' = IF OpenEnd THEN glued \cup {posted} ELSE glued
      /\ file' = tmp => file = tmp
  BY <1>2, <1>3, <1>4, PutFacts DEF Firm
<1>6. Apart'
  BY <1>5 DEF Calm, Apart, Inode
<1>7. Ordered' /\ OpenLast' /\ Close'
  BY <1>1, <1>2, <1>3, <1>5, PutText DEF Firm, Calm
<1> QED
  BY <1>5, <1>6, <1>7

LEMMA WriteCalm ==
  ASSUME Firm, Calm, NEW th \in Thread, Write(th)
  PROVE  Calm'
<1>1. /\ run[th].pc = "write" /\ Put(run[th].id, Written(run[th].id), FALSE, FALSE)
      /\ run' = [run EXCEPT ![th] = [run[th] EXCEPT !.pc = "trim"]]
      /\ tmp' = tmp /\ posted' = posted /\ stored' = stored /\ cut' = cut
  BY DEF Write, Goto, counters
<1>2. WritesAt(run[th])
  BY <1>1, NowAt DEF Calm
<1>3. run[th].op = "append" /\ run[th].id = posted /\ posted \notin stored
  BY <1>1, <1>2 DEF WritesAt
<1>4. /\ \A o \in Thread : o # th => run'[o].pc = "idle" /\ run'[o].op = "none"
      /\ run'[th] = [run[th] EXCEPT !.pc = "trim"]
  BY <1>1, StillIdle DEF Calm, Firm
<1>5. run[th] \in Run
  BY DEF Firm, TypeOK
<1>6. run'[th].pc = "trim" /\ run'[th].op = "append" /\ run'[th].id = posted
  BY <1>3, <1>4, <1>5 DEF Run
<1>7. Solo' /\ Sent' = posted /\ Pending' = {posted}
  BY <1>1, <1>4, <1>6, AloneAfter
<1>8. Ordered' /\ OpenLast' /\ Close' /\ Apart' /\ OpenEnd' = FALSE
  BY <1>1, <1>3, <1>7, PutCalm
<1>9. Working'
  <2>1. WritesAt(run[th])' /\ HoldsAt(run[th])'
    BY <1>1, <1>3, <1>6, <1>8 DEF WritesAt, HoldsAt
  <2> QED
    BY <1>4, <2>1, WorkingFrom
<1> QED
  BY <1>7, <1>8, <1>9 DEF Calm

(* The ends of an operation that leave the file as it was.                  *)
LEMMA QuietEnd ==
  ASSUME Firm, Calm, NEW th \in Thread, run[th].pc # "idle", End(th),
         Text' = Text, OpenEnd' = OpenEnd, file' = file, tmp' = tmp, glued' = glued,
         posted' = posted, cut' = cut,
         \/ stored' = stored
         \/ run[th].pc = "trim" /\ stored' = stored \cup {run[th].id}
  PROVE  Calm'
<1>1. Solo' /\ Working' /\ Sent' = posted /\ Pending' = {}
  BY EndCalm DEF Firm, Calm
<1>2. posted \in Nat /\ Sent \in Nat /\ Sent <= posted /\ cut \in Nat
  BY SentType, StoredRange DEF Firm
<1>3. /\ stored' \subseteq stored \cup Pending
      /\ OpenEnd => stored' = stored
  <2>1. CASE stored' = stored
    BY <2>1
  <2>2. CASE run[th].pc = "trim" /\ stored' = stored \cup {run[th].id}
    <3>1. WritesAt(run[th]) /\ (run[th].op = "append" => Pending = {run[th].id})
      BY <2>2, NowAt DEF Calm
    <3>2. run[th].op = "append" /\ ~OpenEnd
      BY <2>2, <3>1 DEF WritesAt
    <3> QED
      BY <2>2, <3>1, <3>2
  <2> QED
    BY <2>1, <2>2
<1>4. Ordered' /\ OpenLast' /\ Close'
  <2>1. /\ stored' \cup Pending' \subseteq stored \cup Pending
        /\ cut' >= cut /\ posted' >= posted /\ Sent' >= Sent
        /\ (OpenEnd' => OpenEnd /\ stored' = stored)
    BY <1>1, <1>2, <1>3
  <2> QED
    BY <2>1, SameText DEF Firm, Calm
<1> QED
  BY <1>1, <1>4 DEF Calm, Apart


LEMMA WriteErrorCalm ==
  ASSUME Firm, Calm, NEW th \in Thread, WriteError(th)
  PROVE  Calm'
<1>1. /\ run[th].pc = "write" /\ End(th)
      /\ \/ PutPart(run[th].id)
         \/ Put(run[th].id, Written(run[th].id), FALSE, FALSE)
         \/ UNCHANGED <<data, file, glued>>
      /\ tmp' = tmp /\ posted' = posted /\ stored' = stored /\ cut' = cut
  BY DEF WriteError
<1>2. Solo' /\ Working' /\ Sent' = posted /\ Pending' = {}
  BY <1>1, EndCalm DEF Firm, Calm
<1>3. CASE UNCHANGED <<data, file, glued>>
  <2>1. Text' = Text /\ OpenEnd' = OpenEnd
    BY <1>3, TextSame DEF Firm
  <2> QED
    BY <1>1, <1>3, <2>1, QuietEnd
<1>4. ASSUME NEW L \in {Written(run[th].id)} \cup Torn(run[th].id),
             NEW o \in BOOLEAN, NEW b \in BOOLEAN, Put(run[th].id, L, o, b)
      PROVE  Calm'
  <2>1. Ordered' /\ OpenLast' /\ Close' /\ Apart'
    BY <1>1, <1>2, <1>4, PutCalm
  <2> QED
    BY <1>2, <2>1 DEF Calm
<1>5. PutPart(run[th].id) =>
        \E L \in Torn(run[th].id), b \in BOOLEAN : Put(run[th].id, L, TRUE, b)
  BY DEF PutPart
<1> QED
  BY <1>1, <1>3, <1>4, <1>5

(* A step inside an operation that leaves the file as it was.               *)
LEMMA QuietStep ==
  ASSUME Firm, Calm, NEW th \in Thread, run[th].pc \notin {"idle", "write"},
         NEW r, run' = [run EXCEPT ![th] = r],
         r.op = run[th].op, r.id = run[th].id, r.pc \notin {"idle", "write"},
         Text' = Text, OpenEnd' = OpenEnd, glued' = glued,
         posted' = posted, cut' = cut, stored' = stored
  PROVE  /\ \A o \in Thread : o # th => run'[o].pc = "idle" /\ run'[o].op = "none"
         /\ run'[th] = r
         /\ Solo' /\ Ordered' /\ OpenLast' /\ Close'
<1>1. /\ \A o \in Thread : o # th => run'[o].pc = "idle" /\ run'[o].op = "none"
      /\ run'[th] = r
  BY StillIdle DEF Firm, Calm
<1>2. Sent = posted /\ Pending = IF run[th].op = "append" THEN {run[th].id} ELSE {}
  BY NowAt DEF Calm
<1>3. Solo' /\ Sent' = posted /\ Pending' = IF r.op = "append" THEN {r.id} ELSE {}
  BY <1>1, AloneAfter
<1>4. posted \in Nat /\ cut \in Nat
  BY SentType, StoredRange DEF Firm
<1>5. /\ stored' \cup Pending' \subseteq stored \cup Pending
      /\ cut' >= cut /\ posted' >= posted /\ Sent' >= Sent
  BY <1>2, <1>3, <1>4
<1>6. Ordered' /\ OpenLast' /\ Close'
  BY <1>5, SameText DEF Firm, Calm
<1> QED
  BY <1>1, <1>3, <1>6

LEMMA TrimCalm ==
  ASSUME Firm, Calm, NEW th \in Thread, Trim(th)
  PROVE  Calm'
<1>1. /\ run[th].pc = "trim"
      /\ data' = data /\ file' = file /\ tmp' = tmp /\ quar' = quar
      /\ posted' = posted /\ cut' = cut /\ glued' = glued
  BY DEF Trim, fsVars, counters
<1>2. Text' = Text /\ OpenEnd' = OpenEnd
  BY <1>1, TextSame DEF Firm
<1>3. WritesAt(run[th])
  BY <1>1, NowAt DEF Calm
<1>4. run[th].op = "append" /\ run[th].id = posted /\ posted \notin stored /\ ~OpenEnd
  BY <1>1, <1>3 DEF WritesAt
<1>5. CASE End(th) /\ (UNCHANGED stored \/ Stored(th))
  <2>1. \/ stored' = stored
        \/ stored' = stored \cup {run[th].id}
    BY <1>4, <1>5 DEF Stored
  <2> QED
    BY <1>1, <1>2, <1>5, <2>1, QuietEnd
<1>6. CASE /\ Cap > 0 /\ Len(Lines(file)) > Cap
           /\ run' = [run EXCEPT ![th].pc = "open", ![th].buf = LastOf(Lines(file), Cap)]
           /\ UNCHANGED stored
  <2> DEFINE r == [run[th] EXCEPT !.pc = "open", !.buf = LastOf(Text, Cap)]
  <2>1. run' = [run EXCEPT ![th] = r] /\ Len(Text) > Cap
    BY <1>6 DEF Text
  <2>2. run[th] \in Run
    BY DEF Firm, TypeOK
  <2>3. r.pc = "open" /\ r.op = "append" /\ r.id = posted /\ r.buf = LastOf(Text, Cap)
    BY <1>4, <2>2 DEF Run
  <2> HIDE DEF r
  <2>4. /\ \A o \in Thread : o # th => run'[o].pc = "idle" /\ run'[o].op = "none"
        /\ run'[th] = r
        /\ Solo' /\ Ordered' /\ OpenLast' /\ Close'
    BY <1>1, <1>2, <1>4, <1>6, <2>1, <2>3, QuietStep
  <2>5. WritesAt(run[th])'
    BY <1>1, <1>2, <1>4, <1>6, <2>3, <2>4 DEF WritesAt
  <2>6. HoldsAt(run[th])'
    BY <1>2, <1>6, <2>1, <2>3, <2>4 DEF HoldsAt
  <2>7. Working'
    BY <2>4, <2>5, <2>6, WorkingFrom
  <2> QED
    BY <1>1, <2>4, <2>7 DEF Calm, Apart
<1> QED
  BY <1>5, <1>6 DEF Trim

LEMMA AckScanCalm ==
  ASSUME Firm, Calm, NEW th \in Thread, AckScan(th)
  PROVE  Calm'
<1> DEFINE junk == Junk(Text)
           buf == Survivors(Text, run[th].id)
           pc == IF junk = {} THEN "open" ELSE "quarantine"
           r == [run[th] EXCEPT !.pc = pc, !.buf = buf, !.junk = junk]
<1>1. /\ run[th].pc = "scan"
      /\ data' = data /\ file' = file /\ tmp' = tmp /\ quar' = quar
      /\ posted' = posted /\ cut' = cut /\ glued' = glued /\ stored' = stored
      /\ \/ End(th)
         \/ run' = [run EXCEPT ![th] = r]
  BY DEF AckScan, fsVars, counters, history, Text
<1>2. Text' = Text /\ OpenEnd' = OpenEnd
  BY <1>1, TextSame DEF Firm
<1>3. WritesAt(run[th])
  BY <1>1, NowAt DEF Calm
<1>4. run[th].op = "ack" /\ run[th].id \in 1 .. cut
  BY <1>1, <1>3 DEF WritesAt
<1>5. CASE End(th)
  BY <1>1, <1>2, <1>5, QuietEnd
<1>6. CASE run' = [run EXCEPT ![th] = r]
  <2>2. run[th] \in Run
    BY DEF Firm, TypeOK
  <2>3. /\ r.pc = pc /\ r.op = "ack" /\ r.id = run[th].id
        /\ r.buf = Survivors(Text, r.id) /\ r.junk = Junk(Text)
    BY <1>4, <2>2 DEF Run
  <2>4. r.pc \in {"open", "quarantine"} /\ (r.pc = "open" => Junk(Text) \subseteq quar)
    BY <2>3
  <2> HIDE DEF r, pc, buf, junk
  <2>5. /\ \A o \in Thread : o # th => run'[o].pc = "idle" /\ run'[o].op = "none"
        /\ run'[th] = r
        /\ Solo' /\ Ordered' /\ OpenLast' /\ Close'
    BY <1>1, <1>2, <1>4, <1>6, <2>3, <2>4, QuietStep
  <2>6. WritesAt(run[th])'
    BY <1>1, <1>4, <2>3, <2>4, <2>5 DEF WritesAt
  <2>7. HoldsAt(run[th])'
    BY <1>1, <1>2, <2>3, <2>4, <2>5 DEF HoldsAt
  <2>8. Working'
    BY <2>5, <2>6, <2>7, WorkingFrom
  <2> QED
    BY <1>1, <2>5, <2>8 DEF Calm, Apart
<1> QED
  BY <1>1, <1>5, <1>6

LEMMA QuarantineCalm ==
  ASSUME Firm, Calm, NEW th \in Thread, Quarantine(th)
  PROVE  Calm'
<1> DEFINE r == [run[th] EXCEPT !.pc = "open"]
<1>1. /\ run[th].pc = "quarantine" /\ quar' = quar \cup run[th].junk
      /\ data' = data /\ file' = file /\ tmp' = tmp
      /\ posted' = posted /\ cut' = cut /\ glued' = glued /\ stored' = stored
      /\ run' = [run EXCEPT ![th] = r]
  BY DEF Quarantine, Goto, counters, history
<1>2. Text' = Text /\ OpenEnd' = OpenEnd
  BY <1>1, TextSame DEF Firm
<1>3. WritesAt(run[th]) /\ HoldsAt(run[th])
  BY <1>1, NowAt DEF Calm
<1>4. /\ run[th].op = "ack" /\ run[th].id \in 1 .. cut
      /\ run[th].buf = Survivors(Text, run[th].id) /\ run[th].junk = Junk(Text)
  BY <1>1, <1>3 DEF WritesAt, HoldsAt
<1>5. run[th] \in Run
  BY DEF Firm, TypeOK
<1>6. r.pc = "open" /\ r.op = "ack" /\ r.id = run[th].id /\ r.buf = run[th].buf
  BY <1>4, <1>5 DEF Run
<1> HIDE DEF r
<1>7. /\ \A o \in Thread : o # th => run'[o].pc = "idle" /\ run'[o].op = "none"
      /\ run'[th] = r
      /\ Solo' /\ Ordered' /\ OpenLast' /\ Close'
  BY <1>1, <1>2, <1>4, <1>6, QuietStep
<1>8. WritesAt(run[th])'
  BY <1>1, <1>4, <1>6, <1>7 DEF WritesAt
<1>9. HoldsAt(run[th])'
  BY <1>1, <1>2, <1>4, <1>6, <1>7 DEF HoldsAt
<1>10. Working'
  BY <1>7, <1>8, <1>9, WorkingFrom
<1> QED
  BY <1>1, <1>7, <1>10 DEF Calm, Apart

LEMMA OpenTmpCalm ==
  ASSUME Firm, Calm, NEW th \in Thread, OpenTmp(th)
  PROVE  Calm'
<1> DEFINE i == IF tmp = 0 THEN Fresh ELSE tmp
           r == [run[th] EXCEPT !.pc = "fill", !.ino = i]
<1>1. /\ run[th].pc = "open" /\ tmp' = i /\ data' = [data EXCEPT ![i] = Blank]
      /\ run' = [run EXCEPT ![th] = r]
      /\ file' = file /\ quar' = quar
      /\ posted' = posted /\ cut' = cut /\ glued' = glued /\ stored' = stored
  BY DEF OpenTmp, counters, history
<1>2. i \in Inode /\ i # file /\ i # 0
  <2>1. tmp \in {0} \cup Inode /\ (file = tmp => file = 0) /\ 0 \notin Inode
    BY DEF Firm, TypeOK, Calm, Apart, Inode
  <2> QED
    BY <2>1, FreshIsFree DEF Firm
<1>3. data \in [Inode -> Content] /\ file \in {0} \cup Inode
  BY DEF Firm, TypeOK
<1>4. WritesAt(run[th]) /\ HoldsAt(run[th])
  BY <1>1, NowAt DEF Calm
<1>5. run[th] \in Run
  BY DEF Firm, TypeOK
<1>6. /\ r.pc = "fill" /\ r.op = run[th].op /\ r.id = run[th].id
      /\ r.buf = run[th].buf /\ r.ino = i
  BY <1>5 DEF Run
<1> HIDE DEF r, i
<1>7. data'[i] = Blank /\ (file # 0 => data'[file] = data[file])
  BY <1>1, <1>2, <1>3
<1>8. Text' = Text /\ OpenEnd' = OpenEnd
  BY <1>1, <1>7, TextSame DEF Firm
<1>9. /\ \A o \in Thread : o # th => run'[o].pc = "idle" /\ run'[o].op = "none"
      /\ run'[th] = r
      /\ Solo' /\ Ordered' /\ OpenLast' /\ Close'
  BY <1>1, <1>6, <1>8, QuietStep
<1>10. WritesAt(run[th])'
  BY <1>1, <1>4, <1>6, <1>8, <1>9 DEF WritesAt
<1>11. HoldsAt(run[th])'
  BY <1>1, <1>2, <1>4, <1>6, <1>7, <1>8, <1>9 DEF HoldsAt
<1>12. Working'
  BY <1>9, <1>10, <1>11, WorkingFrom
<1> QED
  BY <1>1, <1>2, <1>9, <1>12 DEF Calm, Apart


LEMMA FillCalm ==
  ASSUME Firm, Calm, NEW th \in Thread, Fill(th)
  PROVE  Calm'
<1> DEFINE r == [run[th] EXCEPT !.pc = "replace"]
<1>1. /\ run[th].pc = "fill"
      /\ data' = [data EXCEPT ![run[th].ino].lines = Overlay(run[th].buf, @)]
      /\ run' = [run EXCEPT ![th] = r]
      /\ file' = file /\ tmp' = tmp /\ quar' = quar
      /\ posted' = posted /\ cut' = cut /\ glued' = glued /\ stored' = stored
  BY DEF Fill, Goto, counters, history
<1>2. WritesAt(run[th]) /\ HoldsAt(run[th])
  BY <1>1, NowAt DEF Calm
<1>3. tmp # 0 /\ run[th].ino = tmp /\ data[tmp] = Blank
  BY <1>1, <1>2 DEF HoldsAt
<1>4. /\ data \in [Inode -> Content] /\ file \in {0} \cup Inode /\ tmp \in Inode /\ file # tmp
      /\ run[th] \in Run
  BY <1>3 DEF Firm, TypeOK, Calm, Apart
<1>5. /\ r.pc = "replace" /\ r.op = run[th].op /\ r.id = run[th].id
      /\ r.buf = run[th].buf /\ r.buf \in Seq(Line)
  BY <1>4 DEF Run
<1> HIDE DEF r
<1>6. file # 0 => data'[file] = data[file]
  BY <1>1, <1>3, <1>4
<1>7. data'[tmp].lines = r.buf /\ data'[tmp].open = FALSE
  <2>1. data'[tmp] = [Blank EXCEPT !.lines = Overlay(r.buf, Blank.lines)]
    BY <1>1, <1>3, <1>4, <1>5
  <2>2. Overlay(r.buf, Blank.lines) = r.buf
    <3>1. Blank.lines = <<>> /\ Blank.lines \in Seq(Line)
      BY BlankType, ContentFields
    <3> QED
      BY <1>5, <3>1, OverlayFacts
  <2>3. data'[tmp] = [Blank EXCEPT !.lines = r.buf]
    BY <2>1, <2>2
  <2> QED
    BY <2>3 DEF Blank
<1>8. Text' = Text /\ OpenEnd' = OpenEnd
  BY <1>1, <1>6, TextSame DEF Firm
<1>9. /\ \A o \in Thread : o # th => run'[o].pc = "idle" /\ run'[o].op = "none"
      /\ run'[th] = r
      /\ Solo' /\ Ordered' /\ OpenLast' /\ Close'
  BY <1>1, <1>5, <1>8, QuietStep
<1>10. WritesAt(run[th])'
  BY <1>1, <1>2, <1>5, <1>8, <1>9 DEF WritesAt
<1>11. HoldsAt(run[th])'
  BY <1>1, <1>2, <1>3, <1>5, <1>7, <1>8, <1>9 DEF HoldsAt
<1>12. Working'
  BY <1>9, <1>10, <1>11, WorkingFrom
<1> QED
  BY <1>1, <1>9, <1>12 DEF Calm, Apart

(* What a replace puts in the place of the file.                            *)
LEMMA ReplaceView ==
  ASSUME TypeOK, Formed, Calm, NEW th \in Thread, Replace(th)
  PROVE  /\ Text' = run[th].buf /\ ~ OpenEnd' /\ file' # tmp'
         /\ run[th].op \in {"append", "ack"}
         /\ run[th].op = "append" =>
              Cap > 0 /\ Len(Text) > Cap /\ Text' = LastOf(Text, Cap)
         /\ run[th].op = "ack" =>
              /\ run[th].id \in 1 .. cut /\ Text' = Survivors(Text, run[th].id)
              /\ Junk(Text) \subseteq quar /\ quar' = quar
<1>1. /\ run[th].pc = "replace" /\ tmp # 0 /\ file' = tmp /\ tmp' = 0
      /\ data' = [data EXCEPT ![file] = Blank] /\ quar' = quar
  BY DEF Replace
<1>2. WritesAt(run[th]) /\ HoldsAt(run[th])
  BY <1>1, NowAt DEF Calm
<1>3. /\ data \in [Inode -> Content] /\ file \in {0} \cup Inode /\ tmp \in Inode /\ file # tmp
      /\ run[th] \in Run
  BY <1>1 DEF TypeOK, Calm, Apart
<1>4. data'[tmp] = data[tmp]
  BY <1>1, <1>3
<1>5. data[tmp].lines = run[th].buf /\ ~ data[tmp].open
  BY <1>1, <1>2 DEF HoldsAt
<1>6. Text' = run[th].buf /\ ~ OpenEnd'
  BY <1>1, <1>4, <1>5 DEF Text, OpenEnd, Lines
<1>7. run[th].op \in {"append", "ack"}
  BY <1>1, <1>2, <1>3 DEF WritesAt, Run
<1> QED
  BY <1>1, <1>2, <1>6, <1>7 DEF WritesAt, HoldsAt

LEMMA ReplaceCalm ==
  ASSUME Firm, Calm, NEW th \in Thread, Replace(th)
  PROVE  Calm'
<1>1. /\ run[th].pc = "replace" /\ End(th) /\ Stored(th)
      /\ posted' = posted /\ cut' = cut /\ glued' = glued
  BY DEF Replace, counters
<1>2. /\ ~ OpenEnd' /\ file' # tmp'
      /\ \/ Cap > 0 /\ Len(Text) > Cap /\ Text' = LastOf(Text, Cap)
         \/ \E id \in 1 .. cut : Text' = Survivors(Text, id)
  BY ReplaceView DEF Firm
<1>3. Solo' /\ Working' /\ Sent' = posted /\ Pending' = {}
  BY <1>1, EndCalm DEF Firm, Calm
<1>4. Sent = posted /\ (run[th].op = "append" => Pending = {run[th].id})
  BY <1>1, NowAt DEF Calm
<1>5. stored' \cup Pending' \subseteq stored \cup Pending
  BY <1>1, <1>3, <1>4 DEF Stored
<1>6. Ordered' /\ OpenLast' /\ Close'
  BY <1>1, <1>2, <1>3, <1>4, <1>5, RewriteText DEF Firm, Calm
<1> QED
  BY <1>2, <1>3, <1>6 DEF Calm, Apart

LEMMA ReplaceGoneCalm ==
  ASSUME Firm, Calm, NEW th \in Thread, ReplaceGone(th)
  PROVE  Calm'
<1>1. /\ run[th].pc = "replace" /\ End(th) /\ data' = data /\ file' = file /\ tmp' = tmp
      /\ posted' = posted /\ cut' = cut /\ glued' = glued /\ stored' = stored
  BY DEF ReplaceGone, fsVars, counters, history
<1>2. Text' = Text /\ OpenEnd' = OpenEnd
  BY <1>1, TextSame DEF Firm
<1> QED
  BY <1>1, <1>2, QuietEnd

LEMMA RewriteErrorCalm ==
  ASSUME Firm, Calm, NEW th \in Thread, RewriteError(th)
  PROVE  Calm'
<1>1. /\ run[th].pc \in {"quarantine", "open", "fill"} /\ End(th)
      /\ file' = file /\ tmp' = tmp
      /\ posted' = posted /\ cut' = cut /\ glued' = glued /\ stored' = stored
      /\ \/ data' = data
         \/ /\ run[th].pc = "fill"
            /\ \E k \in 1 .. Len(run[th].buf) :
                 data' = [data EXCEPT ![run[th].ino].lines =
                            Overlay(SubSeq(run[th].buf, 1, k), @)]
  BY DEF RewriteError, history
<1>2. data \in [Inode -> Content] /\ file \in {0} \cup Inode
  BY DEF Firm, TypeOK
<1>3. file # 0 => data'[file] = data[file]
  <2>1. CASE data' = data
    BY <2>1
  <2>2. ASSUME run[th].pc = "fill", NEW k \in 1 .. Len(run[th].buf),
               data' = [data EXCEPT ![run[th].ino].lines =
                          Overlay(SubSeq(run[th].buf, 1, k), @)]
        PROVE  file # 0 => data'[file] = data[file]
    <3>1. HoldsAt(run[th])
      BY <2>2, NowAt DEF Calm
    <3>2. tmp # 0 /\ run[th].ino = tmp
      BY <2>2, <3>1 DEF HoldsAt
    <3>3. file # run[th].ino
      BY <3>2 DEF Calm, Apart
    <3> QED
      BY <1>2, <2>2, <3>3
  <2> QED
    BY <1>1, <2>1, <2>2
<1>4. Text' = Text /\ OpenEnd' = OpenEnd
  BY <1>1, <1>3, TextSame DEF Firm
<1> QED
  BY <1>1, <1>4, QuietEnd

(* Steps that concern neither the file nor a thread.                        *)
LEMMA AsideCalm ==
  ASSUME Calm, data' = data, file' = file, tmp' = tmp, quar' = quar, run' = run,
         posted' = posted, cut' = cut, glued' = glued, stored' = stored
  PROVE  Calm'
<1>1. Text' = Text /\ OpenEnd' = OpenEnd
  BY DEF Text, OpenEnd, Lines
<1>2. Sent' = Sent /\ Pending' = Pending
  BY DEF Sent, Pending
<1>3. Solo' /\ Apart'
  BY DEF Calm, Solo, Apart
<1>4. Working'
  BY <1>1 DEF Calm, Working, WritesAt, HoldsAt
<1>5. Ordered' /\ OpenLast'
  BY <1>1, <1>2 DEF Calm, Ordered, OrderIn, BoundIn, OpenLast
<1>6. Close'
  BY <1>1, <1>2 DEF Calm, Close, Due, Later, Within, Behind
<1> QED
  BY <1>3, <1>4, <1>5, <1>6 DEF Calm

(* The daemon dies.                                                         *)
LEMMA CrashCalm ==
  ASSUME Firm, Calm, Crash
  PROVE  Calm'
<1>1. /\ run' = [th \in Thread |-> Idle]
      /\ \/ UNCHANGED <<data, file, glued>>
         \/ \E th \in Thread : run[th].pc = "write" /\ PutPart(run[th].id)
      /\ tmp' = tmp /\ quar' = quar /\ posted' = posted /\ stored' = stored /\ cut' = cut
  BY DEF Crash
<1>2. \A th \in Thread : run'[th].pc = "idle" /\ run'[th].op = "none"
  BY <1>1, IdleType
<1>3. Solo' /\ Sent' = posted /\ Pending' = {}
  BY <1>1, <1>2 DEF Solo, Sent, Pending
<1>4. Working'
  BY <1>2, IdleWorks DEF Working
<1>5. CASE UNCHANGED <<data, file, glued>>
  <2>1. Text' = Text /\ OpenEnd' = OpenEnd
    BY <1>5, TextSame DEF Firm
  <2>2. posted \in Nat /\ Sent \in Nat /\ Sent <= posted /\ cut \in Nat
    BY SentType, StoredRange DEF Firm
  <2>3. /\ stored' \cup Pending' \subseteq stored \cup Pending
        /\ cut' >= cut /\ posted' >= posted /\ Sent' >= Sent
    BY <1>1, <1>3, <2>2
  <2>4. Ordered' /\ OpenLast' /\ Close'
    BY <1>1, <1>5, <2>1, <2>3, SameText DEF Firm, Calm
  <2> QED
    BY <1>1, <1>3, <1>4, <1>5, <2>4 DEF Calm, Apart
<1>6. ASSUME NEW th \in Thread, run[th].pc = "write", PutPart(run[th].id)
      PROVE  Calm'
  <2>1. PICK L \in Torn(run[th].id), b \in BOOLEAN : Put(run[th].id, L, TRUE, b)
    BY <1>6 DEF PutPart
  <2>2. Ordered' /\ OpenLast' /\ Close' /\ Apart'
    BY <1>1, <1>3, <1>6, <2>1, PutCalm
  <2> QED
    BY <1>3, <1>4, <2>2 DEF Calm
<1> QED
  BY <1>1, <1>5, <1>6

LEMMA CalmStep ==
  ASSUME Firm, Calm, [Next]_vars, ~overlap'
  PROVE  Calm'
<1>1. ASSUME NEW th \in Thread, NEW last \in 1 .. posted, StartAck(th, last) PROVE Calm'
  BY <1>1, StartAckCalm
<1>2. ASSUME NEW th \in Thread, StartAppend(th) PROVE Calm'
  BY <1>2, StartAppendCalm
<1>3. ASSUME NEW th \in Thread, Timeout(th) PROVE Calm'
  BY <1>3, AsideCalm DEF Timeout, fsVars, history
<1>4. CASE Start
  BY <1>4, AsideCalm DEF Start, fsVars, counters, history
<1>5. CASE UNCHANGED vars
  BY <1>5, AsideCalm DEF vars, fsVars, counters, history
<1> QED
  BY <1>1, <1>2, <1>3, <1>4, <1>5, WriteCalm, WriteErrorCalm, TrimCalm, AckScanCalm,
     QuarantineCalm, OpenTmpCalm, FillCalm, ReplaceCalm, ReplaceGoneCalm,
     RewriteErrorCalm, CrashCalm DEF Next

(* What has happened beside an abandoned thread is not forgotten.           *)
LEMMA OverlapStays == ASSUME TypeOK, [Next]_vars, ~overlap' PROVE ~overlap
<1>1. ASSUME NEW th \in Thread, NEW last \in 1 .. posted, StartAck(th, last) PROVE ~overlap
  BY <1>1 DEF StartAck, Begin
<1>2. ASSUME NEW th \in Thread, StartAppend(th) PROVE ~overlap
  BY <1>2 DEF StartAppend, Begin
<1>3. CASE overlap' = overlap
  BY <1>3
<1>4. ASSUME NEW th \in Thread,
             \/ Write(th) \/ WriteError(th) \/ Trim(th) \/ AckScan(th) \/ Quarantine(th)
             \/ OpenTmp(th) \/ Fill(th) \/ Replace(th) \/ ReplaceGone(th)
             \/ RewriteError(th) \/ Timeout(th)
      PROVE  overlap' = overlap
  BY <1>4 DEF Write, WriteError, Trim, AckScan, Quarantine, OpenTmp, Fill, Replace,
              ReplaceGone, RewriteError, Timeout, history
<1>5. Crash \/ Start \/ UNCHANGED vars => overlap' = overlap
  BY DEF Crash, Start, vars, history
<1> QED
  BY <1>1, <1>2, <1>3, <1>4, <1>5 DEF Next

LEMMA InvInit == Init => FileInv
<1> SUFFICES ASSUME Init PROVE FileInv
  OBVIOUS
<1>1. TypeOK /\ Formed
  BY TypeInit
<1>2. /\ file = 0 /\ tmp = 0 /\ posted = 0 /\ stored = {}
      /\ \A th \in Thread : run[th] = Idle
  BY DEF Init
<1>3. \A th \in Thread : run[th].pc = "idle" /\ run[th].op = "none"
  BY <1>2, IdleType
<1>4. Text = <<>> /\ ~OpenEnd /\ Len(<<>>) = 0
  BY <1>2, EmptySeq DEF Text, OpenEnd, Lines
<1>5. Solo /\ Apart /\ Working
  BY <1>2, <1>3 DEF Solo, Apart, Working, WritesAt, HoldsAt
<1>6. Ordered /\ OpenLast
  BY <1>4 DEF Ordered, OrderIn, BoundIn, OpenLast
<1>7. Close
  BY <1>2, <1>3 DEF Close, Pending
<1> QED
  BY <1>1, <1>5, <1>6, <1>7 DEF FileInv, Calm

LEMMA InvStep == FileInv /\ [Next]_vars => FileInv'
BY TypeStep, CalmStep, OverlapStays DEF FileInv, Firm

(* The invariant: while no operation has begun beside a thread its caller   *)
(* has left, one thread at most is at work, what it has in its hands is     *)
(* what the file would give it now, and what is stored lies near the end.   *)
THEOREM InvCorrect == Spec => []FileInv
BY InvInit, InvStep, PTL DEF Spec


-----------------------------------------------------------------------------
(* The theorems.                                                            *)

LEMMA TextLines ==
  ASSUME TypeOK
  PROVE  /\ Text = Lines(file) /\ Text \in Seq(Line) /\ DOMAIN Text = 1 .. Len(Text)
         /\ Len(Text) \in Nat
BY TextType, SeqFacts DEF Text

(* The records of a file are in the order of their ids, each there once.    *)
THEOREM InOrderCorrect == Spec => []InOrder
<1>1. FileInv => InOrder
  <2>1. SUFFICES ASSUME FileInv, ~overlap PROVE InOrder
    BY DEF InOrder
  <2>2. OrderIn(Text) /\ Text = Lines(file) /\ DOMAIN Text = 1 .. Len(Text)
    BY <2>1, TextLines DEF FileInv, Calm, Ordered
  <2> QED
    BY <2>2 DEF InOrder, OrderIn, IsRecord
<1> QED
  BY <1>1, InvCorrect, PTL

(* A record whose append returned is in the file until an ack or the cap    *)
(* asks for its removal, whatever fails, dies or is cut short; but for those *)
(* cut in two or glued to a torn line as they were written.                 *)
THEOREM KeptCorrect == Spec => []Kept
<1>1. FileInv => Kept
  <2>1. SUFFICES ASSUME FileInv, ~overlap, NEW m \in stored \ (Wide \cup glued), Due(m)
                 PROVE  m \in Records(Lines(file))
    BY DEF Kept
  <2>2. Within(Text, m, Behind(m, Sent))
    BY <2>1 DEF FileInv, Calm, Close
  <2>3. PICK i \in 1 .. Len(Text) : Text[i] = m
    BY <2>2 DEF Within
  <2>4. m > 0
    BY <2>1, StoredRange DEF FileInv
  <2> QED
    BY <2>1, <2>3, <2>4, TextLines DEF FileInv, Records, IsRecord
<1> QED
  BY <1>1, InvCorrect, PTL

(* Only a replace takes a thread from "replace" to its end.                 *)
LEMMA RewritesIsReplace ==
  ASSUME FileInv, ~overlap, [Next]_vars, NEW th \in Thread, Rewrites(th)
  PROVE  Replace(th)
<1>1. run[th].pc = "replace" /\ run'[th].pc = "idle" /\ up'
  BY DEF Rewrites
<1>2. run \in [Thread -> Run] /\ run'[th] # run[th]
  BY <1>1 DEF FileInv, TypeOK
<1>3. tmp # 0
  <2>1. HoldsAt(run[th])
    BY DEF FileInv, Calm, Working
  <2> QED
    BY <1>1, <2>1 DEF HoldsAt
<1>4. ASSUME NEW o \in Thread, NEW last, StartAck(o, last) PROVE FALSE
  BY <1>1, <1>2, <1>4 DEF StartAck, Begin
<1>5. ASSUME NEW o \in Thread, StartAppend(o) PROVE FALSE
  BY <1>1, <1>2, <1>5 DEF StartAppend, Begin
<1>6. ASSUME NEW o \in Thread, Write(o) \/ Quarantine(o) \/ Fill(o) PROVE FALSE
  BY <1>1, <1>2, <1>6 DEF Write, Quarantine, Fill, Goto
<1>7. ASSUME NEW o \in Thread, WriteError(o) \/ ReplaceGone(o) \/ RewriteError(o) PROVE FALSE
  BY <1>1, <1>2, <1>3, <1>7 DEF WriteError, ReplaceGone, RewriteError, End
<1>8. ASSUME NEW o \in Thread, Trim(o) \/ AckScan(o) \/ OpenTmp(o) PROVE FALSE
  <2>1. o # th /\ \E r : run' = [run EXCEPT ![o] = r]
    <3>1. CASE Trim(o)
      BY <1>1, <3>1 DEF Trim, End
    <3>2. CASE AckScan(o)
      BY <1>1, <3>2 DEF AckScan, End
    <3>3. CASE OpenTmp(o)
      BY <1>1, <3>3 DEF OpenTmp
    <3> QED
      BY <1>8, <3>1, <3>2, <3>3
  <2> QED
    BY <1>2, <2>1
<1>9. ASSUME NEW o \in Thread, Replace(o) PROVE o = th
  BY <1>2, <1>9 DEF Replace, End
<1>10. ASSUME NEW o \in Thread, Timeout(o) PROVE FALSE
  BY <1>2, <1>10 DEF Timeout
<1>11. ~Crash /\ ~Start /\ ~UNCHANGED vars
  BY <1>1, <1>2 DEF Crash, Start, vars
<1> QED
  BY <1>4, <1>5, <1>6, <1>7, <1>8, <1>9, <1>10, <1>11 DEF Next

(* What an ack leaves, as a set.                                            *)
LEMMA SurvivorsAreRecords ==
  ASSUME NEW s \in Seq(Line), NEW last \in Nat
  PROVE  {Survivors(s, last)[i] : i \in DOMAIN Survivors(s, last)}
           = {x \in Records(s) : x > last}
<1> DEFINE k == Survivors(s, last)
<1>1. KeptOf(k, s, last, Len(s))
  BY SurvivorsKept
<1> HIDE DEF k
<1>2. k \in Seq(Line)
  BY <1>1 DEF KeptOf
<1>3. /\ DOMAIN k = 1 .. Len(k) /\ DOMAIN s = 1 .. Len(s)
      /\ \A i \in 1 .. Len(s) : s[i] \in Line
  BY <1>2, SeqFacts
<1>4. ASSUME NEW a \in 1 .. Len(k) PROVE k[a] \in {x \in Records(s) : x > last}
  <2>1. PICK i \in 1 .. Len(s) : s[i] = k[a] /\ k[a] > last
    BY <1>1 DEF KeptOf
  <2>2. s[i] \in Int
    BY <1>3, Constants
  <2>3. k[a] > 0
    BY <2>1, <2>2
  <2> QED
    BY <1>3, <2>1, <2>3 DEF Records, IsRecord
<1>5. ASSUME NEW x \in Records(s), x > last PROVE \E a \in 1 .. Len(k) : k[a] = x
  <2>1. PICK i \in 1 .. Len(s) : s[i] = x
    BY <1>3 DEF Records
  <2>2. Within(k, s[i], Len(s) - i)
    BY <1>1, <1>5, <2>1 DEF KeptOf
  <2> QED
    BY <2>1, <2>2 DEF Within
<1>6. {k[i] : i \in DOMAIN k} = {x \in Records(s) : x > last}
  BY <1>3, <1>4, <1>5
<1> QED
  BY <1>6 DEF k

(* What an operation read, steps ago, is what it replaces: a rewrite is     *)
(* worth what a single step on the present file would be.                   *)
THEOREM RewriteIsCurrentCorrect == Spec => RewriteIsCurrent
<1> DEFINE A == ~overlap => \A th \in Thread : Rewrites(th) => PutsTheCurrent(th)
<1>1. FileInv /\ [Next]_vars => A
  <2>1. SUFFICES ASSUME FileInv, [Next]_vars, ~overlap, NEW th \in Thread, Rewrites(th)
                 PROVE  PutsTheCurrent(th)
    OBVIOUS
  <2>2. Replace(th)
    BY <2>1, RewritesIsReplace
  <2>3. /\ run[th].op \in {"append", "ack"}
        /\ run[th].op = "append" => Text' = LastOf(Text, Cap)
        /\ run[th].op = "ack" =>
             run[th].id \in 1 .. cut /\ Text' = Survivors(Text, run[th].id)
    BY <2>1, <2>2, ReplaceView DEF FileInv
  <2>4. Text' = Lines(file)' /\ Text = Lines(file) /\ Text \in Seq(Line)
    BY <2>1, TextLines DEF FileInv, Text
  <2>5. CASE run[th].op = "append"
    BY <2>3, <2>4, <2>5 DEF LastOf, PutsTheCurrent
  <2>6. CASE run[th].op = "ack"
    <3>1. run[th].id \in Nat
      BY <2>1, <2>3, <2>6, StoredRange DEF FileInv
    <3>2. {Survivors(Text, run[th].id)[i] : i \in DOMAIN Survivors(Text, run[th].id)}
            = {x \in Records(Text) : x > run[th].id}
      BY <2>4, <3>1, SurvivorsAreRecords
    <3> QED
      BY <2>3, <2>4, <2>6, <3>2 DEF PutsTheCurrent
  <2> QED
    BY <2>3, <2>5, <2>6
<1>2. A => [A]_vars
  OBVIOUS
<1>3. Spec => [][FileInv /\ [Next]_vars]_vars
  BY InvCorrect, PTL DEF Spec
<1> HIDE DEF A
<1>4. Spec => [][A]_vars
  BY <1>1, <1>3, PTL
<1> QED
  BY <1>4 DEF A, RewriteIsCurrent

(* An ack takes a corrupt line out of the file only when the quarantine has *)
(* it, also when the daemon died in between before.                         *)
THEOREM AckKeepsJunkCorrect == Spec => AckKeepsJunk
<1> DEFINE A == ~overlap => \A th \in Thread : Rewrites(th) /\ run[th].op = "ack" =>
                  Junk(Lines(file)) \subseteq quar'
<1>1. FileInv /\ [Next]_vars => A
  <2>1. SUFFICES ASSUME FileInv, [Next]_vars, ~overlap, NEW th \in Thread, Rewrites(th),
                        run[th].op = "ack"
                 PROVE  Junk(Lines(file)) \subseteq quar'
    OBVIOUS
  <2>2. Replace(th)
    BY <2>1, RewritesIsReplace
  <2> QED
    BY <2>1, <2>2, ReplaceView DEF FileInv, Text
<1>2. Spec => [][FileInv /\ [Next]_vars]_vars
  BY InvCorrect, PTL DEF Spec
<1> HIDE DEF A
<1>3. Spec => [][A]_vars
  BY <1>1, <1>2, PTL
<1> QED
  BY <1>3 DEF A, AckKeepsJunk

(* Whenever an append returns, the file is within the cap.                  *)
THEOREM WithinCapCorrect == Spec => WithinCap
<1> DEFINE A == ~overlap /\ stored' # stored => (Cap = 0 \/ Len(Lines(file)') <= Cap)
<1>1. FileInv /\ [Next]_vars => A
  <2>1. SUFFICES ASSUME FileInv, [Next]_vars, ~overlap, stored' # stored
                 PROVE  Cap = 0 \/ Len(Lines(file)') <= Cap
    OBVIOUS
  <2>2. \E th \in Thread : Trim(th) \/ Replace(th)
    BY <2>1 DEF Next, StartAppend, StartAck, Write, WriteError, AckScan, Quarantine, OpenTmp,
                Fill, ReplaceGone, RewriteError, Timeout, Crash, Start, history, vars
  <2>3. PICK th \in Thread : Trim(th) \/ Replace(th)
    BY <2>2
  <2>4. CASE Trim(th)
    <3>1. file' = file /\ data' = data
      BY <2>4 DEF Trim, fsVars
    <3>2. Lines(file)' = Lines(file)
      BY <3>1 DEF Lines
    <3> QED
      BY <2>1, <2>4, <3>2 DEF Trim
  <2>5. CASE Replace(th)
    <3>1. run[th].op = "append"
      BY <2>1, <2>5 DEF Replace, Stored
    <3>2. Cap > 0 /\ Len(Text) > Cap /\ Lines(file)' = LastOf(Text, Cap)
      BY <2>1, <2>5, <3>1, ReplaceView DEF FileInv, Text
    <3>3. Text \in Seq(Line) /\ Cap \in Nat /\ Cap <= Len(Text)
      BY <2>1, <3>2, TextLines, Constants DEF FileInv
    <3>4. Len(LastOf(Text, Cap)) = Cap
      BY <3>2, <3>3, LastOfFacts
    <3> QED
      BY <3>2, <3>3, <3>4
  <2> QED
    BY <2>3, <2>4, <2>5
<1>2. Spec => [][FileInv /\ [Next]_vars]_vars
  BY InvCorrect, PTL DEF Spec
<1> HIDE DEF A
<1>3. Spec => [][A]_vars
  BY <1>1, <1>2, PTL
<1> QED
  BY <1>3 DEF A, WithinCap

=============================================================================
