---------------------------- MODULE Framing_proofs ----------------------------
(***************************************************************************)
(* However the bytes are cut, whenever connections break and however long  *)
(* messages are: what the two sides hand on is what Channel promises.      *)
(*                                                                         *)
(* What a reader has not read yet, and what is on its way to it, is one    *)
(* stream, in which each byte says which comes next.  A reader is at the   *)
(* byte where it believes to be, until the connection is spoiled.          *)
(***************************************************************************)
EXTENDS Framing, Induction

-----------------------------------------------------------------------------
(* Pieces of sequences.                                                    *)
LEMMA AheadIs ==
    ASSUME NEW S, NEW s \in Seq(S), NEW n \in Nat
    PROVE  /\ Ahead(n, s) \in Seq(S)
           /\ Len(Ahead(n, s)) = IF n <= Len(s) THEN n ELSE Len(s)
           /\ \A i \in 1 .. Len(Ahead(n, s)) : Ahead(n, s)[i] = s[i]
<1> DEFINE m == IF n <= Len(s) THEN n ELSE Len(s)
<1>1. m \in Nat /\ m <= Len(s) /\ Ahead(n, s) = SubSeq(s, 1, m)
  BY DEF Ahead
<1> HIDE DEF m
<1>2. /\ SubSeq(s, 1, m) \in Seq(S) /\ Len(SubSeq(s, 1, m)) = m
      /\ \A i \in 1 .. m : SubSeq(s, 1, m)[i] = s[i]
  BY <1>1
<1> QED
  BY <1>1, <1>2 DEF m

LEMMA BehindIs ==
    ASSUME NEW S, NEW s \in Seq(S), NEW n \in Nat
    PROVE  /\ Behind(n, s) \in Seq(S)
           /\ Len(Behind(n, s)) = IF n <= Len(s) THEN Len(s) - n ELSE 0
           /\ \A i \in 1 .. Len(Behind(n, s)) : Behind(n, s)[i] = s[n + i]
<1> DEFINE m == IF n <= Len(s) THEN Len(s) - n ELSE 0
           t == [i \in 1 .. m |-> s[n + i]]
<1>1. Len(s) \in Nat /\ m \in Nat /\ 1 .. m = 1 .. 1 + Len(s) - (n + 1)
      /\ \A i \in 1 .. m : n + i \in 1 .. Len(s) /\ i + (n + 1) - 1 = n + i
  OBVIOUS
<1>2. \A i \in 1 .. m : s[n + i] \in S
  BY <1>1
<1> HIDE DEF m
<1>3. t \in Seq(S) /\ Len(t) = m /\ \A i \in 1 .. m : t[i] = s[n + i]
  BY <1>1, <1>2
<1>4. Behind(n, s) = t
  BY <1>1 DEF Behind, SubSeq
<1> QED
  BY <1>3, <1>4 DEF m

LEMMA JoinIs ==
    ASSUME NEW S, NEW s \in Seq(S), NEW t \in Seq(S)
    PROVE  /\ s \o t \in Seq(S) /\ Len(s \o t) = Len(s) + Len(t)
           /\ \A i \in 1 .. Len(s) : (s \o t)[i] = s[i]
           /\ \A i \in 1 .. Len(t) : (s \o t)[Len(s) + i] = t[i]
<1>1. /\ s \o t \in Seq(S) /\ Len(s \o t) = Len(s) + Len(t)
      /\ \A i \in 1 .. Len(s) + Len(t) :
            (s \o t)[i] = IF i <= Len(s) THEN s[i] ELSE t[i - Len(s)]
  BY ConcatProperties
<1>2. Len(s) \in Nat /\ Len(t) \in Nat
  OBVIOUS
<1>3. ASSUME NEW i \in 1 .. Len(t) PROVE (s \o t)[Len(s) + i] = t[i]
  <2>1. Len(s) + i \in 1 .. Len(s) + Len(t) /\ ~(Len(s) + i <= Len(s)) /\ (Len(s) + i) - Len(s) = i
    BY <1>2
  <2> QED
    BY <1>1, <2>1
<1>4. ASSUME NEW i \in 1 .. Len(s) PROVE (s \o t)[i] = s[i]
  <2>1. i \in 1 .. Len(s) + Len(t) /\ i <= Len(s)
    BY <1>2
  <2> QED
    BY <1>1, <2>1
<1> QED
  BY <1>1, <1>3, <1>4

LEMMA SameSeq ==
    ASSUME NEW S, NEW s \in Seq(S), NEW t \in Seq(S), Len(s) = Len(t),
           \A i \in 1 .. Len(s) : s[i] = t[i]
    PROVE  s = t
BY SeqEqual

LEMMA JoinedOn ==
    ASSUME NEW S, NEW s \in Seq(S), NEW t \in Seq(S), NEW u \in Seq(S)
    PROVE  s \o (t \o u) = (s \o t) \o u
BY ConcatAssociative, SMTT(30)

\* To take bytes off the buffer takes them off the stream.
LEMMA BehindJoin ==
    ASSUME NEW S, NEW s \in Seq(S), NEW t \in Seq(S), NEW n \in Nat, n <= Len(s)
    PROVE  Behind(n, s) \o t = Behind(n, s \o t)
<1> DEFINE b == Behind(n, s)
           u == s \o t
           v == Behind(n, u)
<1>1. b \in Seq(S) /\ Len(b) = Len(s) - n /\ \A i \in 1 .. Len(b) : b[i] = s[n + i]
  BY BehindIs
<1>2. /\ u \in Seq(S) /\ Len(u) = Len(s) + Len(t) /\ \A i \in 1 .. Len(s) : u[i] = s[i]
      /\ \A i \in 1 .. Len(t) : u[Len(s) + i] = t[i]
  BY JoinIs
<1> HIDE DEF b, u
<1>3. Len(s) \in Nat /\ Len(t) \in Nat /\ n <= Len(u)
  BY <1>2
<1>4. v \in Seq(S) /\ Len(v) = Len(u) - n /\ \A i \in 1 .. Len(v) : v[i] = u[n + i]
  BY <1>2, <1>3, BehindIs
<1>5. /\ b \o t \in Seq(S) /\ Len(b \o t) = Len(b) + Len(t)
      /\ \A i \in 1 .. Len(b) : (b \o t)[i] = b[i]
      /\ \A i \in 1 .. Len(t) : (b \o t)[Len(b) + i] = t[i]
  <2>1. b \in Seq(S)
    BY <1>1
  <2> QED
    BY <2>1, JoinIs
<1> HIDE DEF v
<1>6. Len(b \o t) = Len(v)
  BY <1>1, <1>2, <1>3, <1>4, <1>5
<1>7. ASSUME NEW i \in 1 .. Len(b \o t) PROVE (b \o t)[i] = v[i]
  <2>1. CASE i <= Len(b)
    <3>1. i \in 1 .. Len(b) /\ n + i \in 1 .. Len(s) /\ i \in 1 .. Len(v)
      BY <1>1, <1>3, <1>6, <2>1
    <3> QED
      BY <1>1, <1>2, <1>4, <1>5, <3>1
  <2>2. CASE ~(i <= Len(b))
    <3> DEFINE j == i - Len(b)
    <3>1. j \in 1 .. Len(t) /\ Len(b) + j = i /\ Len(s) + j = n + i /\ i \in 1 .. Len(v)
      BY <1>1, <1>3, <1>5, <1>6, <2>2
    <3> HIDE DEF j
    <3>2. (b \o t)[i] = t[j] /\ u[n + i] = t[j]
      BY <1>2, <1>5, <3>1
    <3> QED
      BY <1>4, <3>1, <3>2
  <2> QED
    BY <2>1, <2>2
<1> QED
  BY <1>4, <1>5, <1>6, <1>7, SameSeq DEF b, v, u

\* What is delivered leaves the stream as it is.
LEMMA Delivered ==
    ASSUME NEW S, NEW s \in Seq(S), NEW t \in Seq(S), NEW n \in Nat, n <= Len(t)
    PROVE  (s \o Ahead(n, t)) \o Behind(n, t) = s \o t
<1> DEFINE a == Ahead(n, t)
           b == Behind(n, t)
<1>1. a \in Seq(S) /\ Len(a) = n /\ \A i \in 1 .. Len(a) : a[i] = t[i]
  BY AheadIs
<1>2. b \in Seq(S) /\ Len(b) = Len(t) - n /\ \A i \in 1 .. Len(b) : b[i] = t[n + i]
  BY BehindIs
<1> HIDE DEF a, b
<1>3. /\ a \o b \in Seq(S) /\ Len(a \o b) = Len(a) + Len(b)
      /\ \A i \in 1 .. Len(a) : (a \o b)[i] = a[i]
      /\ \A i \in 1 .. Len(b) : (a \o b)[Len(a) + i] = b[i]
  BY <1>1, <1>2, JoinIs
<1>4. Len(a \o b) = Len(t) /\ Len(t) \in Nat
  BY <1>1, <1>2, <1>3
<1>5. ASSUME NEW i \in 1 .. Len(a \o b) PROVE (a \o b)[i] = t[i]
  <2>1. CASE i <= n
    <3>1. i \in 1 .. Len(a)
      BY <1>1, <2>1
    <3> QED
      BY <1>1, <1>3, <3>1
  <2>2. CASE ~(i <= n)
    <3> DEFINE j == i - n
    <3>1. j \in 1 .. Len(b) /\ Len(a) + j = i /\ n + j = i
      BY <1>1, <1>2, <1>4, <2>2
    <3> HIDE DEF j
    <3> QED
      BY <1>2, <1>3, <3>1
  <2> QED
    BY <2>1, <2>2
<1>6. a \o b = t
  BY <1>3, <1>4, <1>5, SameSeq
<1> QED
  <2>1. (s \o a) \o b = s \o (a \o b)
    <3>1. a \in Seq(S) /\ b \in Seq(S)
      BY <1>1, <1>2
    <3> QED
      BY <3>1, ConcatAssociative, SMTT(30)
  <2> QED
    BY <1>6, <2>1 DEF a, b

-----------------------------------------------------------------------------
(* The stream.                                                             *)
Bytes == {b \in [msg : Nat, at : Nat \ {0}, announced : Nat, size : Bodies] :
            b.announced = b.size /\ b.at <= Header + b.size}

Follows(x, y) ==
    IF x.at = Header + x.size
    THEN y.msg = x.msg + 1 /\ y.at = 1
    ELSE y.msg = x.msg /\ y.size = x.size /\ y.at = x.at + 1

Flow(p) == \A i \in 1 .. Len(p) - 1 : Follows(p[i], p[i + 1])

\* All of it belongs to messages up to number top.
Below(p, top) == \A i \in 1 .. Len(p) : p[i].msg <= top

Begins(p, k, place) == Len(p) # 0 => p[1].msg = k /\ p[1].at = place

\* It goes to the end of message top; if nothing is there, k is the last one.
Whole(p, top, k) ==
    IF Len(p) = 0 THEN k = top
    ELSE p[Len(p)].msg = top /\ p[Len(p)].at = Header + p[Len(p)].size

LEMMA Numbers ==
    /\ Header \in Nat \ {0} /\ Stray \subseteq Nat
    /\ \A n \in Bodies : n \in Nat /\ n >= Header
    /\ MaxLinks \in Nat /\ MaxSent \in Nat
BY FramingAssumption

LEMMA ByteIs ==
    ASSUME NEW b \in Bytes
    PROVE  /\ b.msg \in Nat /\ b.at \in Nat \ {0} /\ b.size \in Bodies /\ b.size \in Nat
           /\ b.announced = b.size /\ b.at <= Header + b.size /\ b.size >= Header
BY Numbers DEF Bytes

\* From its first byte on, a message goes on to its end, and then comes the next.
LEMMA MessageFlows ==
    ASSUME NEW p \in Seq(Bytes), Len(p) # 0, Flow(p)
    PROVE  LET l == Header + p[1].size - p[1].at + 1
           IN  /\ l \in Nat \ {0}
               /\ \A i \in 1 .. Len(p) : i <= l =>
                     /\ p[i].msg = p[1].msg /\ p[i].size = p[1].size
                     /\ p[i].at = p[1].at + i - 1
               /\ l < Len(p) => p[l + 1].msg = p[1].msg + 1 /\ p[l + 1].at = 1
<1> DEFINE n == Len(p)
           l == Header + p[1].size - p[1].at + 1
           Same(i) == /\ p[i].msg = p[1].msg /\ p[i].size = p[1].size
                      /\ p[i].at = p[1].at + i - 1
           Good == {j \in Nat : j + 1 <= n /\ j + 1 <= l => Same(j + 1)}
<1>1. n \in Nat \ {0} /\ \A i \in 1 .. n : p[i] \in Bytes
  OBVIOUS
<1>2. Header \in Nat \ {0} /\ p[1].at \in Nat \ {0} /\ p[1].size \in Nat /\ p[1].at <= Header + p[1].size
  BY <1>1, ByteIs, Numbers
<1>3. l \in Nat \ {0}
  BY <1>2
<1>4. \A i \in 1 .. n - 1 : Follows(p[i], p[i + 1])
  BY DEF Flow
<1>5. 0 \in Good
  BY <1>1, <1>2
<1>6. ASSUME NEW j \in Nat, j \in Good PROVE j + 1 \in Good
  <2> SUFFICES ASSUME j + 2 <= n, j + 2 <= l PROVE Same(j + 2)
    BY <1>1
  <2>1. Same(j + 1) /\ j + 1 \in 1 .. n - 1 /\ (j + 1) + 1 = j + 2
    BY <1>1, <1>3, <1>6
  <2>2. Follows(p[j + 1], p[j + 2])
    BY <1>4, <2>1
  <2> DEFINE a == p[1].at
             z == p[1].size
             x == p[j + 1].at
  <2>6. x = a + (j + 1) - 1 /\ p[j + 1].size = z /\ j + 2 <= Header + z - a + 1
    BY <2>1
  <2>7. a \in Int /\ z \in Int /\ Header \in Int
    BY <1>2
  <2> HIDE DEF a, z, x
  <2>8. x = a + j /\ x # Header + z /\ x + 1 = a + (j + 2) - 1
    BY <2>6, <2>7
  <2>3. p[j + 1].at # Header + p[j + 1].size
    BY <2>6, <2>8 DEF x
  <2>4. p[j + 2].msg = p[j + 1].msg /\ p[j + 2].size = p[j + 1].size /\ p[j + 2].at = p[j + 1].at + 1
    BY <2>2, <2>3 DEF Follows
  <2>5. p[j + 1].at + 1 = p[1].at + (j + 2) - 1
    BY <2>8 DEF x, a
  <2> QED
    BY <2>1, <2>4, <2>5
<1> HIDE DEF Good
<1>7. \A j \in Nat : j \in Good
  BY <1>5, <1>6, SetInduction
<1> HIDE DEF l, n
<1>8. ASSUME NEW i \in 1 .. n, i <= l PROVE Same(i)
  <2>1. i - 1 \in Nat /\ (i - 1) + 1 = i
    BY <1>1
  <2> HIDE DEF Same
  <2>2. i - 1 \in Good
    BY <1>7, <2>1
  <2>3. (i - 1) + 1 <= n /\ (i - 1) + 1 <= l
    BY <1>1, <1>3, <1>8, <2>1
  <2>4. Same((i - 1) + 1)
    BY <2>2, <2>3 DEF Good
  <2> QED
    BY <2>1, <2>4
<1>9. ASSUME l < n PROVE p[l + 1].msg = p[1].msg + 1 /\ p[l + 1].at = 1
  <2>1. l \in 1 .. n /\ l \in 1 .. n - 1 /\ l <= l
    BY <1>1, <1>3, <1>9
  <2>2. Same(l) /\ Follows(p[l], p[l + 1])
    BY <1>4, <1>8, <2>1
  <2>3. p[1].at + l - 1 = Header + p[1].size
    BY <1>2 DEF l
  <2>4. p[l].at = Header + p[l].size
    BY <2>2, <2>3
  <2> QED
    BY <2>2, <2>4 DEF Follows
<1> QED
  BY <1>3, <1>8, <1>9 DEF l, n

\* A stream that goes to the end of its last message has all of the first one.
LEMMA WholeHasFirst ==
    ASSUME NEW p \in Seq(Bytes), Len(p) # 0, Flow(p), p[Len(p)].at = Header + p[Len(p)].size
    PROVE  Header + p[1].size - p[1].at + 1 <= Len(p)
<1> DEFINE l == Header + p[1].size - p[1].at + 1
<1>1. Len(p) \in Nat \ {0} /\ p[1] \in Bytes
  OBVIOUS
<1>2. /\ l \in Nat \ {0}
      /\ \A i \in 1 .. Len(p) : i <= l =>
             /\ p[i].msg = p[1].msg /\ p[i].size = p[1].size
             /\ p[i].at = p[1].at + i - 1
  BY MessageFlows
<1>3. Header \in Nat \ {0} /\ p[1].at \in Nat \ {0} /\ p[1].size \in Nat
  BY <1>1, ByteIs, Numbers
<1> SUFFICES ASSUME ~(l <= Len(p)) PROVE FALSE
  OBVIOUS
<1>4. Len(p) \in 1 .. Len(p) /\ Len(p) <= l
  BY <1>1, <1>2
<1>5. p[Len(p)].size = p[1].size /\ p[Len(p)].at = p[1].at + Len(p) - 1
  BY <1>2, <1>4
<1>6. p[1].at + Len(p) - 1 = Header + p[1].size
  BY <1>5
<1> QED
  BY <1>1, <1>3, <1>6

LEMMA BehindFlows ==
    ASSUME NEW p \in Seq(Bytes), NEW n \in Nat, n <= Len(p), Flow(p), NEW top, Below(p, top)
    PROVE  Flow(Behind(n, p)) /\ Below(Behind(n, p), top)
<1> DEFINE b == Behind(n, p)
<1>1. b \in Seq(Bytes) /\ Len(b) = Len(p) - n /\ \A i \in 1 .. Len(b) : b[i] = p[n + i]
  BY BehindIs
<1> HIDE DEF b
<1>2. Len(p) \in Nat
  OBVIOUS
<1>3. ASSUME NEW i \in 1 .. Len(b) - 1 PROVE Follows(b[i], b[i + 1])
  <2>1. /\ i \in 1 .. Len(b) /\ i + 1 \in 1 .. Len(b) /\ n + i \in 1 .. Len(p) - 1
        /\ n + (i + 1) = (n + i) + 1
    BY <1>1, <1>2
  <2>2. b[i] = p[n + i] /\ b[i + 1] = p[(n + i) + 1]
    BY <1>1, <2>1
  <2>3. Follows(p[n + i], p[(n + i) + 1])
    BY <2>1 DEF Flow
  <2> QED
    BY <2>2, <2>3
<1>4. ASSUME NEW i \in 1 .. Len(b) PROVE b[i].msg <= top
  <2>1. n + i \in 1 .. Len(p)
    BY <1>1, <1>2
  <2> QED
    BY <1>1, <2>1 DEF Below
<1> QED
  BY <1>3, <1>4 DEF b, Flow, Below

\* The end of a stream is the end of what is left of it.
LEMMA LastBehind ==
    ASSUME NEW p \in Seq(Bytes), NEW n \in Nat, n < Len(p)
    PROVE  Len(Behind(n, p)) # 0 /\ Behind(n, p)[Len(Behind(n, p))] = p[Len(p)]
<1> DEFINE b == Behind(n, p)
<1>1. b \in Seq(Bytes) /\ Len(b) = Len(p) - n /\ \A i \in 1 .. Len(b) : b[i] = p[n + i]
  BY BehindIs
<1> HIDE DEF b
<1>2. Len(p) \in Nat /\ Len(b) \in 1 .. Len(b) /\ n + Len(b) = Len(p) /\ Len(b) # 0
  BY <1>1
<1> QED
  BY <1>1, <1>2 DEF b

-----------------------------------------------------------------------------
(* The client.                                                             *)
ClientReaders == [buf : Seq(Bytes), flag : BOOLEAN, length : Nat, got : Seq(Nat)]

\* One round of ClientRound: first the length, if it is due, then the body.
Lengths(r) ==
    IF r.flag
    THEN {[r EXCEPT !.buf = Behind(Header, @), !.length = n] : n \in Number(Ahead(Header, r.buf))}
    ELSE {r}
Body(s) ==
    CASE s.length <= 0 -> [s EXCEPT !.buf = <<>>, !.flag = TRUE]
      [] s.length \in 1 .. Len(s.buf) ->
            [s EXCEPT !.buf = Behind(s.length, @), !.flag = TRUE,
                      !.got = Append(@, Message(Ahead(s.length, s.buf)))]
      [] OTHER -> [s EXCEPT !.flag = FALSE]

LEMMA RoundIs ==
    \A r : ClientRound(r) = IF Len(r.buf) < Header THEN {r} ELSE {Body(s) : s \in Lengths(r)}
BY DEF ClientRound, Lengths, Body

LEMMA NumberIs ==
    ASSUME NEW bytes \in Seq(Bytes), Len(bytes) # 0
    PROVE  Number(bytes) \subseteq Nat /\ (bytes[1].at = 1 => Number(bytes) = {bytes[1].size})
<1>1. bytes[1] \in Bytes
  OBVIOUS
<1>2. bytes[1].size \in Nat /\ bytes[1].announced = bytes[1].size
  BY <1>1, ByteIs
<1> QED
  BY <1>2, Numbers DEF Number

LEMMA MessageIs ==
    ASSUME NEW bytes \in Seq(Bytes)
    PROVE  /\ Message(bytes) \in Nat
           /\ (Len(bytes) # 0 /\ bytes[1].at = Header + 1 /\ Len(bytes) = bytes[1].size)
                => Message(bytes) = bytes[1].msg
<1>1. bytes # <<>> <=> Len(bytes) # 0
  OBVIOUS
<1>2. Len(bytes) # 0 => bytes[1] \in Bytes
  OBVIOUS
<1>3. Len(bytes) # 0 => bytes[1].msg \in Nat
  BY <1>2, ByteIs
<1> QED
  BY <1>1, <1>3 DEF Message

LEMMA LengthsType ==
    ASSUME NEW r \in ClientReaders, ~(Len(r.buf) < Header), NEW s \in Lengths(r)
    PROVE  s \in ClientReaders
<1>1. /\ r.buf \in Seq(Bytes) /\ r.flag \in BOOLEAN /\ r.length \in Nat /\ r.got \in Seq(Nat)
      /\ Header \in Nat \ {0} /\ Len(r.buf) \in Nat
  BY Numbers DEF ClientReaders
<1>2. CASE r.flag
  <2> DEFINE a == Ahead(Header, r.buf)
             b == Behind(Header, r.buf)
  <2>1. a \in Seq(Bytes) /\ Len(a) # 0
    BY <1>1, AheadIs
  <2>2. b \in Seq(Bytes)
    BY <1>1, BehindIs
  <2> HIDE DEF a, b
  <2>3. Number(a) \subseteq Nat
    BY <2>1, NumberIs
  <2>4. PICK n \in Number(a) : s = [r EXCEPT !.buf = b, !.length = n]
    BY <1>2 DEF Lengths, a, b
  <2> QED
    BY <2>2, <2>3, <2>4 DEF ClientReaders
<1>3. CASE ~r.flag
  BY <1>3 DEF Lengths
<1> QED
  BY <1>2, <1>3

LEMMA BodyType ==
    ASSUME NEW s \in ClientReaders
    PROVE  Body(s) \in ClientReaders
<1>1. s.buf \in Seq(Bytes) /\ s.length \in Nat /\ s.got \in Seq(Nat) /\ s.flag \in BOOLEAN
  BY DEF ClientReaders
<1> DEFINE a == Ahead(s.length, s.buf)
           b == Behind(s.length, s.buf)
           g == Append(s.got, Message(a))
           e == <<>>
<1>2. a \in Seq(Bytes) /\ b \in Seq(Bytes) /\ e \in Seq(Bytes)
  BY <1>1, AheadIs, BehindIs
<1>3. g \in Seq(Nat)
  <2> HIDE DEF a
  <2>1. Message(a) \in Nat
    BY <1>2, MessageIs
  <2> QED
    BY <1>1, <2>1
<1>4. \/ Body(s) = [s EXCEPT !.buf = e, !.flag = TRUE]
      \/ Body(s) = [s EXCEPT !.buf = b, !.flag = TRUE, !.got = g]
      \/ Body(s) = [s EXCEPT !.flag = FALSE]
  BY DEF Body
<1> HIDE DEF a, b, g, e
<1> QED
  BY <1>1, <1>2, <1>3, <1>4 DEF ClientReaders

LEMMA RoundType ==
    ASSUME NEW r \in ClientReaders
    PROVE  ClientRound(r) \subseteq ClientReaders
BY RoundIs, LengthsType, BodyType

\* The messages that were handed on are those of old, and then the next ones.
Continues(old, g) ==
    /\ g \in Seq(Nat) /\ Len(old) <= Len(g)
    /\ \A i \in 1 .. Len(old) : g[i] = old[i]
    /\ \A i \in 1 .. Len(g) : i > Len(old) => g[i] = i

\* A client that is at the byte of the stream where it believes to be.
Reads(s, rest, top, old, place) ==
    LET p == s.buf \o rest
        k == Len(s.got)
    IN  /\ s \in ClientReaders /\ Flow(p) /\ Below(p, top) /\ Whole(p, top, k)
        /\ Begins(p, k + 1, place) /\ k <= top /\ Continues(old, s.got)
        /\ place # 1 => Len(p) # 0 /\ s.length = p[1].size

ClientReads(s, rest, top, old) == Reads(s, rest, top, old, IF s.flag THEN 1 ELSE Header + 1)

LEMMA LengthRead ==
    ASSUME NEW rest \in Seq(Bytes), NEW top \in Nat, NEW old \in Seq(Nat), NEW r,
           ClientReads(r, rest, top, old), ~(Len(r.buf) < Header), NEW s \in Lengths(r)
    PROVE  Reads(s, rest, top, old, Header + 1)
<1>1. CASE ~r.flag
  BY <1>1 DEF ClientReads, Lengths
<1>2. CASE r.flag
  <2> DEFINE p == r.buf \o rest
             a == Ahead(Header, r.buf)
             b == Behind(Header, r.buf)
             q == b \o rest
             z == p[1].size
             k == Len(r.got)
  <2>1. /\ r \in ClientReaders /\ Flow(p) /\ Below(p, top) /\ Whole(p, top, k)
        /\ Begins(p, k + 1, 1) /\ k <= top /\ Continues(old, r.got)
    BY <1>2 DEF ClientReads, Reads
  <2>2. /\ r.buf \in Seq(Bytes) /\ Len(r.buf) \in Nat \ {0} /\ Header <= Len(r.buf)
        /\ Header \in Nat \ {0} /\ k \in Nat
    BY <2>1, Numbers DEF ClientReaders
  <2>3. /\ p \in Seq(Bytes) /\ Len(p) = Len(r.buf) + Len(rest)
        /\ \A i \in 1 .. Len(r.buf) : p[i] = r.buf[i]
    BY <2>2, JoinIs
  <2>4. a \in Seq(Bytes) /\ Len(a) = Header /\ \A i \in 1 .. Len(a) : a[i] = r.buf[i]
    BY <2>2, AheadIs
  <2>5. q = Behind(Header, p) /\ b \in Seq(Bytes)
    <3>1. r.buf \in Seq(Bytes) /\ Header \in Nat /\ Header <= Len(r.buf)
      BY <2>2
    <3>2. Behind(Header, r.buf) \o rest = Behind(Header, r.buf \o rest)
      BY <3>1, BehindJoin
    <3>3. Behind(Header, r.buf) \in Seq(Bytes)
      BY <3>1, BehindIs
    <3> QED
      BY <3>2, <3>3
  <2>6. \E n \in Number(a) : s = [r EXCEPT !.buf = b, !.length = n]
    BY <1>2 DEF Lengths
  <2> HIDE DEF p, a, b, q
  <2>7. Len(p) \in Nat \ {0} /\ Header <= Len(p) /\ p[1] \in Bytes
    <3>1. Len(rest) \in Nat
      OBVIOUS
    <3>2. Len(p) \in Nat \ {0} /\ Header <= Len(p)
      BY <2>2, <2>3, <3>1
    <3> QED
      BY <2>3, <3>2
  <2>8. p[1].msg = k + 1 /\ p[1].at = 1 /\ a[1] = p[1]
    <3>1. 1 \in 1 .. Len(a) /\ 1 \in 1 .. Len(r.buf)
      BY <2>2, <2>4
    <3>2. p[1] = r.buf[1] /\ a[1] = r.buf[1]
      BY <2>3, <2>4, <3>1
    <3>3. p[1].msg = k + 1 /\ p[1].at = 1
      BY <2>1, <2>7 DEF Begins
    <3> QED
      BY <3>2, <3>3
  <2>9. z \in Nat /\ z >= Header
    BY <2>7, ByteIs
  <2>10. p[Len(p)].msg = top /\ p[Len(p)].at = Header + p[Len(p)].size
    BY <2>1, <2>7 DEF Whole
  <2>11. Header + z - 1 + 1 <= Len(p)
    BY <2>1, <2>3, <2>7, <2>8, <2>10, WholeHasFirst
  <2>12. /\ Header + z <= Len(p) /\ Header < Len(p) /\ Header + 1 \in 1 .. Len(p)
         /\ Header + 1 <= Header + z - 1 + 1
    <3> DEFINE n == Len(p)
               h == Header
    <3>1. n \in Nat /\ h \in Nat \ {0} /\ z \in Nat /\ z >= h /\ h + z - 1 + 1 <= n
      BY <2>2, <2>7, <2>9, <2>11
    <3> HIDE DEF n, h, z
    <3>2. h + z <= n /\ h < n /\ h + 1 \in 1 .. n /\ h + 1 <= h + z - 1 + 1
      BY <3>1
    <3> QED
      BY <3>2 DEF n, h
  <2>13. p[Header + 1].msg = k + 1 /\ p[Header + 1].size = z /\ p[Header + 1].at = Header + 1
    <3>1. /\ p[Header + 1].msg = p[1].msg /\ p[Header + 1].size = p[1].size
          /\ p[Header + 1].at = p[1].at + (Header + 1) - 1
      BY <2>1, <2>3, <2>7, <2>8, <2>12, MessageFlows
    <3> QED
      BY <2>2, <2>8, <3>1
  <2>14. /\ q \in Seq(Bytes) /\ Len(q) = Len(p) - Header
         /\ \A i \in 1 .. Len(q) : q[i] = p[Header + i]
    BY <2>2, <2>3, <2>5, <2>7, BehindIs
  <2>15. Len(q) # 0 /\ q[1] = p[Header + 1]
    <3>1. Len(q) # 0 /\ 1 \in 1 .. Len(q)
      BY <2>2, <2>7, <2>12, <2>14
    <3> QED
      BY <2>14, <3>1
  <2>16. Flow(q) /\ Below(q, top)
    BY <2>1, <2>2, <2>3, <2>5, <2>7, BehindFlows
  <2>17. q[Len(q)] = p[Len(p)]
    BY <2>2, <2>3, <2>5, <2>12, LastBehind
  <2>18. a[1].at = 1 /\ Len(a) # 0
    BY <2>2, <2>4, <2>8
  <2>19. Number(a) = {a[1].size}
    BY <2>4, <2>18, NumberIs
  <2>20. s = [r EXCEPT !.buf = b, !.length = z]
    BY <2>6, <2>8, <2>19
  <2> HIDE DEF z
  <2>21. s \in ClientReaders /\ s.buf = b /\ s.length = z /\ s.got = r.got
    BY <2>1, <2>5, <2>9, <2>20 DEF ClientReaders
  <2> QED
    BY <2>1, <2>10, <2>13, <2>15, <2>16, <2>17, <2>21 DEF Reads, Whole, Begins, q
<1> QED
  BY <1>1, <1>2

LEMMA ContinuesOn ==
    ASSUME NEW old \in Seq(Nat), NEW g \in Seq(Nat), Continues(old, g)
    PROVE  Continues(old, Append(g, Len(g) + 1))
<1> DEFINE t == Append(g, Len(g) + 1)
           n == Len(g)
           m == Len(old)
<1>1. n \in Nat /\ m \in Nat /\ m <= n
  BY DEF Continues
<1>2. t \in Seq(Nat) /\ Len(t) = n + 1 /\ t[n + 1] = n + 1 /\ \A i \in 1 .. n : t[i] = g[i]
  OBVIOUS
<1>3. /\ \A i \in 1 .. m : g[i] = old[i]
      /\ \A i \in 1 .. n : i > m => g[i] = i
  BY DEF Continues
<1> HIDE DEF t, n, m
<1>4. ASSUME NEW i \in 1 .. m PROVE t[i] = old[i]
  <2>1. i \in 1 .. n
    BY <1>1
  <2> QED
    BY <1>2, <1>3, <2>1
<1>5. ASSUME NEW i \in 1 .. n + 1, i > m PROVE t[i] = i
  <2>1. i \in 1 .. n \/ i = n + 1
    BY <1>1
  <2> QED
    BY <1>2, <1>3, <1>5, <2>1
<1>6. Len(t) = n + 1 /\ m <= Len(t)
  BY <1>1, <1>2
<1> QED
  BY <1>2, <1>4, <1>5, <1>6 DEF Continues, t, n, m

LEMMA BodyRead ==
    ASSUME NEW rest \in Seq(Bytes), NEW top \in Nat, NEW old \in Seq(Nat), NEW s,
           Reads(s, rest, top, old, Header + 1)
    PROVE  ClientReads(Body(s), rest, top, old)
<1> DEFINE p == s.buf \o rest
           k == Len(s.got)
           z == s.length
           a == Ahead(z, s.buf)
           b == Behind(z, s.buf)
           q == b \o rest
           t == Append(s.got, k + 1)
<1>1. Header \in Nat \ {0} /\ Header + 1 # 1
  BY Numbers
<1>2. /\ s \in ClientReaders /\ Flow(p) /\ Below(p, top) /\ Whole(p, top, k)
      /\ Begins(p, k + 1, Header + 1) /\ k <= top /\ Continues(old, s.got)
      /\ Len(p) # 0 /\ z = p[1].size
  BY <1>1 DEF Reads
<1>3. s.buf \in Seq(Bytes) /\ z \in Nat /\ s.got \in Seq(Nat) /\ k \in Nat
  BY <1>2 DEF ClientReaders
<1>4. /\ p \in Seq(Bytes) /\ \A i \in 1 .. Len(s.buf) : p[i] = s.buf[i]
      /\ Len(p) = Len(s.buf) + Len(rest) /\ Len(s.buf) \in Nat /\ Len(rest) \in Nat
  <2>1. Len(s.buf) \in Nat /\ Len(rest) \in Nat
    BY <1>3
  <2> QED
    BY <1>3, <2>1, JoinIs
<1> HIDE DEF p
<1>5. Len(p) \in Nat \ {0} /\ 1 \in 1 .. Len(p) /\ p[1] \in Bytes
  BY <1>2, <1>4
<1>6. p[1].msg = k + 1 /\ p[1].at = Header + 1
  BY <1>2 DEF Begins
<1>7. p[Len(p)].msg = top /\ p[Len(p)].at = Header + p[Len(p)].size
  BY <1>2 DEF Whole
<1>8. z >= Header /\ z \in Nat \ {0}
  <2>1. p[1].size >= Header /\ p[1].size \in Nat
    BY <1>5, ByteIs
  <2> QED
    BY <1>1, <1>2, <2>1
<1>9. Header + z - (Header + 1) + 1 = z
  BY <1>1, <1>3
<1>10. z <= Len(p)
  BY <1>2, <1>4, <1>6, <1>7, <1>9, WholeHasFirst
<1>11. /\ \A i \in 1 .. Len(p) : i <= z => p[i].msg = k + 1
       /\ z < Len(p) => p[z + 1].msg = (k + 1) + 1 /\ p[z + 1].at = 1
  <2> DEFINE e == Header + p[1].size - p[1].at + 1
  <2>1. p \in Seq(Bytes) /\ Len(p) # 0 /\ Flow(p)
    BY <1>2, <1>4
  <2>2. /\ \A i \in 1 .. Len(p) : i <= e => p[i].msg = p[1].msg
        /\ e < Len(p) => p[e + 1].msg = p[1].msg + 1 /\ p[e + 1].at = 1
    BY <2>1, MessageFlows
  <2>3. e = z
    BY <1>2, <1>6, <1>9
  <2> HIDE DEF e, z
  <2> QED
    BY <1>6, <2>2, <2>3
<1>12. CASE z <= Len(s.buf)
  <2>1. a \in Seq(Bytes) /\ Len(a) = z /\ \A i \in 1 .. Len(a) : a[i] = s.buf[i]
    BY <1>3, <1>12, AheadIs
  <2>2. b \in Seq(Bytes)
    BY <1>3, BehindIs
  <2>3. q = Behind(z, p)
    <3>1. s.buf \in Seq(Bytes) /\ z \in Nat /\ z <= Len(s.buf)
      BY <1>3, <1>12
    <3>2. Behind(z, s.buf) \o rest = Behind(z, s.buf \o rest)
      BY <3>1, BehindJoin
    <3> QED
      BY <3>2 DEF p
  <2>4. /\ z \in 1 .. Len(s.buf) /\ ~(z <= 0)
    BY <1>4, <1>8, <1>12
  <2>5. Body(s) = [s EXCEPT !.buf = b, !.flag = TRUE, !.got = Append(@, Message(a))]
    BY <2>4 DEF Body
  <2> HIDE DEF a, b, q
  <2>6. a[1] = p[1] /\ Len(a) # 0
    <3>1. 1 \in 1 .. Len(a) /\ 1 \in 1 .. Len(s.buf)
      BY <1>8, <2>1, <1>12, <1>4
    <3>2. Len(a) # 0
      BY <1>8, <2>1
    <3> QED
      BY <1>4, <2>1, <3>1, <3>2
  <2>7. Message(a) = k + 1
    <3>1. Len(a) # 0 /\ a[1].at = Header + 1 /\ Len(a) = a[1].size /\ a[1].msg = k + 1
      BY <1>2, <1>6, <2>1, <2>6
    <3> QED
      BY <2>1, <3>1, MessageIs
  <2>8. Body(s) = [s EXCEPT !.buf = b, !.flag = TRUE, !.got = t]
    BY <2>5, <2>7
  <2>9. Continues(old, t)
    BY <1>2, <1>3, ContinuesOn
  <2>10. t \in Seq(Nat) /\ Len(t) = k + 1
    BY <1>3
  <2> HIDE DEF t
  <2>11. /\ Body(s) \in ClientReaders /\ Body(s).buf = b /\ Body(s).flag = TRUE
         /\ Body(s).got = t
    BY <1>2, <2>2, <2>8, <2>10 DEF ClientReaders
  <2>12. Flow(q) /\ Below(q, top)
    BY <1>2, <1>3, <1>4, <1>10, <2>3, BehindFlows
  <2>13. q \in Seq(Bytes) /\ Len(q) = Len(p) - z /\ \A i \in 1 .. Len(q) : q[i] = p[z + i]
    BY <1>3, <1>4, <1>10, <2>3, BehindIs
  <2>14. Whole(q, top, k + 1)
    <3>1. CASE z < Len(p)
      <4>1. Len(q) # 0 /\ q[Len(q)] = p[Len(p)]
        BY <1>3, <1>4, <2>3, <3>1, LastBehind
      <4> QED
        BY <1>7, <4>1 DEF Whole
    <3>2. CASE ~(z < Len(p))
      <4>1. z = Len(p) /\ Len(p) \in 1 .. Len(p) /\ Len(q) = 0 /\ Len(p) <= z
        BY <1>5, <1>10, <1>8, <2>13, <3>2
      <4>2. p[Len(p)].msg = k + 1
        BY <1>11, <4>1
      <4> QED
        BY <1>7, <4>1, <4>2 DEF Whole
    <3> QED
      BY <3>1, <3>2
  <2>15. Begins(q, (k + 1) + 1, 1)
    <3> SUFFICES ASSUME Len(q) # 0 PROVE q[1].msg = (k + 1) + 1 /\ q[1].at = 1
      BY DEF Begins
    <3>1. z < Len(p) /\ 1 \in 1 .. Len(q)
      BY <1>5, <1>8, <1>10, <2>13
    <3> QED
      BY <1>11, <2>13, <3>1
  <2>16. k + 1 <= top
    BY <1>2, <1>5, <1>6 DEF Below
  <2> HIDE DEF k
  <2> QED
    BY <2>9, <2>10, <2>11, <2>12, <2>14, <2>15, <2>16 DEF ClientReads, Reads, q
<1>13. CASE ~(z <= Len(s.buf))
  <2>1. ~(z <= 0) /\ z \notin 1 .. Len(s.buf)
    BY <1>8, <1>13
  <2>2. Body(s) = [s EXCEPT !.flag = FALSE]
    BY <2>1 DEF Body
  <2>3. /\ Body(s) \in ClientReaders /\ Body(s).buf = s.buf /\ Body(s).flag = FALSE
        /\ Body(s).got = s.got /\ Body(s).length = s.length
    BY <1>2, <2>2 DEF ClientReaders
  <2>4. Reads(Body(s), rest, top, old, Header + 1)
    BY <2>3 DEF Reads
  <2> QED
    BY <2>3, <2>4 DEF ClientReads
<1> QED
  BY <1>12, <1>13

LEMMA ClientRoundReads ==
    ASSUME NEW rest \in Seq(Bytes), NEW top \in Nat, NEW old \in Seq(Nat), NEW r,
           ClientReads(r, rest, top, old), NEW w \in ClientRound(r)
    PROVE  ClientReads(w, rest, top, old)
<1>1. CASE Len(r.buf) < Header
  BY <1>1, RoundIs
<1>2. CASE ~(Len(r.buf) < Header)
  <2>1. PICK s \in Lengths(r) : w = Body(s)
    BY <1>2, RoundIs
  <2>2. Reads(s, rest, top, old, Header + 1)
    BY <1>2, LengthRead
  <2> QED
    BY <2>1, <2>2, BodyRead
<1> QED
  BY <1>1, <1>2

\* The loop goes from a reader to what a round makes of it.
LEMMA ClientLoopStays ==
    ASSUME NEW V, NEW r \in V, Len(r.buf) \in Nat, \A s \in V : ClientRound(s) \subseteq V
    PROVE  ClientLoop(r) \subseteq V
<1> DEFINE q == Times(r)
           n == Len(r.buf) + 1
           On(rs) == UNION {ClientRound(s) : s \in rs}
           g == [rs \in SUBSET V |-> [i \in Nat |-> On(rs)]]
           Eq(it) == it = [s \in SUBSET (1 .. n) |-> IF s = {} THEN {r} ELSE On(it[s \ {Max(s)}])]
           it0 == CHOOSE it : Eq(it)
<1>1. n \in Nat /\ q \in Seq(Nat) /\ Len(q) = n /\ DOMAIN q = 1 .. n
  BY DEF Times
<1>2. \A rs \in SUBSET V : On(rs) \in SUBSET V
  OBVIOUS
<1>3. ClientLoop(r) = it0[1 .. n]
  BY <1>1, Zenon DEF FoldLeft, MapThenFoldSet, ClientLoop
<1> HIDE DEF On, q, n
<1>4. g \in [SUBSET V -> [Nat -> SUBSET V]]
  BY <1>2
<1>5. {r} \in SUBSET V
  OBVIOUS
<1> HIDE DEF g
<1>6. PICK f : IsFold(f, SUBSET V, q, {r}, g)
  BY <1>1, <1>4, <1>5, FoldDefined
<1>7. /\ f \in [SUBSET (1 .. n) -> SUBSET V] /\ f[{}] = {r}
      /\ \A s \in SUBSET (1 .. n) : s # {} => f[s] = g[f[s \ {Max(s)}]][q[Max(s)]]
  BY <1>1, <1>6 DEF IsFold
<1>8. Eq(f)
  <2>1. ASSUME NEW s \in SUBSET (1 .. n), s # {} PROVE f[s] = On(f[s \ {Max(s)}])
    <3>1. Max(s) \in s /\ s \ {Max(s)} \in SUBSET (1 .. n)
      BY <1>1, <2>1, MaxIn
    <3>2. f[s \ {Max(s)}] \in SUBSET V
      BY <1>7, <3>1
    <3>3. q[Max(s)] \in Nat
      <4>1. Max(s) \in 1 .. Len(q)
        BY <1>1, <3>1
      <4> QED
        BY <1>1, <4>1
    <3>4. g[f[s \ {Max(s)}]][q[Max(s)]] = On(f[s \ {Max(s)}])
      BY <3>2, <3>3 DEF g
    <3> QED
      BY <1>7, <2>1, <3>4
  <2> QED
    BY <1>7, <2>1
<1>9. Eq(it0)
  BY <1>8, Zenon
<1> HIDE DEF it0
<1> DEFINE Good == {i \in 0 .. n : it0[1 .. i] \in SUBSET V}
<1>10. 0 \in Good
  <2>1. 1 .. 0 = {} /\ {} \in SUBSET (1 .. n)
    OBVIOUS
  <2> QED
    BY <1>1, <1>5, <1>9, <2>1
<1>11. ASSUME NEW i \in 0 .. n - 1, i \in Good PROVE i + 1 \in Good
  <2>1. i + 1 \in 1 .. n /\ (i + 1) - 1 = i
    BY <1>1
  <2>2. /\ Max(1 .. i + 1) = i + 1 /\ (1 .. i + 1) \ {i + 1} = 1 .. i
        /\ 1 .. i + 1 \in SUBSET (1 .. n) /\ 1 .. i + 1 # {}
    BY <1>1, <2>1, FoldPasses
  <2>3. it0[1 .. i + 1] = On(it0[1 .. i])
    BY <1>9, <2>2
  <2> QED
    BY <1>2, <1>11, <2>1, <2>3
<1> HIDE DEF Good
<1>12. n \in Good
  <2>1. \A i \in 0 .. n : i \in Good
    BY <1>1, <1>10, <1>11, InductionUpTo
  <2> QED
    BY <1>1, <2>1
<1> QED
  BY <1>3, <1>12 DEF Good

LEMMA ServerLoopStays ==
    ASSUME NEW V, NEW r \in V, Len(r.buf) \in Nat, \A s \in V : ServerRound(s) \subseteq V
    PROVE  ServerLoop(r) \subseteq V
<1> DEFINE q == Times(r)
           n == Len(r.buf) + 1
           On(rs) == UNION {ServerRound(s) : s \in rs}
           g == [rs \in SUBSET V |-> [i \in Nat |-> On(rs)]]
           Eq(it) == it = [s \in SUBSET (1 .. n) |-> IF s = {} THEN {r} ELSE On(it[s \ {Max(s)}])]
           it0 == CHOOSE it : Eq(it)
<1>1. n \in Nat /\ q \in Seq(Nat) /\ Len(q) = n /\ DOMAIN q = 1 .. n
  BY DEF Times
<1>2. \A rs \in SUBSET V : On(rs) \in SUBSET V
  OBVIOUS
<1>3. ServerLoop(r) = it0[1 .. n]
  BY <1>1, Zenon DEF FoldLeft, MapThenFoldSet, ServerLoop
<1> HIDE DEF On, q, n
<1>4. g \in [SUBSET V -> [Nat -> SUBSET V]]
  BY <1>2
<1>5. {r} \in SUBSET V
  OBVIOUS
<1> HIDE DEF g
<1>6. PICK f : IsFold(f, SUBSET V, q, {r}, g)
  BY <1>1, <1>4, <1>5, FoldDefined
<1>7. /\ f \in [SUBSET (1 .. n) -> SUBSET V] /\ f[{}] = {r}
      /\ \A s \in SUBSET (1 .. n) : s # {} => f[s] = g[f[s \ {Max(s)}]][q[Max(s)]]
  BY <1>1, <1>6 DEF IsFold
<1>8. Eq(f)
  <2>1. ASSUME NEW s \in SUBSET (1 .. n), s # {} PROVE f[s] = On(f[s \ {Max(s)}])
    <3>1. Max(s) \in s /\ s \ {Max(s)} \in SUBSET (1 .. n)
      BY <1>1, <2>1, MaxIn
    <3>2. f[s \ {Max(s)}] \in SUBSET V
      BY <1>7, <3>1
    <3>3. q[Max(s)] \in Nat
      <4>1. Max(s) \in 1 .. Len(q)
        BY <1>1, <3>1
      <4> QED
        BY <1>1, <4>1
    <3>4. g[f[s \ {Max(s)}]][q[Max(s)]] = On(f[s \ {Max(s)}])
      BY <3>2, <3>3 DEF g
    <3> QED
      BY <1>7, <2>1, <3>4
  <2> QED
    BY <1>7, <2>1
<1>9. Eq(it0)
  BY <1>8, Zenon
<1> HIDE DEF it0
<1> DEFINE Good == {i \in 0 .. n : it0[1 .. i] \in SUBSET V}
<1>10. 0 \in Good
  <2>1. 1 .. 0 = {} /\ {} \in SUBSET (1 .. n)
    OBVIOUS
  <2> QED
    BY <1>1, <1>5, <1>9, <2>1
<1>11. ASSUME NEW i \in 0 .. n - 1, i \in Good PROVE i + 1 \in Good
  <2>1. i + 1 \in 1 .. n /\ (i + 1) - 1 = i
    BY <1>1
  <2>2. /\ Max(1 .. i + 1) = i + 1 /\ (1 .. i + 1) \ {i + 1} = 1 .. i
        /\ 1 .. i + 1 \in SUBSET (1 .. n) /\ 1 .. i + 1 # {}
    BY <1>1, <2>1, FoldPasses
  <2>3. it0[1 .. i + 1] = On(it0[1 .. i])
    BY <1>9, <2>2
  <2> QED
    BY <1>2, <1>11, <2>1, <2>3
<1> HIDE DEF Good
<1>12. n \in Good
  <2>1. \A i \in 0 .. n : i \in Good
    BY <1>1, <1>10, <1>11, InductionUpTo
  <2> QED
    BY <1>1, <2>1
<1> QED
  BY <1>3, <1>12 DEF Good

LEMMA ClientLoopReads ==
    ASSUME NEW rest \in Seq(Bytes), NEW top \in Nat, NEW old \in Seq(Nat), NEW r,
           ClientReads(r, rest, top, old), NEW w \in ClientLoop(r)
    PROVE  ClientReads(w, rest, top, old)
<1> DEFINE V == {s \in ClientReaders : ClientReads(s, rest, top, old)}
<1>1. r \in ClientReaders /\ r \in V
  BY DEF ClientReads, Reads
<1>2. Len(r.buf) \in Nat
  BY <1>1 DEF ClientReaders
<1>3. ASSUME NEW s \in V, NEW u \in ClientRound(s) PROVE u \in V
  <2>1. ClientReads(u, rest, top, old)
    BY <1>3, ClientRoundReads
  <2> QED
    BY <2>1 DEF ClientReads, Reads
<1> HIDE DEF V
<1>4. ClientLoop(r) \subseteq V
  <2>1. \A s \in V : ClientRound(s) \subseteq V
    BY <1>3
  <2> QED
    BY <1>1, <1>2, <2>1, ClientLoopStays
<1> QED
  BY <1>4 DEF V

LEMMA ClientLoopType ==
    ASSUME NEW r \in ClientReaders
    PROVE  ClientLoop(r) \subseteq ClientReaders
<1>1. Len(r.buf) \in Nat
  BY DEF ClientReaders
<1>2. \A s \in ClientReaders : ClientRound(s) \subseteq ClientReaders
  BY RoundType
<1> QED
  BY <1>1, <1>2, ClientLoopStays

-----------------------------------------------------------------------------
(* The server.                                                             *)
ServerReaders == [buf : Seq(Bytes), got : Seq(Nat)]

\* A server that is at the beginning of a message, k messages read before,
\* with pieces that end in last; the stream is whole if end says so.
Hears(s, rest, top, k, last, end) ==
    LET p == s.buf \o rest
        n == k + Len(s.got)
    IN  /\ s \in ServerReaders /\ Flow(p) /\ Below(p, top) /\ Begins(p, n + 1, 1) /\ n <= top
        /\ \A i \in 1 .. Len(s.got) : s.got[i] = k + i
        /\ Len(s.buf) # 0 => s.buf[Len(s.buf)] = last
        /\ end => Whole(p, top, n)

LEMMA ServerRoundType ==
    ASSUME NEW r \in ServerReaders
    PROVE  ServerRound(r) \subseteq ServerReaders
<1>1. r.buf \in Seq(Bytes) /\ r.got \in Seq(Nat) /\ Header \in Nat \ {0} /\ Len(r.buf) \in Nat
  BY Numbers DEF ServerReaders
<1>2. CASE Len(r.buf) < Header
  BY <1>2 DEF ServerRound
<1>3. CASE ~(Len(r.buf) < Header)
  <2> DEFINE a == Ahead(Header, r.buf)
             c == Behind(Header, r.buf)
             b(n) == Behind(Header + n, r.buf)
             g(n) == Append(r.got, Message(Ahead(n, c)))
  <2>1. a \in Seq(Bytes) /\ Len(a) # 0 /\ c \in Seq(Bytes)
    BY <1>1, <1>3, AheadIs, BehindIs
  <2>2. ServerRound(r) = {[buf |-> b(n), got |-> g(n)] : n \in Number(a)}
    BY <1>3 DEF ServerRound
  <2> HIDE DEF a, c
  <2>3. Number(a) \subseteq Nat
    BY <2>1, NumberIs
  <2>4. ASSUME NEW n \in Nat PROVE b(n) \in Seq(Bytes) /\ g(n) \in Seq(Nat)
    <3>1. Ahead(n, c) \in Seq(Bytes)
      BY <2>1, AheadIs
    <3>2. Message(Ahead(n, c)) \in Nat
      BY <3>1, MessageIs
    <3>3. Header + n \in Nat
      BY <1>1
    <3> QED
      BY <1>1, <3>2, <3>3, BehindIs
  <2> HIDE DEF b, g
  <2> QED
    BY <2>2, <2>3, <2>4 DEF ServerReaders
<1> QED
  BY <1>2, <1>3

LEMMA ServerRoundHears ==
    ASSUME NEW rest \in Seq(Bytes), NEW top \in Nat, NEW k \in Nat, NEW last, NEW end \in BOOLEAN,
           last.at \notin Header .. Header + last.size - 1, NEW r,
           Hears(r, rest, top, k, last, end), NEW w \in ServerRound(r)
    PROVE  Hears(w, rest, top, k, last, end)
<1> DEFINE B == r.buf
           p == B \o rest
           m == k + Len(r.got)
           z == p[1].size
           a == Ahead(Header, B)
           c == Behind(Header, B)
           d == Ahead(z, c)
           b == Behind(Header + z, B)
           q == b \o rest
           t == Append(r.got, m + 1)
<1> SUFFICES ASSUME ~(Len(B) < Header) PROVE Hears(w, rest, top, k, last, end)
  BY DEF ServerRound
<1>1. Header \in Nat \ {0}
  BY Numbers
<1>2. /\ r \in ServerReaders /\ Flow(p) /\ Below(p, top) /\ Begins(p, m + 1, 1) /\ m <= top
      /\ \A i \in 1 .. Len(r.got) : r.got[i] = k + i
      /\ Len(B) # 0 => B[Len(B)] = last
      /\ end => Whole(p, top, m)
  BY DEF Hears
<1>3. B \in Seq(Bytes) /\ r.got \in Seq(Nat) /\ m \in Nat /\ Len(B) \in Nat /\ Header <= Len(B)
  <2>1. B \in Seq(Bytes) /\ r.got \in Seq(Nat)
    BY <1>2 DEF ServerReaders
  <2>2. Len(B) \in Nat /\ Len(r.got) \in Nat
    BY <2>1
  <2> QED
    BY <1>1, <2>1, <2>2
<1>4. /\ p \in Seq(Bytes) /\ \A i \in 1 .. Len(B) : p[i] = B[i]
      /\ Len(p) = Len(B) + Len(rest) /\ Len(rest) \in Nat
  BY <1>3, JoinIs
<1> HIDE DEF p
<1>5. Len(p) \in Nat \ {0} /\ 1 \in 1 .. Len(p) /\ 1 \in 1 .. Len(B) /\ Len(B) <= Len(p)
  BY <1>1, <1>3, <1>4
<1>6. p[1] \in Bytes /\ p[1].msg = m + 1 /\ p[1].at = 1 /\ p[1] = B[1]
  BY <1>2, <1>4, <1>5 DEF Begins
<1>7. z \in Nat \ {0} /\ z >= Header
  <2>1. z \in Nat /\ z >= Header
    BY <1>6, ByteIs
  <2> QED
    BY <1>1, <2>1
<1> DEFINE l == Header + z
<1>8. Header + z - 1 + 1 = l /\ l \in Nat \ {0} /\ Header + 1 \in 1 .. l /\ Header < l
  <2> HIDE DEF z
  <2>1. Header + z - 1 + 1 = Header + z /\ Header + z \in Nat \ {0} /\ Header < Header + z
    BY <1>1, <1>7
  <2>2. Header + 1 \in 1 .. Header + z
    BY <1>1, <1>7
  <2> QED
    BY <2>1, <2>2
<1>9. /\ \A i \in 1 .. Len(p) : i <= l =>
            p[i].msg = m + 1 /\ p[i].size = z /\ p[i].at = 1 + i - 1
      /\ l < Len(p) => p[l + 1].msg = (m + 1) + 1 /\ p[l + 1].at = 1
  <2> DEFINE e == Header + p[1].size - p[1].at + 1
  <2>1. p \in Seq(Bytes) /\ Len(p) # 0 /\ Flow(p)
    BY <1>2, <1>4, <1>5
  <2>2. /\ \A i \in 1 .. Len(p) : i <= e =>
               p[i].msg = p[1].msg /\ p[i].size = z /\ p[i].at = p[1].at + i - 1
        /\ e < Len(p) => p[e + 1].msg = p[1].msg + 1 /\ p[e + 1].at = 1
    BY <2>1, MessageFlows
  <2>3. e = l
    BY <1>6, <1>8
  <2> HIDE DEF e, l, z
  <2> QED
    BY <1>6, <2>2, <2>3
<1> HIDE DEF z
<1>10. l <= Len(B)
  <2> SUFFICES ASSUME ~(l <= Len(B)) PROVE FALSE
    OBVIOUS
  <2>1. /\ Len(B) \in 1 .. Len(p) /\ Len(B) <= l /\ Len(B) \in 1 .. Len(B) /\ Len(B) # 0
        /\ Len(B) \in Header .. Header + z - 1
    <3> DEFINE x == Len(B)
               y == Len(p)
               h == Header
    <3>1. x \in Nat /\ y \in Nat /\ h \in Nat \ {0} /\ z \in Nat /\ h <= x /\ x <= y /\ ~(h + z <= x)
      BY <1>1, <1>3, <1>5, <1>7
    <3> HIDE DEF x, y, h
    <3>2. x \in 1 .. y /\ x <= h + z /\ x \in 1 .. x /\ x # 0 /\ x \in h .. h + z - 1
      BY <3>1
    <3> QED
      BY <3>2 DEF x, y, h
  <2>2. p[Len(B)] = last
    BY <1>2, <1>4, <2>1
  <2>3. last.size = z /\ last.at = 1 + Len(B) - 1
    BY <1>9, <2>1, <2>2
  <2>4. 1 + Len(B) - 1 = Len(B)
    BY <1>3
  <2> QED
    BY <2>1, <2>3, <2>4
<1>11. Number(a) = {z}
  <2>1. a \in Seq(Bytes) /\ Len(a) = Header /\ \A i \in 1 .. Len(a) : a[i] = B[i]
    BY <1>1, <1>3, AheadIs
  <2> HIDE DEF a
  <2>2. Len(a) # 0 /\ 1 \in 1 .. Len(a)
    BY <1>1, <2>1
  <2>3. a[1] = p[1]
    BY <1>6, <2>1, <2>2
  <2> QED
    BY <1>6, <2>1, <2>2, <2>3, NumberIs DEF z
<1>12. Message(d) = m + 1
  <2>1. c \in Seq(Bytes) /\ Len(c) = Len(B) - Header /\ \A i \in 1 .. Len(c) : c[i] = B[Header + i]
    BY <1>1, <1>3, BehindIs
  <2> HIDE DEF c
  <2>2. z <= Len(c) /\ 1 \in 1 .. Len(c) /\ z \in Nat
    BY <1>1, <1>3, <1>7, <1>10, <2>1
  <2>3. d \in Seq(Bytes) /\ Len(d) = z /\ \A i \in 1 .. Len(d) : d[i] = c[i]
    BY <2>1, <2>2, AheadIs
  <2> HIDE DEF d
  <2>4. 1 \in 1 .. Len(d) /\ Len(d) # 0
    BY <1>7, <2>3
  <2>5. Header + 1 \in 1 .. Len(B) /\ Header + 1 \in 1 .. Len(p) /\ Header + 1 <= l
    BY <1>1, <1>3, <1>5, <1>7, <1>10
  <2>6. d[1] = p[Header + 1]
    BY <1>4, <2>1, <2>2, <2>3, <2>4, <2>5
  <2>7. p[Header + 1].msg = m + 1 /\ p[Header + 1].size = z /\ p[Header + 1].at = 1 + (Header + 1) - 1
    BY <1>9, <2>5
  <2>8. 1 + (Header + 1) - 1 = Header + 1
    BY <1>1
  <2> QED
    BY <2>3, <2>4, <2>6, <2>7, <2>8, MessageIs
<1>13. w = [buf |-> b, got |-> t]
  <2>1. w \in {[buf |-> Behind(Header + n, B), got |-> Append(r.got, Message(Ahead(n, c)))] :
                  n \in Number(a)}
    BY DEF ServerRound
  <2> HIDE DEF a, c
  <2> QED
    BY <1>11, <1>12, <2>1
<1> HIDE DEF a, c, d
<1>14. q = Behind(l, p) /\ b \in Seq(Bytes)
  <2>1. B \in Seq(Bytes) /\ l \in Nat /\ l <= Len(B)
    BY <1>3, <1>8, <1>10
  <2> HIDE DEF l, B
  <2>2. Behind(l, B) \o rest = Behind(l, B \o rest) /\ Behind(l, B) \in Seq(Bytes)
    BY <2>1, BehindJoin, BehindIs
  <2> QED
    BY <2>2 DEF p, l, B
<1>15. l \in Nat /\ l <= Len(p)
  BY <1>4, <1>3, <1>8, <1>10
<1> HIDE DEF l
<1>16. q \in Seq(Bytes) /\ Len(q) = Len(p) - l /\ \A i \in 1 .. Len(q) : q[i] = p[l + i]
  BY <1>4, <1>14, <1>15, BehindIs
<1>17. Flow(q) /\ Below(q, top)
  BY <1>2, <1>4, <1>14, <1>15, BehindFlows
<1> HIDE DEF q
<1>18. Begins(q, (m + 1) + 1, 1)
  <2> SUFFICES ASSUME Len(q) # 0 PROVE q[1].msg = (m + 1) + 1 /\ q[1].at = 1
    BY DEF Begins
  <2>1. l < Len(p) /\ 1 \in 1 .. Len(q)
    BY <1>5, <1>15, <1>16
  <2> QED
    BY <1>9, <1>16, <2>1
<1>19. m + 1 <= top
  BY <1>2, <1>5, <1>6 DEF Below
<1>20. ASSUME Len(b) # 0 PROVE b[Len(b)] = last
  <2>1. Len(b) = Len(B) - l
    BY <1>3, <1>15, <1>10, BehindIs DEF l
  <2>2. l < Len(B) /\ Len(B) # 0
    BY <1>3, <1>10, <1>15, <1>20, <2>1
  <2>3. b[Len(b)] = B[Len(B)]
    BY <1>3, <1>15, <2>2, LastBehind DEF l
  <2> QED
    BY <1>2, <2>2, <2>3
<1>21. ASSUME end PROVE Whole(q, top, m + 1)
  <2>1. p[Len(p)].msg = top /\ p[Len(p)].at = Header + p[Len(p)].size
    BY <1>2, <1>5, <1>21 DEF Whole
  <2>2. CASE l < Len(p)
    <3>1. Len(q) # 0 /\ q[Len(q)] = p[Len(p)]
      BY <1>4, <1>14, <1>15, <2>2, LastBehind
    <3> QED
      BY <2>1, <3>1 DEF Whole
  <2>3. CASE ~(l < Len(p))
    <3>1. Len(p) \in 1 .. Len(p) /\ Len(p) <= l /\ Len(q) = 0
      BY <1>5, <1>15, <1>16, <2>3
    <3>2. p[Len(p)].msg = m + 1
      BY <1>9, <3>1
    <3> QED
      BY <2>1, <3>1, <3>2 DEF Whole
  <2> QED
    BY <2>2, <2>3
<1>22. t \in Seq(Nat) /\ k + Len(t) = m + 1 /\ \A i \in 1 .. Len(t) : t[i] = k + i
  <2>1. Len(r.got) \in Nat /\ t \in Seq(Nat) /\ Len(t) = Len(r.got) + 1
    BY <1>3
  <2>2. t[Len(r.got) + 1] = m + 1 /\ \A i \in 1 .. Len(r.got) : t[i] = r.got[i]
    BY <1>3
  <2>3. ASSUME NEW i \in 1 .. Len(t) PROVE t[i] = k + i
    <3>1. i \in 1 .. Len(r.got) \/ i = Len(r.got) + 1
      BY <2>1
    <3>2. k + (Len(r.got) + 1) = m + 1
      BY <2>1
    <3> QED
      BY <1>2, <2>2, <3>1, <3>2
  <2> QED
    BY <2>1, <2>3
<1> HIDE DEF b, t, m
<1>23. w \in ServerReaders /\ w.buf = b /\ w.got = t
  BY <1>13, <1>14, <1>22 DEF ServerReaders
<1> QED
  BY <1>17, <1>18, <1>19, <1>20, <1>21, <1>22, <1>23 DEF Hears, q

LEMMA ServerLoopHears ==
    ASSUME NEW rest \in Seq(Bytes), NEW top \in Nat, NEW k \in Nat, NEW last, NEW end \in BOOLEAN,
           last.at \notin Header .. Header + last.size - 1, NEW r,
           Hears(r, rest, top, k, last, end), NEW w \in ServerLoop(r)
    PROVE  Hears(w, rest, top, k, last, end)
<1> DEFINE V == {s \in ServerReaders : Hears(s, rest, top, k, last, end)}
<1>1. r \in ServerReaders /\ r \in V
  BY DEF Hears
<1>2. Len(r.buf) \in Nat
  BY <1>1 DEF ServerReaders
<1>3. ASSUME NEW s \in V, NEW u \in ServerRound(s) PROVE u \in V
  <2>1. Hears(u, rest, top, k, last, end)
    BY <1>3, ServerRoundHears
  <2> QED
    BY <2>1 DEF Hears
<1> HIDE DEF V
<1>4. ServerLoop(r) \subseteq V
  <2>1. \A s \in V : ServerRound(s) \subseteq V
    BY <1>3
  <2> QED
    BY <1>1, <1>2, <2>1, ServerLoopStays
<1> QED
  BY <1>4 DEF V

LEMMA ServerLoopType ==
    ASSUME NEW r \in ServerReaders
    PROVE  ServerLoop(r) \subseteq ServerReaders
<1>1. Len(r.buf) \in Nat
  BY DEF ServerReaders
<1>2. \A s \in ServerReaders : ServerRound(s) \subseteq ServerReaders
  BY ServerRoundType
<1> QED
  BY <1>1, <1>2, ServerLoopStays

-----------------------------------------------------------------------------
(* What is written joins the stream, what is lost leaves it from the end.  *)
LEMMA FrameIs ==
    ASSUME NEW k \in Nat, NEW size \in Bodies
    PROVE  /\ Frame(k, size) \in Seq(Bytes) /\ Len(Frame(k, size)) = Header + size
           /\ Header + size \in Nat \ {0}
           /\ \A i \in 1 .. Header + size :
                Frame(k, size)[i].msg = k /\ Frame(k, size)[i].at = i /\ Frame(k, size)[i].size = size
<1>1. Header \in Nat \ {0} /\ size \in Nat
  BY Numbers
<1> DEFINE n == Header + size
<1>2. n \in Nat \ {0}
  BY <1>1
<1> DEFINE b(i) == [msg |-> k, at |-> i, announced |-> size, size |-> size]
<1>3. \A i \in 1 .. n : b(i) \in Bytes
  BY <1>1, <1>2 DEF Bytes
<1>4. Frame(k, size) = [i \in 1 .. n |-> b(i)]
  BY DEF Frame
<1> HIDE DEF n
<1>5. \A i \in 1 .. n : b(i).msg = k /\ b(i).at = i /\ b(i).size = size
  OBVIOUS
<1> HIDE DEF b
<1>6. Frame(k, size) \in Seq(Bytes) /\ Len(Frame(k, size)) = n
  BY <1>2, <1>3, <1>4
<1> QED
  BY <1>2, <1>4, <1>5, <1>6 DEF n

LEMMA FrameJoins ==
    ASSUME NEW p \in Seq(Bytes), NEW top \in Nat, NEW size \in Bodies, Flow(p), Below(p, top),
           NEW k \in Nat, NEW place, Begins(p, k + 1, place), Whole(p, top, k),
           Len(p) = 0 => place = 1
    PROVE  LET q == p \o Frame(top + 1, size)
           IN  /\ q \in Seq(Bytes) /\ Flow(q) /\ Below(q, top + 1) /\ Whole(q, top + 1, k)
               /\ Begins(q, k + 1, place) /\ Len(q) # 0 /\ (Len(p) # 0 => q[1] = p[1])
<1> DEFINE f == Frame(top + 1, size)
           q == p \o f
           n == Len(p)
           l == Len(f)
<1>1. /\ f \in Seq(Bytes) /\ l = Header + size /\ l \in Nat \ {0}
      /\ \A i \in 1 .. l : f[i].msg = top + 1 /\ f[i].at = i /\ f[i].size = size
  <2>1. top + 1 \in Nat
    OBVIOUS
  <2> QED
    BY <2>1, FrameIs
<1> HIDE DEF f
<1>2. /\ q \in Seq(Bytes) /\ Len(q) = n + l /\ n \in Nat
      /\ \A i \in 1 .. n : q[i] = p[i]
      /\ \A i \in 1 .. l : q[n + i] = f[i]
  <2>1. f \in Seq(Bytes)
    BY <1>1
  <2> QED
    BY <2>1, JoinIs
<1>3. \A i \in 1 .. n : p[i] \in Bytes /\ p[i].msg \in Nat
  BY ByteIs
<1> HIDE DEF q, n, l
<1>4. ASSUME NEW i \in 1 .. Len(q) - 1 PROVE Follows(q[i], q[i + 1])
  <2>1. CASE i < n
    <3>1. i \in 1 .. n - 1 /\ i \in 1 .. n /\ i + 1 \in 1 .. n
      BY <1>2, <2>1
    <3>2. Follows(p[i], p[i + 1])
      BY <3>1 DEF Flow, n
    <3> QED
      BY <1>2, <3>1, <3>2
  <2>2. CASE i = n
    <3>1. n \in 1 .. n /\ 1 \in 1 .. l /\ n # 0 /\ Len(p) # 0
      BY <1>1, <1>2, <2>2 DEF n
    <3>2. q[i] = p[n] /\ q[i + 1] = f[1]
      BY <1>2, <2>2, <3>1
    <3>3. p[n].msg = top /\ p[n].at = Header + p[n].size
      BY <3>1 DEF Whole, n
    <3>4. f[1].msg = top + 1 /\ f[1].at = 1
      BY <1>1, <3>1
    <3> QED
      BY <3>2, <3>3, <3>4 DEF Follows
  <2>3. CASE i > n
    <3> DEFINE j == i - n
    <3>1. j \in 1 .. l /\ j + 1 \in 1 .. l /\ n + j = i /\ n + (j + 1) = i + 1 /\ j # l
      <4> DEFINE m == Len(q)
      <4>1. m = n + l /\ n \in Nat /\ l \in Nat /\ i \in 1 .. m - 1
        BY <1>1, <1>2
      <4> HIDE DEF m
      <4> QED
        BY <2>3, <4>1
    <3> HIDE DEF j
    <3>2. q[i] = f[j] /\ q[i + 1] = f[j + 1]
      BY <1>2, <3>1
    <3>3. /\ f[j].at = j /\ f[j].size = size /\ f[j].msg = top + 1
          /\ f[j + 1].at = j + 1 /\ f[j + 1].size = size /\ f[j + 1].msg = top + 1
      BY <1>1, <3>1
    <3>4. f[j].at # Header + f[j].size
      BY <1>1, <3>1, <3>3
    <3> QED
      BY <3>2, <3>3, <3>4 DEF Follows
  <2>4. i < n \/ i = n \/ i > n
    BY <1>2
  <2> QED
    BY <2>1, <2>2, <2>3, <2>4
<1>5. ASSUME NEW i \in 1 .. Len(q) PROVE q[i].msg <= top + 1
  <2>1. CASE i <= n
    <3>1. i \in 1 .. n
      BY <2>1
    <3>2. p[i].msg \in Nat /\ p[i].msg <= top
      BY <1>3, <3>1 DEF Below, n
    <3> QED
      BY <1>2, <3>1, <3>2
  <2>2. CASE ~(i <= n)
    <3> DEFINE j == i - n
    <3>1. j \in 1 .. l /\ n + j = i
      BY <1>1, <1>2, <2>2
    <3> HIDE DEF j
    <3>2. q[i].msg = top + 1
      BY <1>1, <1>2, <3>1
    <3> QED
      BY <3>2
  <2> QED
    BY <2>1, <2>2
<1>6. Len(q) # 0 /\ Len(q) = n + l /\ l \in 1 .. l
  BY <1>1, <1>2
<1>7. q[Len(q)] = f[l]
  BY <1>2, <1>6
<1>8. Whole(q, top + 1, k)
  BY <1>1, <1>6, <1>7 DEF Whole
<1>9. Len(p) # 0 => q[1] = p[1]
  <2>1. n # 0 => 1 \in 1 .. n
    BY <1>2
  <2> QED
    BY <1>2, <2>1 DEF n
<1>10. Begins(q, k + 1, place)
  <2>1. CASE Len(p) # 0
    BY <1>9, <2>1 DEF Begins
  <2>2. CASE Len(p) = 0
    <3>1. k = top /\ place = 1
      BY <2>2 DEF Whole
    <3>2. n + 1 = 1 /\ 1 \in 1 .. l
      BY <1>1, <2>2 DEF n
    <3>3. q[1] = f[1] /\ f[1].msg = top + 1 /\ f[1].at = 1
      BY <1>1, <1>2, <3>2
    <3> QED
      BY <3>1, <3>3 DEF Begins
  <2> QED
    BY <2>1, <2>2
<1> QED
  BY <1>2, <1>4, <1>5, <1>6, <1>8, <1>9, <1>10 DEF Flow, Below, q, f

LEMMA LostFlows ==
    ASSUME NEW s \in Seq(Bytes), NEW t \in Seq(Bytes), NEW n \in Nat, NEW top, NEW k, NEW place,
           Flow(s \o t), Below(s \o t, top), Begins(s \o t, k, place)
    PROVE  LET q == s \o Ahead(n, t) IN Flow(q) /\ Below(q, top) /\ Begins(q, k, place)
<1> DEFINE a == Ahead(n, t)
           p == s \o t
           q == s \o a
           m == Len(s)
<1>1. /\ a \in Seq(Bytes) /\ Len(a) = IF n <= Len(t) THEN n ELSE Len(t)
      /\ \A i \in 1 .. Len(a) : a[i] = t[i]
  BY AheadIs
<1> HIDE DEF a
<1>2. /\ q \in Seq(Bytes) /\ Len(q) = m + Len(a) /\ \A i \in 1 .. m : q[i] = s[i]
      /\ \A i \in 1 .. Len(a) : q[m + i] = a[i]
  <2>1. a \in Seq(Bytes)
    BY <1>1
  <2> QED
    BY <2>1, JoinIs
<1>3. /\ p \in Seq(Bytes) /\ Len(p) = m + Len(t) /\ \A i \in 1 .. m : p[i] = s[i]
      /\ \A i \in 1 .. Len(t) : p[m + i] = t[i]
  BY JoinIs
<1>4. m \in Nat /\ Len(a) \in Nat /\ Len(t) \in Nat /\ Len(a) <= Len(t)
  BY <1>1
<1> HIDE DEF q, p, m
<1>5. Len(q) \in Nat /\ Len(p) \in Nat /\ Len(q) <= Len(p)
  BY <1>2, <1>3, <1>4
<1>6. ASSUME NEW i \in 1 .. Len(q) PROVE q[i] = p[i]
  <2>1. CASE i <= m
    <3>1. i \in 1 .. m
      BY <2>1
    <3> QED
      BY <1>2, <1>3, <3>1
  <2>2. CASE ~(i <= m)
    <3> DEFINE j == i - m
    <3>1. j \in 1 .. Len(a) /\ j \in 1 .. Len(t) /\ m + j = i
      BY <1>2, <1>4, <2>2
    <3> HIDE DEF j
    <3> QED
      BY <1>1, <1>2, <1>3, <3>1
  <2> QED
    BY <2>1, <2>2
<1>7. \A i \in 1 .. Len(q) - 1 : i \in 1 .. Len(q) /\ i + 1 \in 1 .. Len(q) /\ i \in 1 .. Len(p) - 1
  BY <1>5
<1>8. \A i \in 1 .. Len(q) : i \in 1 .. Len(p)
  BY <1>5
<1>9. Flow(q)
  BY <1>6, <1>7 DEF Flow, p
<1>10. Below(q, top)
  BY <1>6, <1>8 DEF Below, p
<1>11. Begins(q, k, place)
  <2>1. Len(q) # 0 => Len(p) # 0 /\ 1 \in 1 .. Len(q)
    BY <1>5
  <2> QED
    BY <1>6, <2>1 DEF Begins, p
<1> QED
  BY <1>9, <1>10, <1>11 DEF q, a

\* A sum is no less than what it is of.
LEMMA SumBounds ==
    ASSUME NEW q \in Seq(Nat)
    PROVE  FoldLeft(+, 0, q) \in Nat /\ \A i \in 1 .. Len(q) : q[i] <= FoldLeft(+, 0, q)
<1> DEFINE n == Len(q)
           g == [v \in Nat |-> [i \in Nat |-> v + i]]
           Eq(it) == it = [s \in SUBSET (1 .. n) |-> IF s = {} THEN 0 ELSE it[s \ {Max(s)}] + q[Max(s)]]
           it0 == CHOOSE it : Eq(it)
<1>1. n \in Nat /\ \A i \in 1 .. n : q[i] \in Nat
  OBVIOUS
<1>2. FoldLeft(+, 0, q) = it0[1 .. n]
  <2>1. DOMAIN q = 1 .. n
    OBVIOUS
  <2> QED
    BY <2>1, Zenon DEF FoldLeft, MapThenFoldSet
<1>3. g \in [Nat -> [Nat -> Nat]]
  OBVIOUS
<1> HIDE DEF g, n
<1>4. PICK f : IsFold(f, Nat, q, 0, g)
  BY <1>3, FoldDefined
<1>5. /\ f \in [SUBSET (1 .. n) -> Nat] /\ f[{}] = 0
      /\ \A s \in SUBSET (1 .. n) : s # {} => f[s] = g[f[s \ {Max(s)}]][q[Max(s)]]
  BY <1>4 DEF IsFold, n
<1>6. Eq(f)
  <2>1. ASSUME NEW s \in SUBSET (1 .. n), s # {} PROVE f[s] = f[s \ {Max(s)}] + q[Max(s)]
    <3>1. Max(s) \in s /\ s \ {Max(s)} \in SUBSET (1 .. n)
      BY <1>1, <2>1, MaxIn
    <3>2. f[s \ {Max(s)}] \in Nat
      BY <1>5, <3>1
    <3>3. q[Max(s)] \in Nat
      BY <1>1, <3>1
    <3>4. g[f[s \ {Max(s)}]][q[Max(s)]] = f[s \ {Max(s)}] + q[Max(s)]
      BY <3>2, <3>3 DEF g
    <3> QED
      BY <1>5, <2>1, <3>4
  <2> QED
    BY <1>5, <2>1
<1>7. Eq(it0)
  BY <1>6, Zenon
<1> HIDE DEF it0
<1> DEFINE Good == {i \in 0 .. n : it0[1 .. i] \in Nat /\ \A j \in 1 .. i : q[j] <= it0[1 .. i]}
<1>8. 0 \in Good
  <2>1. 1 .. 0 = {} /\ {} \in SUBSET (1 .. n)
    OBVIOUS
  <2>2. it0[1 .. 0] = 0
    BY <1>7, <2>1
  <2> QED
    BY <1>1, <2>2
<1>9. ASSUME NEW i \in 0 .. n - 1, i \in Good PROVE i + 1 \in Good
  <2>1. i + 1 \in 1 .. n /\ (i + 1) - 1 = i /\ i + 1 \in 0 .. n
    BY <1>1
  <2>2. /\ Max(1 .. i + 1) = i + 1 /\ (1 .. i + 1) \ {i + 1} = 1 .. i
        /\ 1 .. i + 1 \in SUBSET (1 .. n) /\ 1 .. i + 1 # {}
    BY <1>1, <2>1, FoldPasses
  <2> DEFINE x == it0[1 .. i]
             y == it0[1 .. i + 1]
  <2>3. y = x + q[i + 1]
    BY <1>7, <2>2
  <2>4. x \in Nat /\ \A j \in 1 .. i : q[j] <= x
    BY <1>9
  <2>5. q[i + 1] \in Nat
    BY <1>1, <2>1
  <2> HIDE DEF x, y
  <2>6. y \in Nat /\ x <= y /\ q[i + 1] <= y
    BY <2>3, <2>4, <2>5
  <2>7. ASSUME NEW j \in 1 .. i + 1 PROVE q[j] <= y
    <3>1. j \in 1 .. i \/ j = i + 1
      OBVIOUS
    <3>2. j \in 1 .. i => j \in 1 .. n
      BY <1>1
    <3>3. CASE j \in 1 .. i
      <4>1. q[j] \in Nat /\ q[j] <= x
        BY <1>1, <2>4, <3>2, <3>3
      <4> QED
        BY <2>4, <2>6, <4>1
    <3> QED
      BY <2>6, <3>1, <3>3
  <2> QED
    BY <2>1, <2>6, <2>7 DEF y
<1> HIDE DEF Good
<1>10. n \in Good
  <2>1. \A i \in 0 .. n : i \in Good
    BY <1>1, <1>8, <1>9, InductionUpTo
  <2> QED
    BY <1>1, <2>1
<1> QED
  BY <1>2, <1>10 DEF Good, n
-----------------------------------------------------------------------------
(* The invariant.                                                          *)
Here == [buf |-> reader.buf, flag |-> reader.flag, length |-> reader.length, got |-> got[link]]

DataTypes ==
    /\ sent \in [Links -> Nat] /\ said \in [Links -> Nat]
    /\ got \in [Links -> Seq(Nat)] /\ heard \in [Links -> Seq(Nat)]
    /\ toClient \in [Links -> Seq(Bytes)] /\ toServer \in [Links -> Seq(Bytes)]
    /\ arrived \in [Links -> Seq(Bytes)]
    /\ reader \in [buf : Seq(Bytes), flag : BOOLEAN, length : Nat]

\* A connection begins with nothing: on neither side, and not at the client.
Fresh ==
    /\ state \in {"connecting", "silent"} => reader.buf = <<>>
    /\ \A c \in Links : c > links =>
        /\ toClient[c] = <<>> /\ toServer[c] = <<>> /\ arrived[c] = <<>>
        /\ sent[c] = 0 /\ said[c] = 0 /\ got[c] = <<>> /\ heard[c] = <<>>
        /\ c \notin stale

DownGood ==
    link # 0 /\ link \notin stale =>
        ClientReads(Here, toClient[link], sent[link], got[link])

UpGood(c) ==
    LET p == arrived[c] \o toServer[c]
    IN  /\ Flow(p) /\ Below(p, said[c]) /\ Begins(p, Len(heard[c]) + 1, 1)
        /\ Len(heard[c]) <= said[c]
        /\ c = link => Whole(p, said[c], Len(heard[c]))

IInv ==
    /\ TypeOK /\ DataTypes /\ Fresh /\ DownGood
    /\ \A c \in Links : c \notin cut => UpGood(c)

LEMMA EmptyFlows ==
    /\ Flow(<<>>) /\ \A top : Below(<<>>, top) /\ Whole(<<>>, top, top)
    /\ \A k, place : Begins(<<>>, k, place)
    /\ <<>> \o <<>> = <<>> /\ Len(<<>>) = 0
    /\ \A S : <<>> \in Seq(S)
BY DEF Flow, Below, Whole, Begins

LEMMA TypeFacts ==
    ASSUME IInv
    PROVE  /\ links \in Nat /\ accepted \in Nat /\ accepted <= links /\ links <= MaxLinks
           /\ link # 0 => link \in Links /\ link = links
           /\ link = 0 <=> state # "connected"
           /\ m_status <=> link # 0
           /\ m_clients \subseteq Links
           /\ 0 \notin Links
           /\ \A c \in Links : c \in Nat /\ c <= MaxLinks
           /\ \A c \in m_clients : c <= links
<1>1. TypeOK
  BY DEF IInv
<1>2. links \in 0 .. MaxLinks /\ accepted \in 0 .. links /\ m_clients \subseteq 1 .. accepted /\ link \in {0, links}
  BY <1>1 DEF TypeOK
<1>3. m_status = (state = "connected") /\ m_status = (link # 0)
  BY <1>1 DEF TypeOK
<1>4. (link = 0 <=> state # "connected") /\ (m_status <=> link # 0)
  BY <1>3
<1>5. links \in Nat /\ accepted \in Nat /\ accepted <= links /\ links <= MaxLinks /\ MaxLinks \in Nat
  BY <1>2, Numbers
<1>6. link # 0 => link \in Links /\ link = links
  BY <1>2, <1>5 DEF Links
<1>7. m_clients \subseteq Links /\ \A c \in m_clients : c <= links
  BY <1>2, <1>5 DEF Links
<1>8. 0 \notin Links /\ \A c \in Links : c \in Nat /\ c <= MaxLinks
  BY <1>5 DEF Links
<1> QED
  BY <1>4, <1>5, <1>6, <1>7, <1>8

\* What no step touches stays good.
LEMMA UpKept ==
    ASSUME IInv, UNCHANGED <<arrived, toServer, said, heard, cut>>, link' = link \/ link' = 0
    PROVE  \A c \in Links : c \notin cut' => UpGood(c)'
<1>1. ASSUME NEW c \in Links, c \notin cut PROVE UpGood(c)'
  <2>1. UpGood(c) /\ c # 0
    BY <1>1, TypeFacts DEF IInv
  <2>2. c = link' => c = link
    BY <2>1
  <2> QED
    BY <2>1, <2>2 DEF UpGood
<1> QED
  BY <1>1

LEMMA DownKept ==
    ASSUME IInv, UNCHANGED <<reader, link, stale, toClient, sent, got>>
    PROVE  DownGood'
BY DEF IInv, DownGood, Here

LEMMA InvInit ==
    ASSUME Init PROVE IInv
<1> DEFINE e == <<>>
<1>1. /\ state = "connecting" /\ link = 0 /\ links = 0 /\ m_status = FALSE
      /\ reader = [buf |-> e, flag |-> TRUE, length |-> 0]
      /\ toClient = [c \in Links |-> e] /\ toServer = toClient /\ arrived = toClient
      /\ accepted = 0 /\ m_clients = {} /\ stale = {} /\ cut = {}
      /\ sent = [c \in Links |-> 0] /\ said = sent
      /\ got = [c \in Links |-> e] /\ heard = got
  BY DEF Init
<1>2. e \in Seq(Bytes) /\ e \in Seq(Nat) /\ e \o e = e /\ Len(e) = 0
  BY EmptyFlows
<1>3. Flow(e) /\ (\A top : Below(e, top) /\ Whole(e, top, top)) /\ \A k, place : Begins(e, k, place)
  BY EmptyFlows
<1> HIDE DEF e
<1>4. TypeOK
  <2>1. m_status = (state = "connected") /\ m_status = (link # 0)
    BY <1>1
  <2>2. link \in {0, links} /\ links \in 0 .. MaxLinks /\ accepted \in 0 .. links
    BY <1>1, Numbers
  <2>3. \A c \in Links : sent[c] \in 0 .. MaxSent /\ said[c] \in 0 .. MaxSent
    BY <1>1, Numbers
  <2>4. reader.flag \in BOOLEAN /\ reader.length \in Nat
    BY <1>1
  <2> QED
    BY <1>1, <2>1, <2>2, <2>3, <2>4 DEF TypeOK
<1>5. DataTypes
  <2>1. \A S : e \in S => [c \in Links |-> e] \in [Links -> S]
    OBVIOUS
  <2>2. sent \in [Links -> Nat] /\ said \in [Links -> Nat]
    BY <1>1
  <2>3. reader \in [buf : Seq(Bytes), flag : BOOLEAN, length : Nat]
    BY <1>1, <1>2
  <2>4. got \in [Links -> Seq(Nat)] /\ heard \in [Links -> Seq(Nat)]
    BY <1>1, <1>2, <2>1
  <2>5. /\ toClient \in [Links -> Seq(Bytes)] /\ toServer \in [Links -> Seq(Bytes)]
        /\ arrived \in [Links -> Seq(Bytes)]
    BY <1>1, <1>2, <2>1
  <2> QED
    BY <2>2, <2>3, <2>4, <2>5 DEF DataTypes
<1>6. Fresh
  BY <1>1 DEF Fresh, e
<1>7. DownGood
  BY <1>1 DEF DownGood
<1>8. ASSUME NEW c \in Links PROVE UpGood(c)
  BY <1>1, <1>2, <1>3 DEF UpGood
<1> QED
  BY <1>4, <1>5, <1>6, <1>7, <1>8 DEF IInv

LEMMA InvStutter ==
    ASSUME IInv, UNCHANGED vars PROVE IInv'
<1>1. /\ UNCHANGED <<state, link, links, m_status, stale, reader, toClient, sent, got>>
      /\ UNCHANGED <<toServer, accepted, m_clients, arrived, said, heard, cut>>
  BY DEF vars, socket, down, up
<1>2. TypeOK /\ DataTypes /\ Fresh
  BY DEF IInv
<1>3. TypeOK' /\ DataTypes' /\ Fresh'
  BY <1>1, <1>2 DEF TypeOK, DataTypes, Fresh
<1>4. DownGood' /\ \A c \in Links : c \notin cut' => UpGood(c)'
  BY <1>1, DownKept, UpKept
<1> QED
  BY <1>3, <1>4 DEF IInv

LEMMA InvSocket ==
    ASSUME IInv, checkAndReconnect \/ Unanswered \/ connectionTimeout PROVE IInv'
<1>1. /\ UNCHANGED <<link, links, m_status, stale, toClient, sent, got>>
      /\ UNCHANGED <<toServer, accepted, m_clients, arrived, said, heard, cut>>
      /\ state # "connected" /\ state' \in {"connecting", "silent", "unconnected"}
  BY DEF checkAndReconnect, Unanswered, connectionTimeout, down, up
<1>2. TypeOK /\ DataTypes /\ Fresh /\ link = 0
  BY <1>1, TypeFacts DEF IInv
<1> DEFINE e == <<>>
<1>3. /\ reader' = [reader EXCEPT !.buf = e] \/ reader' = reader
      /\ state' \in {"connecting", "silent"} => reader'.buf = <<>>
  BY <1>2 DEF checkAndReconnect, Unanswered, connectionTimeout, Fresh, DataTypes
<1>4. TypeOK'
  <2>1. reader \in [buf : Seq(Bytes), flag : BOOLEAN, length : Nat]
    BY <1>2 DEF DataTypes
  <2>2. reader'.flag = reader.flag /\ reader'.length = reader.length
    BY <1>3, <2>1
  <2>3. state' # "connected"
    BY <1>1
  <2> QED
    BY <1>1, <1>2, <2>2, <2>3 DEF TypeOK
<1>5. DataTypes'
  <2>1. e \in Seq(Bytes)
    OBVIOUS
  <2> HIDE DEF e
  <2> QED
    BY <1>1, <1>2, <1>3, <2>1 DEF DataTypes
<1>6. Fresh'
  BY <1>1, <1>2, <1>3 DEF Fresh
<1>7. DownGood'
  BY <1>1, <1>2 DEF DownGood
<1>8. \A c \in Links : c \notin cut' => UpGood(c)'
  BY <1>1, UpKept
<1> QED
  BY <1>4, <1>5, <1>6, <1>7, <1>8 DEF IInv

LEMMA InvConnected ==
    ASSUME IInv, connected PROVE IInv'
<1> DEFINE l == links + 1
           e == <<>>
<1>1. /\ state = "connecting" /\ links < MaxLinks /\ state' = "connected" /\ m_status' = TRUE
      /\ links' = l /\ link' = l
      /\ stale' = IF reader.flag THEN stale ELSE stale \cup {l}
      /\ UNCHANGED <<reader, toClient, sent, got>>
      /\ UNCHANGED <<toServer, accepted, m_clients, arrived, said, heard, cut>>
  BY DEF connected, down, up
<1>2. TypeOK /\ DataTypes /\ Fresh
  BY DEF IInv
<1>3. l \in Links /\ l > links /\ l \in 0 .. MaxLinks /\ l # 0 /\ links \in Nat
  BY <1>1, TypeFacts, Numbers DEF Links
<1>4. /\ reader.buf = e /\ toClient[l] = e /\ toServer[l] = e /\ arrived[l] = e
      /\ sent[l] = 0 /\ said[l] = 0 /\ got[l] = e /\ heard[l] = e
  BY <1>1, <1>2, <1>3 DEF Fresh
<1>5. TypeOK'
  <2>1. accepted \in 0 .. l
    BY <1>2, <1>3 DEF TypeOK
  <2>2. stale' \subseteq Links
    BY <1>1, <1>2, <1>3 DEF TypeOK
  <2> HIDE DEF l
  <2> QED
    BY <1>1, <1>2, <1>3, <2>1, <2>2 DEF TypeOK
<1>6. DataTypes'
  BY <1>1, <1>2 DEF DataTypes
<1>7. Fresh'
  <2>1. ASSUME NEW c \in Links, c > l PROVE c > links /\ c # l
    <3>1. c \in Nat
      BY TypeFacts
    <3> QED
      BY <1>3, <2>1, <3>1
  <2> HIDE DEF l
  <2> QED
    BY <1>1, <1>2, <2>1 DEF Fresh
<1>8. DownGood'
  <2> SUFFICES ASSUME l \notin stale' PROVE ClientReads(Here', e, 0, e)
    BY <1>1, <1>4 DEF DownGood
  <2> HIDE DEF l
  <2>1. reader.flag = TRUE /\ reader.length \in Nat
    BY <1>1, <1>2 DEF TypeOK
  <2>2. Here' = [buf |-> e, flag |-> TRUE, length |-> reader.length, got |-> e]
    BY <1>1, <1>4, <2>1 DEF Here
  <2>3. /\ e \in Seq(Bytes) /\ e \in Seq(Nat) /\ e \o e = e /\ Len(e) = 0 /\ Flow(e)
        /\ Below(e, 0) /\ Whole(e, 0, 0) /\ Begins(e, 0 + 1, 1)
    BY EmptyFlows
  <2> HIDE DEF e
  <2>4. Continues(e, e)
    BY <2>3 DEF Continues
  <2>5. Here' \in ClientReaders
    BY <2>1, <2>2, <2>3 DEF ClientReaders
  <2>6. Reads(Here', e, 0, e, 1)
    BY <2>2, <2>3, <2>4, <2>5 DEF Reads
  <2> QED
    BY <2>2, <2>6 DEF ClientReads
<1>9. ASSUME NEW c \in Links, c \notin cut PROVE UpGood(c)'
  <2>1. CASE c = l
    <3>1. /\ arrived'[c] \o toServer'[c] = e /\ said'[c] = 0 /\ Len(heard'[c]) = 0
      BY <1>1, <1>4, <2>1, EmptyFlows
    <3>2. Flow(e) /\ Below(e, 0) /\ Whole(e, 0, 0) /\ Begins(e, 0 + 1, 1)
      BY EmptyFlows
    <3> HIDE DEF e, l
    <3> QED
      BY <3>1, <3>2 DEF UpGood
  <2>2. CASE c # l
    <3>1. UpGood(c)
      BY <1>9 DEF IInv
    <3>2. c # link'
      BY <1>1, <2>2
    <3> QED
      BY <1>1, <3>1, <3>2 DEF UpGood
  <2> QED
    BY <2>1, <2>2
<1>10. cut' = cut
  BY <1>1
<1> QED
  BY <1>5, <1>6, <1>7, <1>8, <1>9, <1>10 DEF IInv

LEMMA InvBreak ==
    ASSUME IInv, closeConnection PROVE IInv'
<1>1. /\ state = "connected" /\ state' = "unconnected" /\ m_status' = FALSE /\ link' = 0
      /\ toClient' = [toClient EXCEPT ![link] = <<>>]
      /\ UNCHANGED <<links, stale, reader, sent, got, accepted, m_clients, arrived, said, heard, cut>>
  BY DEF closeConnection
<1>2. PICK n \in 0 .. Len(toServer[link]) :
            toServer' = [toServer EXCEPT ![link] = Ahead(n, toServer[link])]
  BY DEF closeConnection
<1>3. TypeOK /\ DataTypes /\ Fresh /\ link \in Links /\ link = links
  BY <1>1, TypeFacts DEF IInv
<1> DEFINE t == toServer[link]
           a == Ahead(n, t)
           e == <<>>
<1>4. t \in Seq(Bytes) /\ n \in Nat
  BY <1>2, <1>3 DEF DataTypes
<1>5. a \in Seq(Bytes) /\ e \in Seq(Bytes)
  BY <1>4, AheadIs
<1>6. TypeOK'
  BY <1>1, <1>3 DEF TypeOK
<1>7. DataTypes'
  <2> HIDE DEF a, e
  <2>1. toServer' \in [Links -> Seq(Bytes)]
    BY <1>2, <1>3, <1>5 DEF DataTypes, a
  <2>2. toClient' \in [Links -> Seq(Bytes)]
    BY <1>1, <1>3, <1>5 DEF DataTypes, e
  <2> QED
    BY <1>1, <1>3, <2>1, <2>2 DEF DataTypes
<1>8. Fresh'
  <2>1. ASSUME NEW c \in Links, c > links PROVE c # link
    BY <1>3, <2>1, TypeFacts
  <2>2. \A c \in Links : c # link => toServer'[c] = toServer[c] /\ toClient'[c] = toClient[c]
    BY <1>1, <1>2, <1>3 DEF DataTypes
  <2> QED
    BY <1>1, <1>3, <2>1, <2>2 DEF Fresh
<1>9. DownGood'
  BY <1>1 DEF DownGood
<1>10. ASSUME NEW c \in Links, c \notin cut PROVE UpGood(c)'
  <2>1. UpGood(c) /\ c # link'
    BY <1>1, <1>10, TypeFacts DEF IInv
  <2>2. CASE c = link
    <3>1. toServer'[c] = a
      BY <1>2, <1>3, <2>2 DEF DataTypes
    <3>2. arrived[c] \in Seq(Bytes)
      BY <1>3 DEF DataTypes
    <3>3. LET p == arrived[c] \o t
          IN  Flow(p) /\ Below(p, said[c]) /\ Begins(p, Len(heard[c]) + 1, 1)
      BY <2>1, <2>2 DEF UpGood
    <3>4. LET q == arrived[c] \o a
          IN  Flow(q) /\ Below(q, said[c]) /\ Begins(q, Len(heard[c]) + 1, 1)
      <4> HIDE DEF t
      <4> QED
        BY <1>4, <3>2, <3>3, LostFlows
    <3> HIDE DEF a
    <3> QED
      BY <1>1, <2>1, <3>1, <3>4 DEF UpGood
  <2>3. CASE c # link
    <3>1. toServer'[c] = toServer[c]
      BY <1>2, <1>3, <2>3 DEF DataTypes
    <3> QED
      BY <1>1, <2>1, <3>1 DEF UpGood
  <2> QED
    BY <2>2, <2>3
<1>11. cut' = cut
  BY <1>1
<1> QED
  BY <1>6, <1>7, <1>8, <1>9, <1>10, <1>11 DEF IInv

\* What the client makes of what arrives.
LEMMA ReadyReadIs ==
    ASSUME IInv, readyRead
    PROVE  \E s \in ClientReaders : \E t \in Seq(Bytes) :
              /\ link \in Links
              /\ reader' = [buf |-> s.buf, flag |-> s.flag, length |-> s.length]
              /\ got' = [got EXCEPT ![link] = s.got]
              /\ toClient' = [toClient EXCEPT ![link] = t]
              /\ link \notin stale => ClientReads(s, t, sent[link], got[link])
<1>1. state = "connected"
  BY DEF readyRead
<1>2. DataTypes /\ TypeOK /\ link \in Links /\ link # 0
  BY <1>1, TypeFacts DEF IInv
<1> DEFINE u == toClient[link]
           r(n) == [buf |-> reader.buf \o Ahead(n, u), flag |-> reader.flag,
                    length |-> reader.length, got |-> got[link]]
<1>3. PICK n \in 1 .. Len(u) : \E s \in ClientLoop(r(n)) :
            /\ reader' = [buf |-> s.buf, flag |-> s.flag, length |-> s.length]
            /\ got' = [got EXCEPT ![link] = s.got]
            /\ toClient' = [toClient EXCEPT ![link] = Behind(n, @)]
  BY DEF readyRead
<1>4. PICK s \in ClientLoop(r(n)) :
            /\ reader' = [buf |-> s.buf, flag |-> s.flag, length |-> s.length]
            /\ got' = [got EXCEPT ![link] = s.got]
            /\ toClient' = [toClient EXCEPT ![link] = Behind(n, @)]
  BY <1>3
<1>5. /\ u \in Seq(Bytes) /\ n \in Nat /\ n <= Len(u) /\ reader.buf \in Seq(Bytes)
      /\ got[link] \in Seq(Nat) /\ sent[link] \in Nat
      /\ reader.flag \in BOOLEAN /\ reader.length \in Nat
  BY <1>2 DEF DataTypes
<1> DEFINE a == Ahead(n, u)
           b == Behind(n, u)
           j == reader.buf \o a
<1>6. a \in Seq(Bytes) /\ b \in Seq(Bytes)
  <2> HIDE DEF u
  <2> QED
    BY <1>5, AheadIs, BehindIs
<1>7. j \in Seq(Bytes)
  <2> HIDE DEF a
  <2> QED
    BY <1>5, <1>6
<1>8. j \o b = reader.buf \o u
  <2> HIDE DEF u
  <2> QED
    BY <1>5, Delivered
<1>9. toClient' = [toClient EXCEPT ![link] = b]
  BY <1>4
<1>10. r(n) = [buf |-> j, flag |-> reader.flag, length |-> reader.length, got |-> got[link]]
  OBVIOUS
<1> DEFINE x == r(n)
<1>11. s \in ClientLoop(x)
  BY <1>4
<1> HIDE DEF a, b, j, x
<1>12. /\ x \in ClientReaders /\ x.buf = j /\ x.flag = reader.flag /\ x.length = reader.length
       /\ x.got = got[link]
  BY <1>5, <1>7, <1>10 DEF ClientReaders, x
<1>13. s \in ClientReaders
  BY <1>11, <1>12, ClientLoopType
<1>14. ASSUME link \notin stale PROVE ClientReads(s, b, sent[link], got[link])
  <2>1. ClientReads(Here, u, sent[link], got[link])
    BY <1>2, <1>14 DEF IInv, DownGood
  <2>2. /\ Here.buf = reader.buf /\ Here.flag = reader.flag /\ Here.length = reader.length
        /\ Here.got = got[link]
    BY DEF Here
  <2> HIDE DEF u
  <2>3. ClientReads(x, b, sent[link], got[link])
    BY <1>8, <1>12, <2>1, <2>2 DEF ClientReads, Reads
  <2> QED
    BY <1>5, <1>6, <1>11, <2>3, ClientLoopReads
<1> QED
  BY <1>2, <1>4, <1>6, <1>9, <1>13, <1>14

LEMMA InvReadyRead ==
    ASSUME IInv, readyRead PROVE IInv'
<1>1. PICK s \in ClientReaders : \E t \in Seq(Bytes) :
              /\ link \in Links
              /\ reader' = [buf |-> s.buf, flag |-> s.flag, length |-> s.length]
              /\ got' = [got EXCEPT ![link] = s.got]
              /\ toClient' = [toClient EXCEPT ![link] = t]
              /\ link \notin stale => ClientReads(s, t, sent[link], got[link])
  BY ReadyReadIs
<1>2. PICK t \in Seq(Bytes) :
              /\ link \in Links
              /\ reader' = [buf |-> s.buf, flag |-> s.flag, length |-> s.length]
              /\ got' = [got EXCEPT ![link] = s.got]
              /\ toClient' = [toClient EXCEPT ![link] = t]
              /\ link \notin stale => ClientReads(s, t, sent[link], got[link])
  BY <1>1
<1>3. /\ UNCHANGED <<state, link, links, m_status, stale, sent>>
      /\ UNCHANGED <<toServer, accepted, m_clients, arrived, said, heard, cut>>
      /\ state = "connected"
  BY DEF readyRead, socket, up
<1>4. TypeOK /\ DataTypes /\ Fresh /\ link = links
  BY <1>3, TypeFacts DEF IInv
<1>5. /\ s.buf \in Seq(Bytes) /\ s.flag \in BOOLEAN /\ s.length \in Nat /\ s.got \in Seq(Nat)
      /\ s = [buf |-> s.buf, flag |-> s.flag, length |-> s.length, got |-> s.got]
  BY DEF ClientReaders
<1>6. reader'.buf = s.buf /\ reader'.flag = s.flag /\ reader'.length = s.length
  BY <1>2
<1>7. TypeOK'
  BY <1>3, <1>4, <1>5, <1>6 DEF TypeOK
<1>8. DataTypes'
  <2>1. reader' \in [buf : Seq(Bytes), flag : BOOLEAN, length : Nat]
    BY <1>2, <1>5
  <2>2. got' \in [Links -> Seq(Nat)]
    BY <1>2, <1>4, <1>5 DEF DataTypes
  <2>3. toClient' \in [Links -> Seq(Bytes)]
    BY <1>2, <1>4, <1>5 DEF DataTypes
  <2> QED
    BY <1>3, <1>4, <2>1, <2>2, <2>3 DEF DataTypes
<1>9. Fresh'
  <2>1. ASSUME NEW c \in Links, c > links PROVE c # link
    BY <1>4, <2>1, TypeFacts
  <2>2. \A c \in Links : c # link => got'[c] = got[c] /\ toClient'[c] = toClient[c]
    BY <1>2, <1>4 DEF DataTypes
  <2> QED
    BY <1>3, <1>4, <2>1, <2>2 DEF Fresh
<1>10. DownGood'
  <2> SUFFICES ASSUME link \notin stale PROVE ClientReads(Here', t, sent[link], s.got)
    <3>1. got'[link] = s.got /\ toClient'[link] = t
      BY <1>2, <1>4 DEF DataTypes
    <3> QED
      BY <1>3, <3>1 DEF DownGood
  <2>1. ClientReads(s, t, sent[link], got[link])
    BY <1>2
  <2>2. Here' = s
    <3>1. got'[link] = s.got
      BY <1>2, <1>4 DEF DataTypes
    <3> QED
      BY <1>3, <1>5, <1>6, <3>1 DEF Here
  <2>3. Continues(s.got, s.got)
    BY <1>5 DEF Continues
  <2>4. ClientReads(s, t, sent[link], s.got)
    BY <2>1, <2>3 DEF ClientReads, Reads
  <2> QED
    BY <2>2, <2>4
<1>11. \A c \in Links : c \notin cut' => UpGood(c)'
  BY <1>3, UpKept
<1> QED
  BY <1>7, <1>8, <1>9, <1>10, <1>11 DEF IInv

LEMMA InvAccept ==
    ASSUME IInv, slotNewConnection PROVE IInv'
<1>1. /\ accepted < links /\ accepted' = accepted + 1 /\ m_clients' = m_clients \cup {accepted + 1}
      /\ UNCHANGED <<state, link, links, m_status, stale, reader, toClient, sent, got>>
      /\ UNCHANGED <<toServer, arrived, said, heard, cut>>
  BY DEF slotNewConnection, socket, down
<1>2. TypeOK /\ DataTypes /\ Fresh /\ links \in Nat /\ accepted \in Nat
  BY TypeFacts DEF IInv
<1>3. TypeOK'
  <2>1. accepted' \in 0 .. links /\ 1 .. accepted \subseteq 1 .. accepted' /\ accepted + 1 \in 1 .. accepted'
    BY <1>1, <1>2
  <2>2. m_clients' \subseteq 1 .. accepted'
    BY <1>1, <1>2, <2>1 DEF TypeOK
  <2> QED
    BY <1>1, <1>2, <2>1, <2>2 DEF TypeOK
<1>4. DataTypes' /\ Fresh'
  BY <1>1, <1>2 DEF DataTypes, Fresh
<1>5. DownGood' /\ \A c \in Links : c \notin cut' => UpGood(c)'
  BY <1>1, DownKept, UpKept
<1> QED
  BY <1>3, <1>4, <1>5 DEF IInv

\* While there may be more messages, each connection may have one more.
LEMMA MessagesBound ==
    ASSUME IInv, Messages < MaxSent
    PROVE  \A c \in Links : sent[c] + 1 \in 0 .. MaxSent /\ said[c] + 1 \in 0 .. MaxSent
<1> DEFINE n == MaxLinks
           q == sent \o said
           m == FoldLeft(+, 0, q)
<1>1. sent \in [1 .. n -> Nat] /\ said \in [1 .. n -> Nat] /\ n \in Nat /\ MaxSent \in Nat
  BY Numbers DEF IInv, DataTypes, Links
<1>2. sent \in Seq(Nat) /\ said \in Seq(Nat) /\ Len(sent) = n /\ Len(said) = n
  BY <1>1
<1>3. /\ q \in Seq(Nat) /\ Len(q) = n + n /\ \A i \in 1 .. n : q[i] = sent[i]
      /\ \A i \in 1 .. n : q[n + i] = said[i]
  <2>1. sent \in Seq(Nat) /\ said \in Seq(Nat)
    BY <1>2
  <2>2. /\ q \in Seq(Nat) /\ Len(q) = Len(sent) + Len(said)
        /\ \A i \in 1 .. Len(sent) : q[i] = sent[i]
        /\ \A i \in 1 .. Len(said) : q[Len(sent) + i] = said[i]
    BY <2>1, JoinIs
  <2> HIDE DEF q, n
  <2> QED
    BY <1>2, <2>2
<1> HIDE DEF q
<1>4. m \in Nat /\ \A i \in 1 .. Len(q) : q[i] <= m
  BY <1>3, SumBounds
<1>5. m < MaxSent
  BY DEF Messages, q
<1> HIDE DEF m, n
<1>6. ASSUME NEW c \in 1 .. n PROVE sent[c] + 1 \in 0 .. MaxSent /\ said[c] + 1 \in 0 .. MaxSent
  <2>1. c \in 1 .. Len(q) /\ n + c \in 1 .. Len(q)
    BY <1>1, <1>3
  <2>2. sent[c] <= m /\ said[c] <= m /\ sent[c] \in Nat /\ said[c] \in Nat
    BY <1>1, <1>3, <1>4, <2>1
  <2> QED
    BY <1>1, <1>4, <1>5, <2>2
<1> QED
  BY <1>6 DEF Links, n

LEMMA InvSendToServer ==
    ASSUME IInv, NEW size \in Bodies, sendToServer(size) PROVE IInv'
<1> DEFINE f == Frame(said[link] + 1, size)
<1>1. /\ m_status /\ Messages < MaxSent /\ said' = [said EXCEPT ![link] = said[link] + 1]
      /\ UNCHANGED <<state, link, links, m_status, stale, reader, toClient, sent, got>>
      /\ UNCHANGED <<accepted, m_clients, arrived, heard, cut>>
  BY DEF sendToServer, socket, down
<1>2. TypeOK /\ DataTypes /\ Fresh /\ link \in Links /\ link = links
  BY <1>1, TypeFacts DEF IInv
<1>3. said'[link] = said[link] + 1 /\ said[link] \in Nat /\ said[link] + 1 \in Nat
  BY <1>1, <1>2 DEF DataTypes
<1>4. toServer' = [toServer EXCEPT ![link] = toServer[link] \o f]
  BY <1>3 DEF sendToServer
<1>5. f \in Seq(Bytes)
  BY <1>3, FrameIs
<1> HIDE DEF f
<1>6. toServer[link] \in Seq(Bytes) /\ arrived[link] \in Seq(Bytes)
  BY <1>2 DEF DataTypes
<1>7. toServer[link] \o f \in Seq(Bytes)
  BY <1>5, <1>6
<1>8. TypeOK'
  <2>1. \A c \in Links : said'[c] \in 0 .. MaxSent
    <3>1. said[link] + 1 \in 0 .. MaxSent
      BY <1>1, <1>2, MessagesBound
    <3> QED
      BY <1>1, <1>2, <3>1 DEF TypeOK, DataTypes
  <2> QED
    BY <1>1, <1>2, <2>1 DEF TypeOK
<1>9. DataTypes'
  <2>1. toServer' \in [Links -> Seq(Bytes)]
    BY <1>2, <1>4, <1>7 DEF DataTypes
  <2>2. said' \in [Links -> Nat]
    BY <1>1, <1>2, <1>3 DEF DataTypes
  <2> QED
    BY <1>1, <1>2, <2>1, <2>2 DEF DataTypes
<1>10. \A c \in Links : c # link => toServer'[c] = toServer[c] /\ said'[c] = said[c]
  BY <1>1, <1>2, <1>4 DEF DataTypes
<1>11. Fresh'
  <2>1. ASSUME NEW c \in Links, c > links PROVE c # link
    BY <1>2, <2>1, TypeFacts
  <2> QED
    BY <1>1, <1>2, <1>10, <2>1 DEF Fresh
<1>12. DownGood'
  BY <1>1, DownKept
<1>13. ASSUME NEW c \in Links, c \notin cut PROVE UpGood(c)'
  <2>1. UpGood(c)
    BY <1>13 DEF IInv
  <2>2. CASE c = link
    <3> DEFINE p == arrived[c] \o toServer[c]
               top == said[c]
               k == Len(heard[c])
               q == p \o f
    <3>1. p \in Seq(Bytes) /\ top \in Nat /\ k \in Nat /\ f = Frame(top + 1, size)
      <4>1. k \in Nat
        BY <1>2 DEF DataTypes
      <4> QED
        BY <1>3, <1>6, <2>2, <4>1 DEF f
    <3>2. Flow(p) /\ Below(p, top) /\ Begins(p, k + 1, 1) /\ k <= top /\ Whole(p, top, k)
      BY <2>1, <2>2 DEF UpGood
    <3>3. arrived'[c] \o toServer'[c] = q
      <4>1. toServer'[c] = toServer[c] \o f /\ arrived'[c] = arrived[c]
        BY <1>1, <1>2, <1>4, <2>2 DEF DataTypes
      <4>2. arrived[c] \o (toServer[c] \o f) = (arrived[c] \o toServer[c]) \o f
        <5> DEFINE x == arrived[c]
                   y == toServer[c]
        <5>1. x \in Seq(Bytes) /\ y \in Seq(Bytes) /\ f \in Seq(Bytes)
          BY <1>5, <1>6, <2>2
        <5> HIDE DEF x, y
        <5>2. x \o (y \o f) = (x \o y) \o f
          BY <5>1, JoinedOn
        <5> QED
          BY <5>2 DEF x, y
      <4> QED
        BY <4>1, <4>2
    <3> HIDE DEF p, top, k
    <3>4. Flow(q) /\ Below(q, top + 1) /\ Whole(q, top + 1, k) /\ Begins(q, k + 1, 1)
      BY <3>1, <3>2, FrameJoins
    <3>5. said'[c] = top + 1 /\ Len(heard'[c]) = k /\ k <= top + 1
      BY <1>1, <1>3, <2>2, <3>1, <3>2 DEF top, k
    <3> HIDE DEF q
    <3> QED
      BY <3>3, <3>4, <3>5 DEF UpGood
  <2>3. CASE c # link
    BY <1>1, <1>10, <2>1, <2>3 DEF UpGood
  <2> QED
    BY <2>2, <2>3
<1>14. cut' = cut
  BY <1>1
<1> QED
  BY <1>8, <1>9, <1>11, <1>12, <1>13, <1>14 DEF IInv

LEMMA InvSendToClient ==
    ASSUME IInv, NEW size \in Bodies, sendToClient(size) PROVE IInv'
<1> DEFINE f == Frame(sent[link] + 1, size)
<1>1. /\ link \in m_clients /\ Messages < MaxSent /\ sent' = [sent EXCEPT ![link] = sent[link] + 1]
      /\ UNCHANGED <<state, link, links, m_status, stale, reader, got>>
      /\ UNCHANGED <<toServer, accepted, m_clients, arrived, said, heard, cut>>
  BY DEF sendToClient, socket, up
<1>2. TypeOK /\ DataTypes /\ Fresh /\ link \in Links /\ link = links
  BY <1>1, TypeFacts DEF IInv
<1>3. sent'[link] = sent[link] + 1 /\ sent[link] \in Nat /\ sent[link] + 1 \in Nat
  BY <1>1, <1>2 DEF DataTypes
<1>4. toClient' = [toClient EXCEPT ![link] = toClient[link] \o f]
  BY <1>3 DEF sendToClient
<1>5. f \in Seq(Bytes)
  BY <1>3, FrameIs
<1> HIDE DEF f
<1>6. toClient[link] \in Seq(Bytes)
  BY <1>2 DEF DataTypes
<1>7. toClient[link] \o f \in Seq(Bytes)
  BY <1>5, <1>6
<1>8. TypeOK'
  <2>1. \A c \in Links : sent'[c] \in 0 .. MaxSent
    <3>1. sent[link] + 1 \in 0 .. MaxSent
      BY <1>1, <1>2, MessagesBound
    <3> QED
      BY <1>1, <1>2, <3>1 DEF TypeOK, DataTypes
  <2> QED
    BY <1>1, <1>2, <2>1 DEF TypeOK
<1>9. DataTypes'
  <2>1. toClient' \in [Links -> Seq(Bytes)]
    BY <1>2, <1>4, <1>7 DEF DataTypes
  <2>2. sent' \in [Links -> Nat]
    BY <1>1, <1>2, <1>3 DEF DataTypes
  <2> QED
    BY <1>1, <1>2, <2>1, <2>2 DEF DataTypes
<1>10. Fresh'
  <2>1. ASSUME NEW c \in Links, c > links PROVE c # link
    BY <1>2, <2>1, TypeFacts
  <2>2. \A c \in Links : c # link => toClient'[c] = toClient[c] /\ sent'[c] = sent[c]
    BY <1>1, <1>2, <1>4 DEF DataTypes
  <2> QED
    BY <1>1, <1>2, <2>1, <2>2 DEF Fresh
<1>11. DownGood'
  <2> DEFINE s == Here
             t == toClient[link]
             p == s.buf \o t
             top == sent[link]
             k == Len(s.got)
             place == IF s.flag THEN 1 ELSE Header + 1
             q == p \o f
  <2> SUFFICES ASSUME link \notin stale PROVE ClientReads(s, t \o f, top + 1, got[link])
    <3>1. toClient'[link] = t \o f /\ Here' = s
      BY <1>1, <1>2, <1>4 DEF DataTypes, Here
    <3> QED
      BY <1>1, <1>3, <3>1 DEF DownGood
  <2>1. ClientReads(s, t, top, got[link])
    BY <1>2, TypeFacts DEF IInv, DownGood
  <2> HIDE DEF s
  <2>2. /\ s \in ClientReaders /\ Flow(p) /\ Below(p, top) /\ Whole(p, top, k)
        /\ Begins(p, k + 1, place) /\ k <= top /\ Continues(got[link], s.got)
        /\ place # 1 => Len(p) # 0 /\ s.length = p[1].size
    BY <2>1 DEF ClientReads, Reads
  <2>3. s.buf \in Seq(Bytes) /\ t \in Seq(Bytes) /\ s.got \in Seq(Nat)
    BY <1>6, <2>2 DEF ClientReaders
  <2>4. s.buf \o (t \o f) = q
    <3> DEFINE x == s.buf
    <3>1. x \in Seq(Bytes) /\ t \in Seq(Bytes) /\ f \in Seq(Bytes)
      BY <1>5, <2>3
    <3> HIDE DEF x, t
    <3>2. x \o (t \o f) = (x \o t) \o f
      BY <3>1, JoinedOn
    <3> QED
      BY <3>2 DEF x
  <2>5. p \in Seq(Bytes) /\ k \in Nat /\ top \in Nat /\ f = Frame(top + 1, size)
    BY <1>3, <2>3 DEF f
  <2> HIDE DEF p, k, top, place
  <2>6. Len(p) = 0 => place = 1
    BY <2>2
  <2>7. /\ Flow(q) /\ Below(q, top + 1) /\ Whole(q, top + 1, k)
        /\ Begins(q, k + 1, place) /\ Len(q) # 0 /\ (Len(p) # 0 => q[1] = p[1])
    BY <2>2, <2>5, <2>6, FrameJoins
  <2>8. place # 1 => Len(q) # 0 /\ s.length = q[1].size
    BY <2>2, <2>7
  <2>9. k <= top + 1
    BY <2>2, <2>5
  <2> HIDE DEF q
  <2>10. Reads(s, t \o f, top + 1, got[link], place)
    BY <2>2, <2>4, <2>7, <2>8, <2>9 DEF Reads, k
  <2> QED
    BY <2>10 DEF ClientReads, place
<1>12. \A c \in Links : c \notin cut' => UpGood(c)'
  BY <1>1, UpKept
<1> QED
  BY <1>8, <1>9, <1>10, <1>11, <1>12 DEF IInv

\* What the server makes of what arrives.
LEMMA SlotReadIs ==
    ASSUME IInv, NEW c \in Links, slotReadClient(c)
    PROVE  \E s \in ServerReaders : \E t \in Seq(Bytes) :
              /\ arrived' = [arrived EXCEPT ![c] = s.buf]
              /\ heard' = [heard EXCEPT ![c] = heard[c] \o s.got]
              /\ toServer' = [toServer EXCEPT ![c] = t]
              /\ cut' \in {cut, cut \cup {c}}
              /\ c \notin cut' => \E last :
                    Hears(s, t, said[c], Len(heard[c]), last, c = link)
<1>1. DataTypes
  BY DEF IInv
<1> DEFINE u == toServer[c]
           r(n) == [buf |-> arrived[c] \o Ahead(n, u), got |-> <<>>]
<1>2. PICK n \in 1 .. Len(u) :
            /\ \E s \in ServerLoop(r(n)) :
                /\ arrived' = [arrived EXCEPT ![c] = s.buf]
                /\ heard' = [heard EXCEPT ![c] = heard[c] \o s.got]
            /\ toServer' = [toServer EXCEPT ![c] = Behind(n, u)]
            /\ cut' = IF u[n].at \in Header .. Header + u[n].size - 1
                      THEN cut \cup {c} ELSE cut
  BY DEF slotReadClient
<1>3. PICK s \in ServerLoop(r(n)) :
                /\ arrived' = [arrived EXCEPT ![c] = s.buf]
                /\ heard' = [heard EXCEPT ![c] = heard[c] \o s.got]
  BY <1>2
<1> DEFINE last == u[n]
           a == Ahead(n, u)
           b == Behind(n, u)
           j == arrived[c] \o a
           x == r(n)
           e == <<>>
<1>4. /\ u \in Seq(Bytes) /\ n \in Nat /\ n <= Len(u) /\ n # 0 /\ arrived[c] \in Seq(Bytes)
      /\ said[c] \in Nat /\ heard[c] \in Seq(Nat) /\ Len(heard[c]) \in Nat
  BY <1>1 DEF DataTypes
<1>5. /\ a \in Seq(Bytes) /\ Len(a) = n /\ \A i \in 1 .. Len(a) : a[i] = u[i]
  <2> HIDE DEF u
  <2> QED
    BY <1>4, AheadIs
<1>6. b \in Seq(Bytes)
  <2> HIDE DEF u
  <2> QED
    BY <1>4, BehindIs
<1>7. j \o b = arrived[c] \o u
  <2> HIDE DEF u
  <2> QED
    BY <1>4, Delivered
<1>8. x = [buf |-> j, got |-> e] /\ s \in ServerLoop(x)
  OBVIOUS
<1>9. toServer' = [toServer EXCEPT ![c] = b]
  BY <1>2
<1>10. cut' \in {cut, cut \cup {c}} /\ (c \notin cut' => c \notin cut /\ last.at \notin Header .. Header + last.size - 1)
  BY <1>2
<1> HIDE DEF a, b, u, x, last
<1>11. /\ j \in Seq(Bytes) /\ Len(j) = Len(arrived[c]) + Len(a)
       /\ \A i \in 1 .. Len(a) : j[Len(arrived[c]) + i] = a[i]
  <2>1. a \in Seq(Bytes)
    BY <1>5
  <2> QED
    BY <1>4, <2>1, JoinIs
<1>12. j[Len(j)] = last
  <2>1. n \in 1 .. Len(a) /\ Len(j) = Len(arrived[c]) + n
    BY <1>4, <1>5, <1>11
  <2> HIDE DEF j
  <2> QED
    BY <1>5, <1>11, <2>1 DEF last
<1> HIDE DEF j
<1>13. e \in Seq(Nat) /\ Len(e) = 0
  OBVIOUS
<1> HIDE DEF e
<1>14. x \in ServerReaders /\ x.buf = j /\ x.got = e
  BY <1>8, <1>11, <1>13 DEF ServerReaders
<1>15. s \in ServerReaders
  BY <1>8, <1>14, ServerLoopType
<1>16. ASSUME c \notin cut' PROVE Hears(s, b, said[c], Len(heard[c]), last, c = link)
  <2> DEFINE k == Len(heard[c])
             top == said[c]
             end == c = link
             p == arrived[c] \o u
  <2>1. UpGood(c)
    BY <1>10, <1>16 DEF IInv
  <2>2. /\ Flow(p) /\ Below(p, top) /\ Begins(p, k + 1, 1) /\ k <= top
        /\ end => Whole(p, top, k)
    BY <2>1 DEF UpGood, u
  <2>3. k + Len(x.got) = k /\ k \in Nat /\ top \in Nat
    BY <1>4, <1>13, <1>14
  <2>4. x.buf \o b = p
    BY <1>7, <1>14 DEF p
  <2>5. \A i \in 1 .. Len(x.got) : x.got[i] = k + i
    BY <1>13, <1>14
  <2>6. end \in BOOLEAN
    OBVIOUS
  <2> HIDE DEF p, k, top, end
  <2>7. Hears(x, b, top, k, last, end)
    BY <1>12, <1>14, <2>2, <2>3, <2>4, <2>5 DEF Hears
  <2>8. last.at \notin Header .. Header + last.size - 1
    BY <1>10, <1>16
  <2>9. Hears(s, b, top, k, last, end)
    BY <1>6, <1>8, <2>3, <2>6, <2>7, <2>8, ServerLoopHears
  <2> QED
    BY <2>9 DEF k, top, end
<1> QED
  BY <1>3, <1>6, <1>9, <1>10, <1>15, <1>16

LEMMA InvSlotRead ==
    ASSUME IInv, NEW c \in Links, slotReadClient(c) PROVE IInv'
<1>1. PICK s \in ServerReaders : \E t \in Seq(Bytes) :
              /\ arrived' = [arrived EXCEPT ![c] = s.buf]
              /\ heard' = [heard EXCEPT ![c] = heard[c] \o s.got]
              /\ toServer' = [toServer EXCEPT ![c] = t]
              /\ cut' \in {cut, cut \cup {c}}
              /\ c \notin cut' => \E last :
                    Hears(s, t, said[c], Len(heard[c]), last, c = link)
  BY SlotReadIs
<1>2. PICK t \in Seq(Bytes) :
              /\ arrived' = [arrived EXCEPT ![c] = s.buf]
              /\ heard' = [heard EXCEPT ![c] = heard[c] \o s.got]
              /\ toServer' = [toServer EXCEPT ![c] = t]
              /\ cut' \in {cut, cut \cup {c}}
              /\ c \notin cut' => \E last :
                    Hears(s, t, said[c], Len(heard[c]), last, c = link)
  BY <1>1
<1>3. /\ UNCHANGED <<state, link, links, m_status, stale, reader, toClient, sent, got>>
      /\ UNCHANGED <<accepted, m_clients, said>> /\ c \in m_clients
  BY DEF slotReadClient, socket, down
<1>4. TypeOK /\ DataTypes /\ Fresh
  BY DEF IInv
<1>5. s.buf \in Seq(Bytes) /\ s.got \in Seq(Nat) /\ heard[c] \in Seq(Nat) /\ heard[c] \o s.got \in Seq(Nat)
  BY <1>4 DEF ServerReaders, DataTypes
<1>6. TypeOK'
  <2>1. cut' \subseteq Links
    BY <1>2, <1>4 DEF TypeOK
  <2> QED
    BY <1>3, <1>4, <2>1 DEF TypeOK
<1>7. DataTypes'
  <2>1. arrived' \in [Links -> Seq(Bytes)] /\ toServer' \in [Links -> Seq(Bytes)]
    BY <1>2, <1>4, <1>5 DEF DataTypes
  <2>2. heard' \in [Links -> Seq(Nat)]
    BY <1>2, <1>4, <1>5 DEF DataTypes
  <2> QED
    BY <1>3, <1>4, <2>1, <2>2 DEF DataTypes
<1>8. \A d \in Links : d # c =>
        arrived'[d] = arrived[d] /\ heard'[d] = heard[d] /\ toServer'[d] = toServer[d]
  BY <1>2, <1>4 DEF DataTypes
<1>9. Fresh'
  <2>1. ASSUME NEW d \in Links, d > links PROVE d # c
    <3>1. c <= links /\ c \in Nat /\ d \in Nat /\ links \in Nat
      BY <1>3, TypeFacts
    <3> QED
      BY <2>1, <3>1
  <2> QED
    BY <1>3, <1>4, <1>8, <2>1 DEF Fresh
<1>10. DownGood'
  BY <1>3, DownKept
<1>11. ASSUME NEW d \in Links, d \notin cut' PROVE UpGood(d)'
  <2>1. CASE d = c
    <3> DEFINE k == Len(heard[c])
               n == k + Len(s.got)
               p == s.buf \o t
    <3>1. PICK last : Hears(s, t, said[c], k, last, c = link)
      BY <1>2, <1>11, <2>1
    <3>2. /\ Flow(p) /\ Below(p, said[c]) /\ Begins(p, n + 1, 1) /\ n <= said[c]
          /\ c = link => Whole(p, said[c], n)
      BY <3>1 DEF Hears
    <3>3. arrived'[c] = s.buf /\ toServer'[c] = t /\ heard'[c] = heard[c] \o s.got
      BY <1>2, <1>4 DEF DataTypes
    <3>4. Len(heard'[c]) = n
      BY <1>5, <3>3
    <3> HIDE DEF p, n
    <3>5. arrived'[c] \o toServer'[c] = p
      BY <3>3 DEF p
    <3> QED
      BY <1>3, <2>1, <3>2, <3>4, <3>5 DEF UpGood
  <2>2. CASE d # c
    <3>1. d \notin cut
      BY <1>2, <1>11, <2>2
    <3>2. UpGood(d)
      BY <3>1 DEF IInv
    <3> QED
      BY <1>3, <1>8, <2>2, <3>2 DEF UpGood
  <2> QED
    BY <2>1, <2>2
<1> QED
  BY <1>6, <1>7, <1>9, <1>10, <1>11 DEF IInv

LEMMA InvSlotDisconnected ==
    ASSUME IInv, NEW c \in Links, slotGotDisconnection(c) PROVE IInv'
<1> DEFINE e == <<>>
<1>1. /\ c \in m_clients /\ c # link /\ m_clients' = m_clients \ {c}
      /\ toServer' = [toServer EXCEPT ![c] = e] /\ arrived' = [arrived EXCEPT ![c] = e]
      /\ UNCHANGED <<state, link, links, m_status, stale, reader, toClient, sent, got>>
      /\ UNCHANGED <<accepted, said, heard, cut>>
  BY DEF slotGotDisconnection, socket, down
<1>2. TypeOK /\ DataTypes /\ Fresh
  BY DEF IInv
<1>3. e \in Seq(Bytes) /\ e \o e = e
  BY EmptyFlows
<1>4. TypeOK'
  BY <1>1, <1>2 DEF TypeOK
<1>5. DataTypes'
  <2> HIDE DEF e
  <2> QED
    BY <1>1, <1>2, <1>3 DEF DataTypes
<1>6. \A d \in Links : d # c => arrived'[d] = arrived[d] /\ toServer'[d] = toServer[d]
  BY <1>1, <1>2 DEF DataTypes
<1>7. arrived'[c] = e /\ toServer'[c] = e
  BY <1>1, <1>2 DEF DataTypes
<1>8. Fresh'
  <2>1. ASSUME NEW d \in Links, d > links PROVE d # c
    <3>1. c <= links /\ c \in Nat /\ d \in Nat /\ links \in Nat
      BY <1>1, TypeFacts
    <3> QED
      BY <2>1, <3>1
  <2> QED
    BY <1>1, <1>2, <1>6, <2>1 DEF Fresh
<1>9. DownGood'
  BY <1>1, DownKept
<1>10. ASSUME NEW d \in Links, d \notin cut' PROVE UpGood(d)'
  <2>1. UpGood(d)
    BY <1>1, <1>10 DEF IInv
  <2>2. CASE d = c
    <3>1. Flow(e) /\ Below(e, said[c]) /\ Begins(e, Len(heard[c]) + 1, 1)
      BY EmptyFlows
    <3> HIDE DEF e
    <3> QED
      BY <1>1, <1>3, <1>7, <2>1, <2>2, <3>1 DEF UpGood
  <2>3. CASE d # c
    BY <1>1, <1>6, <2>1, <2>3 DEF UpGood
  <2> QED
    BY <2>2, <2>3
<1> QED
  BY <1>4, <1>5, <1>8, <1>9, <1>10 DEF IInv

LEMMA InvNext ==
    ASSUME IInv, [Next]_vars PROVE IInv'
<1>1. CASE checkAndReconnect \/ Unanswered \/ connectionTimeout
  BY <1>1, InvSocket
<1>2. CASE connected
  BY <1>2, InvConnected
<1>3. CASE closeConnection
  BY <1>3, InvBreak
<1>4. CASE readyRead
  BY <1>4, InvReadyRead
<1>5. CASE slotNewConnection
  BY <1>5, InvAccept
<1>6. ASSUME NEW size \in Bodies, sendToServer(size) \/ sendToClient(size) PROVE IInv'
  BY <1>6, InvSendToServer, InvSendToClient
<1>7. ASSUME NEW c \in Links, slotReadClient(c) \/ slotGotDisconnection(c) PROVE IInv'
  BY <1>7, InvSlotRead, InvSlotDisconnected
<1>8. CASE UNCHANGED vars
  BY <1>8, InvStutter
<1> QED
  BY <1>1, <1>2, <1>3, <1>4, <1>5, <1>6, <1>7, <1>8 DEF Next

\* On every connection that is not spoiled, what is not read yet begins with
\* the byte at which the reader believes to be (both classes NetworkHelper).
THEOREM FramingInvariant == Spec => []IInv
<1>1. Init => IInv
  BY InvInit
<1>2. IInv /\ [Next]_vars => IInv'
  BY InvNext
<1> QED
  BY <1>1, <1>2, PTL DEF Spec

\* Every variable keeps its type, and m_status tells what the socket is
\* (NetworkHelper of the client).
THEOREM FramingTypes == Spec => []TypeOK
<1>1. IInv => TypeOK
  BY DEF IInv
<1> QED
  BY <1>1, FramingInvariant, PTL

-----------------------------------------------------------------------------
(* Both sides implement Channel.                                           *)

\* What is new in a sequence of messages are the next ones.
LEMMA NextOnes ==
    ASSUME NEW old \in Seq(Nat), NEW g \in Seq(Nat), Len(old) <= Len(g),
           \A i \in 1 .. Len(old) : g[i] = old[i],
           \A i \in 1 .. Len(g) : i > Len(old) => g[i] = i
    PROVE  /\ Len(g) - Len(old) \in Nat
           /\ g = old \o [i \in 1 .. Len(g) - Len(old) |-> Len(old) + i]
           /\ Len(g) - Len(old) = 0 => g = old
<1> DEFINE m == Len(old)
           n == Len(g) - m
           t == [i \in 1 .. n |-> m + i]
<1>1. m \in Nat /\ n \in Nat /\ Len(g) = m + n
  OBVIOUS
<1> HIDE DEF n
<1>2. t \in Seq(Nat) /\ Len(t) = n /\ \A i \in 1 .. n : t[i] = m + i
  BY <1>1
<1> HIDE DEF t
<1>3. /\ old \o t \in Seq(Nat) /\ Len(old \o t) = m + n
      /\ \A i \in 1 .. m : (old \o t)[i] = old[i]
      /\ \A i \in 1 .. n : (old \o t)[m + i] = t[i]
  <2>1. t \in Seq(Nat)
    BY <1>2
  <2>2. /\ old \o t \in Seq(Nat) /\ Len(old \o t) = Len(old) + Len(t)
        /\ \A i \in 1 .. Len(old) : (old \o t)[i] = old[i]
        /\ \A i \in 1 .. Len(t) : (old \o t)[Len(old) + i] = t[i]
    BY <2>1, JoinIs
  <2> QED
    BY <1>2, <2>2
<1>4. ASSUME NEW i \in 1 .. Len(g) PROVE g[i] = (old \o t)[i]
  <2>1. CASE i <= m
    <3>1. i \in 1 .. m
      BY <2>1
    <3> QED
      BY <1>3, <3>1
  <2>2. CASE ~(i <= m)
    <3> DEFINE j == i - m
    <3>1. j \in 1 .. n /\ m + j = i /\ i > m
      BY <1>1, <2>2
    <3> HIDE DEF j
    <3>2. (old \o t)[i] = m + j
      BY <1>2, <1>3, <3>1
    <3> QED
      BY <3>1, <3>2
  <2> QED
    BY <2>1, <2>2
<1>5. g = old \o t
  BY <1>1, <1>3, <1>4, SameSeq
<1>6. ASSUME n = 0 PROVE g = old
  <2>1. Len(g) = Len(old)
    BY <1>1, <1>6
  <2> QED
    BY <2>1, SameSeq
<1> QED
  BY <1>1, <1>5, <1>6 DEF n, t

LEMMA ReadyReadDelivers ==
    ASSUME IInv, readyRead
    PROVE  Down!Spoil(link) \/ Down!Deliver(link) \/ UNCHANGED <<sent, got, stale>>
<1>1. PICK s \in ClientReaders : \E t \in Seq(Bytes) :
              /\ link \in Links
              /\ got' = [got EXCEPT ![link] = s.got]
              /\ link \notin stale => ClientReads(s, t, sent[link], got[link])
  BY ReadyReadIs
<1>2. PICK t \in Seq(Bytes) :
              /\ link \in Links
              /\ got' = [got EXCEPT ![link] = s.got]
              /\ link \notin stale => ClientReads(s, t, sent[link], got[link])
  BY <1>1
<1>3. sent' = sent /\ stale' = stale
  BY DEF readyRead, socket
<1>4. got \in [Links -> Seq(Nat)] /\ sent[link] \in Nat
  BY <1>2 DEF IInv, DataTypes
<1>5. CASE link \in stale
  <2>1. stale' = stale \cup {link}
    BY <1>3, <1>5
  <2>2. \A d \in Links \ {link} : got'[d] = got[d]
    BY <1>2, <1>4
  <2> QED
    BY <1>3, <2>1, <2>2 DEF Down!Spoil
<1>6. CASE link \notin stale
  <2> DEFINE old == got[link]
             g == s.got
             n == Len(g) - Len(old)
  <2>1. old \in Seq(Nat) /\ g \in Seq(Nat)
    BY <1>2, <1>4 DEF ClientReaders
  <2>2. Continues(old, g) /\ Len(g) <= sent[link]
    BY <1>2, <1>6 DEF ClientReads, Reads
  <2>3. got' = [got EXCEPT ![link] = g]
    BY <1>2
  <2> HIDE DEF g, old
  <2>4. n \in Nat /\ g = old \o [i \in 1 .. n |-> Len(old) + i] /\ (n = 0 => g = old)
    BY <2>1, <2>2, NextOnes DEF Continues
  <2>5. CASE n = 0
    <3>1. got' = got
      BY <1>4, <2>3, <2>4, <2>5 DEF old
    <3> QED
      BY <1>3, <3>1
  <2>6. CASE n # 0
    <3>1. n \in 1 .. sent[link] - Len(old)
      BY <1>4, <2>1, <2>2, <2>4, <2>6
    <3> HIDE DEF n
    <3>2. got' = [got EXCEPT ![link] = @ \o [i \in 1 .. n |-> Len(@) + i]]
      BY <2>3, <2>4 DEF old
    <3> QED
      BY <1>3, <1>6, <3>1, <3>2 DEF Down!Deliver, old
  <2> QED
    BY <2>5, <2>6
<1> QED
  BY <1>5, <1>6

LEMMA DownStep ==
    ASSUME IInv, [Next]_vars
    PROVE  [Down!Next]_<<sent, got, stale>>
<1>1. CASE checkAndReconnect \/ Unanswered \/ connectionTimeout \/ closeConnection
  BY <1>1 DEF checkAndReconnect, Unanswered, connectionTimeout, closeConnection, down
<1>2. CASE connected
  <2>1. links + 1 \in Links /\ links' = links + 1
    BY <1>2, TypeFacts, Numbers DEF connected, Links
  <2>2. UNCHANGED <<sent, got>> /\ stale' \in {stale, stale \cup {links + 1}}
    BY <1>2 DEF connected, down
  <2>3. stale' = stale \/ Down!Spoil(links + 1)
    BY <2>2 DEF Down!Spoil
  <2> QED
    BY <2>1, <2>2, <2>3 DEF Down!Next
<1>3. CASE readyRead
  <2>1. link \in Links
    BY <1>3, TypeFacts DEF readyRead
  <2> QED
    BY <1>3, <2>1, ReadyReadDelivers DEF Down!Next
<1>4. CASE slotNewConnection
  BY <1>4 DEF slotNewConnection, socket, down
<1>5. ASSUME NEW size \in Bodies, sendToServer(size) PROVE [Down!Next]_<<sent, got, stale>>
  BY <1>5 DEF sendToServer, socket, down
<1>6. ASSUME NEW size \in Bodies, sendToClient(size) PROVE [Down!Next]_<<sent, got, stale>>
  <2>1. link \in Links
    BY <1>6, TypeFacts DEF sendToClient
  <2>2. Down!Send(link)
    BY <1>6 DEF sendToClient, socket, Down!Send
  <2> QED
    BY <2>1, <2>2 DEF Down!Next
<1>7. ASSUME NEW c \in Links, slotReadClient(c) \/ slotGotDisconnection(c)
      PROVE  [Down!Next]_<<sent, got, stale>>
  BY <1>7 DEF slotReadClient, slotGotDisconnection, socket, down
<1>8. CASE UNCHANGED vars
  BY <1>8 DEF vars, socket, down
<1> QED
  BY <1>1, <1>2, <1>3, <1>4, <1>5, <1>6, <1>7, <1>8 DEF Next

\* However TCP cuts the bytes, and however long the messages are: the client
\* hands on the messages of a connection whole, once and in order, unless
\* the connection before broke within a message (NetworkHelper.cpp:102 of
\* the client).
THEOREM ClientReadsWhole == Spec => ClientReadsMessages
<1>1. Init => Down!Init
  BY DEF Init, Down!Init
<1>2. IInv /\ [Next]_vars => [Down!Next]_<<sent, got, stale>>
  BY DownStep
<1> QED
  BY <1>1, <1>2, FramingInvariant, PTL DEF Spec, ClientReadsMessages, Down!Spec

LEMMA SlotReadDelivers ==
    ASSUME IInv, NEW c \in Links, slotReadClient(c)
    PROVE  Up!Spoil(c) \/ Up!Deliver(c) \/ UNCHANGED <<said, heard, cut>>
<1>1. PICK s \in ServerReaders : \E t \in Seq(Bytes) :
              /\ heard' = [heard EXCEPT ![c] = heard[c] \o s.got]
              /\ cut' \in {cut, cut \cup {c}}
              /\ c \notin cut' => \E last :
                    Hears(s, t, said[c], Len(heard[c]), last, c = link)
  BY SlotReadIs
<1>2. said' = said
  BY DEF slotReadClient
<1>3. heard \in [Links -> Seq(Nat)] /\ said[c] \in Nat
  BY DEF IInv, DataTypes
<1>4. CASE c \in cut'
  <2>1. cut' = cut \cup {c}
    BY <1>1, <1>4
  <2>2. \A d \in Links \ {c} : heard'[d] = heard[d]
    BY <1>1, <1>3
  <2> QED
    BY <1>2, <2>1, <2>2 DEF Up!Spoil
<1>5. CASE c \notin cut'
  <2> DEFINE old == heard[c]
             n == Len(s.got)
             t == [i \in 1 .. n |-> Len(old) + i]
  <2>1. old \in Seq(Nat) /\ s.got \in Seq(Nat) /\ n \in Nat /\ Len(old) \in Nat
    BY <1>3 DEF ServerReaders
  <2>2. Len(old) + n <= said[c] /\ \A i \in 1 .. n : s.got[i] = Len(old) + i
    BY <1>1, <1>5 DEF Hears
  <2>3. s.got = t
    <3> HIDE DEF old
    <3>1. t \in Seq(Nat) /\ Len(t) = n /\ \A i \in 1 .. n : t[i] = Len(old) + i
      BY <2>1
    <3> HIDE DEF t
    <3> QED
      BY <2>1, <2>2, <3>1, SameSeq
  <2>4. heard' = [heard EXCEPT ![c] = old \o t] /\ cut' = cut
    BY <1>1, <1>5, <2>3
  <2>5. CASE n = 0
    <3>1. s.got = <<>> /\ old \o <<>> = old
      BY <2>1, <2>5
    <3>2. heard' = heard
      BY <1>3, <2>3, <2>4, <3>1
    <3> QED
      BY <1>2, <2>4, <3>2
  <2>6. CASE n # 0
    <3>1. n \in 1 .. said[c] - Len(old)
      BY <1>3, <2>1, <2>2, <2>6
    <3> HIDE DEF n
    <3> QED
      BY <1>2, <1>5, <2>4, <3>1 DEF Up!Deliver
  <2> QED
    BY <2>5, <2>6
<1> QED
  BY <1>4, <1>5

LEMMA UpStep ==
    ASSUME IInv, [Next]_vars
    PROVE  [Up!Next]_<<said, heard, cut>>
<1>1. CASE checkAndReconnect \/ Unanswered \/ connectionTimeout \/ connected \/ closeConnection
  BY <1>1 DEF checkAndReconnect, Unanswered, connectionTimeout, connected, closeConnection, up
<1>2. CASE readyRead \/ slotNewConnection
  BY <1>2 DEF readyRead, slotNewConnection, up
<1>3. ASSUME NEW size \in Bodies, sendToServer(size) PROVE [Up!Next]_<<said, heard, cut>>
  <2>1. link \in Links
    BY <1>3, TypeFacts DEF sendToServer
  <2>2. Up!Send(link)
    BY <1>3 DEF sendToServer, Up!Send
  <2> QED
    BY <2>1, <2>2 DEF Up!Next
<1>4. ASSUME NEW size \in Bodies, sendToClient(size) PROVE [Up!Next]_<<said, heard, cut>>
  BY <1>4 DEF sendToClient, up
<1>5. ASSUME NEW c \in Links, slotReadClient(c) PROVE [Up!Next]_<<said, heard, cut>>
  BY <1>5, SlotReadDelivers DEF Up!Next
<1>6. ASSUME NEW c \in Links, slotGotDisconnection(c) PROVE [Up!Next]_<<said, heard, cut>>
  BY <1>6 DEF slotGotDisconnection
<1>7. CASE UNCHANGED vars
  BY <1>7 DEF vars, up
<1> QED
  BY <1>1, <1>2, <1>3, <1>4, <1>5, <1>6, <1>7 DEF Next

\* The server does so while no piece ends within the body of a message,
\* whatever number it takes for a length otherwise (NetworkHelper.cpp:68 of
\* the server).
THEOREM ServerReadsWhole == Spec => ServerReadsMessages
<1>1. Init => Up!Init
  BY DEF Init, Up!Init
<1>2. IInv /\ [Next]_vars => [Up!Next]_<<said, heard, cut>>
  BY UpStep
<1> QED
  BY <1>1, <1>2, FramingInvariant, PTL DEF Spec, ServerReadsMessages, Up!Spec
=============================================================================
