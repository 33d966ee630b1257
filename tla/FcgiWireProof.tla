---------------------------- MODULE FcgiWireProof ----------------------------
(***************************************************************************)
(* Proofs about FcgiWire, for whatever the web server sends: its records   *)
(* and their bytes, how they are cut into pieces, the bytes behind the     *)
(* input, and the sizes the application renders.  WireIInv is inductive.   *)
(***************************************************************************)
EXTENDS FcgiWire, NaturalFacts, SequenceTheorems

-----------------------------------------------------------------------------
(* Bytes                                                                   *)

\* A function on the first numbers is a sequence.
LEMMA FunctionIsSeq ==
  ASSUME NEW S, NEW n \in Nat, NEW f \in [1..n -> S]
  PROVE  f \in Seq(S) /\ Len(f) = n
  <1>1. f \in Seq(S)
    BY SeqDef
  <1>. QED BY <1>1, LenProperties

\* Three sequences, one after the other.
LEMMA ThreeSeqs ==
  ASSUME NEW S, NEW a \in Seq(S), NEW b \in Seq(S), NEW c \in Seq(S)
  PROVE  /\ (a \o b) \o c \in Seq(S)
         /\ Len((a \o b) \o c) = Len(a) + Len(b) + Len(c)
         /\ \A i \in 1..Len(a) : ((a \o b) \o c)[i] = a[i]
         /\ \A k \in 1..Len(b) : ((a \o b) \o c)[Len(a) + k] = b[k]
  <1>1. Len(a) \in Nat /\ Len(b) \in Nat /\ Len(c) \in Nat
    BY LenProperties
  <1>2. /\ a \o b \in Seq(S) /\ Len(a \o b) = Len(a) + Len(b)
        /\ \A i \in 1..(Len(a) + Len(b)) :
              (a \o b)[i] = IF i <= Len(a) THEN a[i] ELSE b[i - Len(a)]
    BY ConcatProperties
  <1>3. /\ (a \o b) \o c \in Seq(S) /\ Len((a \o b) \o c) = Len(a \o b) + Len(c)
        /\ \A i \in 1..(Len(a \o b) + Len(c)) :
              ((a \o b) \o c)[i] = IF i <= Len(a \o b) THEN (a \o b)[i] ELSE c[i - Len(a \o b)]
    BY <1>2, ConcatProperties
  <1>4. \A i \in 1..(Len(a) + Len(b)) : ((a \o b) \o c)[i] = (a \o b)[i]
    BY <1>1, <1>2, <1>3
  <1>5. \A i \in 1..Len(a) : ((a \o b) \o c)[i] = a[i]
    BY <1>1, <1>2, <1>4
  <1>6. ASSUME NEW k \in 1..Len(b)
        PROVE  ((a \o b) \o c)[Len(a) + k] = b[k]
    <2>1. /\ Len(a) + k \in 1..(Len(a) + Len(b)) /\ ~(Len(a) + k <= Len(a))
          /\ (Len(a) + k) - Len(a) = k
      BY <1>1
    <2>. QED BY <1>2, <1>4, <2>1
  <1>. QED BY <1>1, <1>2, <1>3, <1>5, <1>6

\* Bytes are numbers.
LEMMA BytesAreNumbers == Byte \subseteq Nat /\ 0 \in Byte
  BY DEF Byte

\* Numbers of two bytes.
LEMMA TwoBytes ==
  ASSUME NEW n \in Nat, n < 2^16
  PROVE  /\ n \div 256 \in Byte /\ n % 256 \in Byte
         /\ 256 * (n \div 256) + (n % 256) = n
  <1>1. n \div 256 \in Nat /\ n % 256 \in 0..255 /\ n = 256 * (n \div 256) + (n % 256)
    OBVIOUS
  <1>2. 2^16 = 65536
    OBVIOUS
  <1>. QED BY <1>1, <1>2 DEF Byte

\* A record on the wire: a header of eight bytes, the body, and the padding.
LEMMA RecordBytes ==
  ASSUME NEW r \in Wire
  PROVE  /\ Bytes(r) \in Seq(Byte)
         /\ Len(r.body) \in Nat /\ r.psz \in Byte /\ r.type \in Byte /\ r.rid \in Byte
         /\ Len(Bytes(r)) = HeaderLen + Len(r.body) + r.psz
         /\ Bytes(r)[1] = 1 /\ Bytes(r)[2] = r.type
         /\ 256 * Bytes(r)[3] + Bytes(r)[4] = r.rid
         /\ 256 * Bytes(r)[5] + Bytes(r)[6] = Len(r.body)
         /\ Bytes(r)[7] = r.psz
         /\ \A k \in 1..Len(r.body) : Bytes(r)[HeaderLen + k] = r.body[k]
  <1>. DEFINE n == Len(r.body)
              h == <<1, r.type, 0, r.rid, n \div 256, n % 256, r.psz, 0>>
              z == [i \in 1..r.psz |-> 0]
  <1>1. /\ r.type \in Byte /\ r.rid \in Byte /\ r.psz \in Byte /\ r.body \in Seq(Byte)
        /\ n \in Nat /\ n < 2^16
    BY WireAssumption, LenProperties
  <1>2. n \div 256 \in Byte /\ n % 256 \in Byte /\ 256 * (n \div 256) + (n % 256) = n
    BY <1>1, TwoBytes
  <1>3. /\ h \in Seq(Byte) /\ Len(h) = 8
        /\ h[1] = 1 /\ h[2] = r.type /\ h[3] = 0 /\ h[4] = r.rid
        /\ h[5] = n \div 256 /\ h[6] = n % 256 /\ h[7] = r.psz
    <2>1. 0 \in Byte /\ 1 \in Byte
      BY DEF Byte
    <2>. HIDE DEF Byte, n
    <2>. QED BY <1>1, <1>2, <2>1
  <1>4. z \in Seq(Byte) /\ Len(z) = r.psz
    <2>1. r.psz \in Nat /\ 0 \in Byte
      BY <1>1, BytesAreNumbers
    <2>2. z \in [1..r.psz -> Byte]
      BY <2>1
    <2>. HIDE DEF z
    <2>. QED BY <2>1, <2>2, FunctionIsSeq
  <1>. HIDE DEF h, z, n
  <1>5. Bytes(r) = (h \o r.body) \o z
    BY DEF Bytes, h, z, n
  <1>6. /\ Bytes(r) \in Seq(Byte) /\ Len(Bytes(r)) = Len(h) + Len(r.body) + Len(z)
        /\ \A i \in 1..Len(h) : Bytes(r)[i] = h[i]
        /\ \A k \in 1..Len(r.body) : Bytes(r)[Len(h) + k] = r.body[k]
    <2>. DEFINE b == r.body
    <2>1. h \in Seq(Byte) /\ b \in Seq(Byte) /\ z \in Seq(Byte) /\ Bytes(r) = (h \o b) \o z
      BY <1>1, <1>3, <1>4, <1>5
    <2>. HIDE DEF b
    <2>2. /\ Bytes(r) \in Seq(Byte) /\ Len(Bytes(r)) = Len(h) + Len(b) + Len(z)
          /\ \A i \in 1..Len(h) : Bytes(r)[i] = h[i]
          /\ \A k \in 1..Len(b) : Bytes(r)[Len(h) + k] = b[k]
      BY <2>1, ThreeSeqs
    <2>. QED BY <2>2 DEF b
  <1>7. \A i \in 1..8 : Bytes(r)[i] = h[i]
    BY <1>3, <1>6
  <1>8. \A x \in Byte : 256 * 0 + x = x
    BY DEF Byte
  <1>9. /\ 256 * Bytes(r)[3] + Bytes(r)[4] = r.rid
        /\ 256 * Bytes(r)[5] + Bytes(r)[6] = n
        /\ Bytes(r)[1] = 1 /\ Bytes(r)[2] = r.type /\ Bytes(r)[7] = r.psz
    BY <1>1, <1>2, <1>3, <1>7, <1>8
  <1>. QED BY <1>1, <1>3, <1>4, <1>6, <1>9 DEF n, HeaderLen

-----------------------------------------------------------------------------
(* Where records end                                                       *)

\* The ends of the records, one after the other.
LEMMA Ends ==
  ASSUME NEW q \in Seq(Wire)
  PROVE  /\ Len(q) \in Nat /\ DOMAIN q = 1..Len(q)
         /\ End(q, 0) = 0
         /\ \A i \in 0..Len(q) : End(q, i) \in Nat
         /\ \A i \in 1..Len(q) : /\ q[i] \in Wire /\ Len(Bytes(q[i])) \in Nat
                                 /\ End(q, i) = End(q, i - 1) + Len(Bytes(q[i]))
         /\ \A i \in 0..Len(q) : \A j \in i..Len(q) : End(q, i) <= End(q, j)
  <1>. DEFINE f == [j \in 1..Len(q) |-> Len(Bytes(q[j]))]
  <1>1. Len(q) \in Nat /\ DOMAIN q = 1..Len(q) /\ \A i \in 1..Len(q) : q[i] \in Wire
    BY LenProperties, ElementOfSeq
  <1>2. \A i \in 1..Len(q) : Len(Bytes(q[i])) \in Nat
    BY <1>1, RecordBytes, LenProperties
  <1>3. f \in [1..Len(q) -> Nat]
    BY <1>2
  <1>4. \A i : End(q, i) = SumFunctionOnSet(f, 1..i)
    BY <1>1 DEF End
  <1>5. \A i \in 1..Len(q) : f[i] = Len(Bytes(q[i]))
    OBVIOUS
  <1>6. PICK n \in Nat : n = Len(q)
    BY <1>1
  <1>. HIDE DEF f
  <1>7. /\ SumFunctionOnSet(f, 1..0) = 0
        /\ \A i \in 0..n : SumFunctionOnSet(f, 1..i) \in Nat
        /\ \A i \in 1..n : SumFunctionOnSet(f, 1..i) = SumFunctionOnSet(f, 1..(i - 1)) + f[i]
        /\ \A i \in 0..n : \A j \in i..n :
               SumFunctionOnSet(f, 1..i) <= SumFunctionOnSet(f, 1..j)
    <2>1. f \in [1..n -> Nat]
      BY <1>3, <1>6
    <2>. QED BY <2>1, PrefixSum
  <1>. QED BY <1>1, <1>2, <1>4, <1>5, <1>6, <1>7

\* They are where they were when a record is added.
LEMMA EndsStay ==
  ASSUME NEW q \in Seq(Wire), NEW r \in Wire
  PROVE  \A i \in 0..Len(q) : End(Append(q, r), i) = End(q, i)
  <1>. DEFINE p == Append(q, r)
              f == [j \in 1..Len(q) |-> Len(Bytes(q[j]))]
              g == [j \in 1..Len(p) |-> Len(Bytes(p[j]))]
  <1>1. p \in Seq(Wire) /\ Len(p) = Len(q) + 1 /\ \A i \in 1..Len(q) : p[i] = q[i]
    BY AppendProperties
  <1>. HIDE DEF p
  <1>2. /\ Len(q) \in Nat /\ DOMAIN q = 1..Len(q) /\ \A i \in 1..Len(q) : Len(Bytes(q[i])) \in Nat
        /\ Len(p) \in Nat /\ DOMAIN p = 1..Len(p) /\ \A i \in 1..Len(p) : Len(Bytes(p[i])) \in Nat
    BY <1>1, Ends
  <1>3. /\ f \in [1..Len(q) -> Nat] /\ g \in [1..Len(p) -> Nat]
        /\ \A j \in 1..Len(q) : f[j] = g[j]
    BY <1>1, <1>2
  <1>4. \A i : End(q, i) = SumFunctionOnSet(f, 1..i) /\ End(p, i) = SumFunctionOnSet(g, 1..i)
    BY <1>2 DEF End
  <1>. HIDE DEF f, g
  <1>. SUFFICES ASSUME NEW i \in 0..Len(q)
                PROVE  End(p, i) = End(q, i)
    BY DEF p
  <1>5. i \in Nat /\ i <= Len(q) /\ i <= Len(p) /\ \A j \in 1..i : f[j] = g[j]
    BY <1>1, <1>2, <1>3
  <1>6. SumFunctionOnSet(f, 1..i) = SumFunctionOnSet(g, 1..i)
    <2>1. PICK n \in Nat, m \in Nat : n = Len(q) /\ m = Len(p)
      BY <1>2
    <2>2. /\ n \in Nat /\ m \in Nat /\ i \in Nat /\ i <= n /\ i <= m
          /\ f \in [1..n -> Nat] /\ g \in [1..m -> Nat] /\ \A j \in 1..i : f[j] = g[j]
      BY <1>3, <1>5, <2>1
    <2>3. Agree(f, n, g, m, i)
      BY <2>2 DEF Agree
    <2>. QED BY <2>2, <2>3, PrefixAgrees
  <1>. QED BY <1>4, <1>6

\* A record sent comes after those that have been.
LEMMA SendExtends ==
  ASSUME sent \in Seq(Wire), stream \in Seq(Byte), StreamOfSent, NEW r \in Wire,
         sent' = Append(sent, r), stream' = stream \o Bytes(r)
  PROVE  /\ sent' \in Seq(Wire) /\ stream' \in Seq(Byte)
         /\ Len(sent') = Len(sent) + 1 /\ Len(stream') >= Len(stream)
         /\ \A i \in 1..Len(sent) : sent'[i] = sent[i]
         /\ sent'[Len(sent) + 1] = r
         /\ \A i \in 0..Len(sent) : End(sent', i) = End(sent, i)
         /\ StreamOfSent'
  <1>. DEFINE n == Len(sent)
  <1>1. /\ n \in Nat /\ DOMAIN sent = 1..n
        /\ sent' \in Seq(Wire) /\ Len(sent') = n + 1 /\ DOMAIN sent' = 1..(n + 1)
        /\ \A i \in 1..n : sent'[i] = sent[i]
        /\ sent'[n + 1] = r
    BY LenProperties, AppendProperties
  <1>2. /\ Bytes(r) \in Seq(Byte) /\ Len(Bytes(r)) \in Nat /\ Len(stream) \in Nat
        /\ stream' \in Seq(Byte) /\ Len(stream') = Len(stream) + Len(Bytes(r))
        /\ \A i \in 1..Len(stream) : stream'[i] = stream[i]
        /\ \A i \in 1..Len(Bytes(r)) : stream'[Len(stream) + i] = Bytes(r)[i]
    BY RecordBytes, ConcatProperties, LenProperties
  <1>3. \A i \in 1..(n + 1) : sent'[i] \in Wire /\ Len(Bytes(sent'[i])) \in Nat
    BY <1>1, ElementOfSeq, RecordBytes, LenProperties
  <1>4. \A i \in 0..n : End(sent', i) = End(sent, i)
    BY EndsStay
  <1>5. End(sent', n + 1) = End(sent, n) + Len(Bytes(r)) /\ End(sent, n) = Len(stream)
    <2>1. End(sent', n + 1) = End(sent', (n + 1) - 1) + Len(Bytes(sent'[n + 1]))
      <3>1. \A i \in 1..Len(sent') : End(sent', i) = End(sent', i - 1) + Len(Bytes(sent'[i]))
        BY <1>1, Ends
      <3>2. n + 1 \in 1..Len(sent')
        BY <1>1
      <3>. HIDE DEF n
      <3>. QED BY <3>1, <3>2
    <2>2. (n + 1) - 1 = n /\ n \in 0..n
      BY <1>1
    <2>. QED BY <1>1, <1>4, <2>1, <2>2 DEF StreamOfSent
  <1>6. ASSUME NEW i \in 1..(n + 1), NEW k \in 1..Len(Bytes(sent'[i]))
        PROVE  stream'[End(sent', i - 1) + k] = Bytes(sent'[i])[k]
    <2>0. i \in 1..n \/ i = n + 1
      <3>. HIDE DEF n
      <3>. QED BY <1>1
    <2>1. CASE i \in 1..n
      <3>1. /\ End(sent', i - 1) = End(sent, i - 1) /\ End(sent, i - 1) \in Nat /\ sent'[i] = sent[i]
            /\ End(sent, i) = End(sent, i - 1) + Len(Bytes(sent[i])) /\ End(sent, i) <= End(sent, n)
            /\ Len(Bytes(sent[i])) \in Nat
        <4>1. i \in 1..Len(sent) /\ i - 1 \in 0..Len(sent) /\ Len(sent) \in i..Len(sent)
              /\ i \in 0..Len(sent)
          BY <1>1, <2>1
        <4>2. /\ End(sent, i - 1) \in Nat /\ End(sent, i) <= End(sent, Len(sent))
              /\ End(sent, i) = End(sent, i - 1) + Len(Bytes(sent[i]))
              /\ Len(Bytes(sent[i])) \in Nat
          BY <4>1, Ends
        <4>. QED BY <1>1, <1>4, <4>1, <4>2
      <3>2. End(sent, i - 1) + k \in 1..Len(stream)
        BY <1>5, <3>1
      <3>3. stream[End(sent, i - 1) + k] = Bytes(sent[i])[k]
        BY <1>1, <2>1, <3>1 DEF StreamOfSent
      <3>. QED BY <1>2, <3>1, <3>2, <3>3
    <2>2. CASE i = n + 1
      <3>1. End(sent', i - 1) = Len(stream)
        BY <1>1, <1>4, <1>5, <2>2
      <3>. QED BY <1>1, <1>2, <2>2, <3>1
    <2>. QED BY <2>0, <2>1, <2>2
  <1>7. StreamOfSent'
    BY <1>1, <1>2, <1>5, <1>6 DEF StreamOfSent
  <1>. QED BY <1>1, <1>2, <1>4, <1>7

-----------------------------------------------------------------------------
(* The pairs of a payload                                                  *)

PairsRead == [pairs : Seq(Byte \X Byte), nread : Nat]

\* The input from the position on, with past where nothing has arrived.
At(n, past) == IF pos + n < arrived THEN Char(n) ELSE past

Following(from, size, past, n) ==
    IF n >= size
    THEN [pairs |-> <<>>, nread |-> n]
    ELSE LET rest == from[n + PairSize(At(n, past), At(n + 1, past))]
         IN  [pairs |-> <<<<At(n, past), At(n + 1, past)>>>> \o rest.pairs,
              nread |-> rest.nread]

\* The function that ReadPairs applies to the first byte.
From(size, past) == CHOOSE from : from = [n \in Nat |-> Following(from, size, past, n)]

\* All bytes that mnfcgi_parse_kvp may look at are bytes.
AllBytes(past) == \A n \in Nat : At(n, past) \in Byte

\* Past the input there is one, before its end there are those that were sent.
LEMMA InputIsBytes ==
  ASSUME stream \in Seq(Byte), arrived \in 0..Len(stream), pos \in Nat, NEW past \in Byte
  PROVE  AllBytes(past)
  <1>. SUFFICES ASSUME NEW n \in Nat, pos + n < arrived
                PROVE  stream[pos + n + 1] \in Byte
    BY DEF AllBytes, At, Char
  <1>1. Len(stream) \in Nat /\ \A i \in 1..Len(stream) : stream[i] \in Byte
    BY LenProperties, ElementOfSeq
  <1>2. pos + n + 1 \in 1..Len(stream)
    BY <1>1
  <1>. QED BY <1>1, <1>2

\* The recursion of ReadPairs ends: each pair moves two bytes at least.
LEMMA PairsFollow ==
  ASSUME NEW size \in Nat, NEW past, AllBytes(past)
  PROVE  /\ ReadPairs(size, past) = From(size, past)[0]
         /\ \A n \in Nat : From(size, past)[n] = Following(From(size, past), size, past, n)
         /\ \A n \in Nat : From(size, past)[n] \in PairsRead /\ From(size, past)[n].nread >= size
  <1>. DEFINE size_ == [n \in Nat |-> IF n >= size THEN 0 ELSE size - n]
              stop == {n \in Nat : n >= size}
              base == [n \in Nat |-> [pairs |-> <<>>, nread |-> IF n >= size THEN n ELSE size]]
              next == [n \in Nat |-> n + PairSize(At(n, past), At(n + 1, past))]
              step == [n \in Nat |->
                          [r \in {s \in PairsRead : s.nread >= size} |->
                              [pairs |-> <<<<At(n, past), At(n + 1, past)>>>> \o r.pairs,
                               nread |-> r.nread]]]
              R == {s \in PairsRead : s.nread >= size}
  <1>1. ReadPairs(size, past) = From(size, past)[0]
    BY DEF ReadPairs, From, Following, At
  <1>2. \A n \in Nat : At(n, past) \in Byte /\ At(n + 1, past) \in Byte
    BY DEF AllBytes
  <1>3. \A n \in Nat : next[n] \in Nat /\ next[n] > n
    <2>1. \A n \in Nat : At(n, past) \in Nat /\ At(n + 1, past) \in Nat
      BY <1>2, BytesAreNumbers
    <2>. QED BY <2>1 DEF PairSize
  <1>4. base \in [Nat -> R]
    <2>1. \A n \in Nat : [pairs |-> <<>>, nread |-> IF n >= size THEN n ELSE size] \in R
      <3>1. <<>> \in Seq(Byte \X Byte)
        BY EmptySeq
      <3>. QED BY <3>1 DEF PairsRead
    <2>. QED BY <2>1
  <1>5. ASSUME NEW n \in Nat, NEW r \in R
        PROVE  [pairs |-> <<<<At(n, past), At(n + 1, past)>>>> \o r.pairs, nread |-> r.nread] \in R
    <2>. DEFINE p == <<At(n, past), At(n + 1, past)>>
    <2>1. p \in Byte \X Byte
      BY <1>2
    <2>. HIDE DEF p
    <2>2. <<p>> \in Seq(Byte \X Byte) /\ r.pairs \in Seq(Byte \X Byte)
      BY <2>1 DEF PairsRead
    <2>3. <<p>> \o r.pairs \in Seq(Byte \X Byte)
      BY <2>2, ConcatProperties
    <2>. QED BY <2>3 DEF p, PairsRead
  <1>6. step \in [Nat -> [R -> R]]
    BY <1>5
  <1>7. Recursion(Nat, R, size_, stop, base, next, step)
    <2>1. size_ \in [Nat -> Nat]
      OBVIOUS
    <2>2. next \in [Nat -> Nat]
      BY <1>3
    <2>3. \A n \in Nat \ stop : size_[next[n]] < size_[n]
      <3>. HIDE DEF next
      <3>. QED BY <1>3
    <2>. HIDE DEF size_, base, next, step, R
    <2>. QED BY <1>4, <1>6, <2>1, <2>2, <2>3 DEF Recursion
  <1>8. PICK g \in [Nat -> R] : Solves(g, Nat, stop, base, next, step)
    <2>. HIDE DEF size_, stop, base, next, step, R
    <2>. QED BY <1>7, RecursiveFunction
  <1>9. g = [n \in Nat |-> Following(g, size, past, n)]
    <2>1. ASSUME NEW n \in Nat
          PROVE  g[n] = Following(g, size, past, n)
      <3>1. g[n] = IF n \in stop THEN base[n] ELSE step[n][g[next[n]]]
        <4>. HIDE DEF stop, base, next, step
        <4>. QED BY <1>8 DEF Solves
      <3>2. CASE n >= size
        BY <3>1, <3>2 DEF Following
      <3>3. CASE ~(n >= size)
        <4>1. next[n] \in Nat /\ g[next[n]] \in R
          <5>. HIDE DEF next, R
          <5>. QED BY <1>3
        <4>. DEFINE h == g[next[n]]
        <4>2. g[n] = [pairs |-> <<<<At(n, past), At(n + 1, past)>>>> \o h.pairs, nread |-> h.nread]
          <5>1. g[n] = step[n][h]
            <6>. HIDE DEF step, next, base
            <6>. QED BY <3>1, <3>3
          <5>. HIDE DEF h
          <5>. QED BY <4>1, <5>1 DEF h
        <4>. QED BY <3>3, <4>2 DEF Following
      <3>. QED BY <3>2, <3>3
    <2>. QED BY <2>1
  <1>10. From(size, past) = [n \in Nat |-> Following(From(size, past), size, past, n)]
    BY <1>9 DEF From
  <1>11. \A n \in Nat : From(size, past)[n] = Following(From(size, past), size, past, n)
    <2>. DEFINE f == From(size, past)
    <2>. HIDE DEF f
    <2>1. f = [n \in Nat |-> Following(f, size, past, n)]
      BY <1>10 DEF f
    <2>2. \A n \in Nat : f[n] = Following(f, size, past, n)
      BY <2>1
    <2>. QED BY <2>2 DEF f
  <1>12. \A n \in Nat : From(size, past)[n] \in R
    <2>. DEFINE P == {n \in Nat : From(size, past)[n] \in R}
                f == From(size, past)
    <2>1. ASSUME NEW n \in Nat, \A m \in Nat : size_[m] < size_[n] => m \in P
          PROVE  n \in P
      <3>. HIDE DEF f, R
      <3>1. f[n] = Following(f, size, past, n)
        BY <1>11 DEF f
      <3>2. CASE n >= size
        <4>1. f[n] = [pairs |-> <<>>, nread |-> n]
          BY <3>1, <3>2 DEF Following
        <4>. QED BY <1>4, <3>2, <4>1 DEF f
      <3>3. CASE ~(n >= size)
        <4>1. next[n] \in P
          <5>1. next[n] \in Nat /\ size_[next[n]] < size_[n]
            <6>. HIDE DEF next
            <6>. QED BY <1>3, <3>3
          <5>. HIDE DEF size_, next, P
          <5>. QED BY <2>1, <5>1
        <4>2. f[next[n]] \in R
          BY <4>1 DEF f
        <4>3. f[n] = [pairs |-> <<<<At(n, past), At(n + 1, past)>>>> \o f[next[n]].pairs,
                      nread |-> f[next[n]].nread]
          BY <3>1, <3>3 DEF Following
        <4>. QED BY <1>5, <4>2, <4>3 DEF f
      <3>. QED BY <3>2, <3>3
    <2>2. P = Nat
      <3>. DEFINE D == Nat
      <3>1. size_ \in [D -> Nat] /\ P \in SUBSET D
        OBVIOUS
      <3>2. \A n \in D : (\A m \in D : size_[m] < size_[n] => m \in P) => n \in P
        BY <2>1
      <3>. HIDE DEF size_, P, D
      <3>3. P = D
        BY <3>1, <3>2, SizeInduction
      <3>. QED BY <3>3 DEF D
    <2>. QED BY <2>2
  <1>. QED BY <1>1, <1>11, <1>12

-----------------------------------------------------------------------------
(* What is rendered                                                        *)

WellFramed(r) ==
    r.res = "ok" /\ r.bytes = r.n => Declared(r) = Actual(r) /\ Actual(r) % 8 = 0

\* A payload that is not too large fits the length field, and the padding takes it
\* to a multiple of 8.
LEMMA RenderedFits ==
  ASSUME NEW type \in 1..UNKNOWN_TYPE, NEW bytes \in Nat, NEW n \in Nat
  PROVE  Rendered(type, bytes, n) \in OutRecord /\ WellFramed(Rendered(type, bytes, n))
  <1>1. CASE TooLarge(n)
    <2>. DEFINE r == [type |-> type, res |-> "error", bytes |-> bytes, n |-> n,
                      rsz |-> 0, psz |-> 0]
    <2>1. Rendered(type, bytes, n) = r
      BY <1>1 DEF Rendered
    <2>2. 0 \in ShortInt
      BY DEF ShortInt
    <2>3. r \in OutRecord /\ r.res # "ok"
      BY <2>2 DEF OutRecord
    <2>. QED BY <2>1, <2>3 DEF WellFramed
  <1>2. CASE ~TooLarge(n)
    <2>. DEFINE r == [type |-> type, res |-> "ok", bytes |-> bytes, n |-> n,
                      rsz |-> n % 65536, psz |-> Padding(n % 65536)]
    <2>1. Rendered(type, bytes, n) = r
      BY <1>2 DEF Rendered
    <2>2. n % 65536 = n /\ n \in ShortInt
      <3>1. n <= 32768
        BY <1>2 DEF TooLarge, MaxPayload
      <3>. QED BY <3>1 DEF ShortInt
    <2>3. Padding(n) \in 0..7 /\ (8 + n + Padding(n)) % 8 = 0
      <3>1. n % 8 \in 0..7
        OBVIOUS
      <3>2. CASE n % 8 = 0
        BY <3>2 DEF Padding
      <3>3. CASE n % 8 # 0
        BY <3>1, <3>3 DEF Padding
      <3>. QED BY <3>2, <3>3
    <2>4. r \in OutRecord
      <3>1. r = [type |-> type, res |-> "ok", bytes |-> bytes, n |-> n,
                 rsz |-> n, psz |-> Padding(n)]
        BY <2>2
      <3>. HIDE DEF r
      <3>. QED BY <2>2, <2>3, <3>1 DEF OutRecord
    <2>5. /\ r.bytes = bytes /\ r.n = n /\ r.rsz = n /\ r.psz = Padding(n)
      BY <2>2
    <2>. HIDE DEF r
    <2>6. WellFramed(r)
      BY <2>3, <2>5 DEF WellFramed, Declared, Actual, HeaderLen
    <2>. QED BY <2>1, <2>4, <2>6
  <1>. QED BY <1>1, <1>2

\* A record in ctx->out takes some bytes.
LEMMA OutRecordSize ==
  ASSUME NEW r \in OutRecord
  PROVE  Actual(r) \in Nat
  <1>1. r.bytes \in Nat
    BY DEF OutRecord
  <1>2. r.psz \in 0..7
    BY DEF OutRecord
  <1>. QED BY <1>1, <1>2 DEF Actual, HeaderLen

\* The size of the pairs of a result, and what is returned for it, are numbers.
LEMMA PairsCounted ==
  ASSUME pairs \in Seq(Byte \X Byte), out \in Seq(OutRecord),
         NEW known \in SUBSET DOMAIN pairs
  PROVE  /\ PairsBytes(Values(known), Len(pairs)) \in Nat
         /\ PairsReturned(Values(known)) \in Nat
  <1>. DEFINE D == known \cup {j \in DOMAIN pairs : KeyLength(j) > 0 /\ pairs[j][2] > 0}
              v == Values(known)
              f == [j \in D |-> LengthBytes(KeyLength(j)) + LengthBytes(v[j]) + KeyLength(j) + v[j]]
  <1>1. /\ DOMAIN pairs = 1..Len(pairs) /\ Len(pairs) \in Nat
        /\ \A j \in DOMAIN pairs : pairs[j] \in Byte \X Byte
    BY LenProperties, ElementOfSeq
  <1>2. D \in SUBSET DOMAIN pairs /\ IsFiniteSet(D)
    <2>1. IsFiniteSet(DOMAIN pairs)
      BY <1>1, FS_Interval
    <2>. QED BY <2>1, FS_Subset
  <1>3. \A j \in DOMAIN pairs : KeyLength(j) \in Nat /\ pairs[j][2] \in Nat
    BY <1>1, BytesAreNumbers DEF KeyLength
  <1>4. DOMAIN v = D /\ \A j \in D : v[j] \in Nat
    BY <1>2, <1>3, PayloadsAssumption, BytesAreNumbers DEF Values
  <1>5. f \in [D -> Nat]
    <2>. HIDE DEF D, v
    <2>. QED BY <1>2, <1>3, <1>4 DEF LengthBytes
  <1>. HIDE DEF D, v
  <1>6. \A i : PairsBytes(v, i) = SumFunctionOnSet(f, {j \in D : j <= i})
    BY <1>4 DEF PairsBytes
  <1>7. \A i : PairsBytes(v, i) \in Nat
    <2>. TAKE i
    <2>. DEFINE S == {j \in D : j <= i}
    <2>1. S \in SUBSET D /\ IsFiniteSet(S)
      BY <1>2, FS_Subset
    <2>. HIDE DEF f, S
    <2>2. Summable(f, D, S)
      BY <1>5, <2>1 DEF Summable
    <2>3. SumFunctionOnSet(f, S) \in Nat
      BY <2>2, SumIsNumber
    <2>. QED BY <1>6, <2>3 DEF S
  <1>8. Pending \in Nat
    <2>. DEFINE o == [i \in DOMAIN out |-> Actual(out[i])]
    <2>1. DOMAIN out = 1..Len(out) /\ Len(out) \in Nat /\ \A i \in DOMAIN out : out[i] \in OutRecord
      BY LenProperties, ElementOfSeq
    <2>2. \A r \in OutRecord : Actual(r) \in Nat
      BY OutRecordSize
    <2>3. o \in [DOMAIN out -> Nat] /\ IsFiniteSet(DOMAIN out) /\ DOMAIN o = DOMAIN out
      BY <2>1, <2>2, FS_Interval
    <2>4. Pending = SumFunctionOnSet(o, DOMAIN out)
      BY <2>3 DEF Pending, SumFunction, SumFunctionOnSet, FoldFunction
    <2>5. DOMAIN out \in SUBSET DOMAIN out
      OBVIOUS
    <2>. HIDE DEF o
    <2>6. Summable(o, DOMAIN out, DOMAIN out)
      BY <2>3, <2>5 DEF Summable
    <2>. QED BY <2>4, <2>6, SumIsNumber
  <1>9. PairsReturned(v) \in Nat
    <2>. DEFINE g == [i \in D |-> Pending + HeaderLen + PairsBytes(v, i)]
    <2>1. g \in [D -> Nat] /\ DOMAIN g = D
      BY <1>7, <1>8 DEF HeaderLen
    <2>2. PairsReturned(v) = SumFunctionOnSet(g, D)
      BY <1>4, <2>1 DEF PairsReturned, SumFunction, SumFunctionOnSet, FoldFunction
    <2>3. D \in SUBSET D
      OBVIOUS
    <2>. HIDE DEF g
    <2>4. Summable(g, D, D)
      BY <1>2, <2>1, <2>3 DEF Summable
    <2>. QED BY <2>2, <2>4, SumIsNumber
  <1>. QED BY <1>7, <1>9 DEF v

-----------------------------------------------------------------------------
(* Types and frames                                                        *)

TypesInv == TypeOK /\ KnownType /\ Framed

\* What has arrived is made of bytes.
LEMMA CharIsByte ==
  ASSUME TypeOK, NEW n \in Nat, pos + n < arrived
  PROVE  Char(n) \in Byte
  <1>1. Len(stream) \in Nat /\ \A i \in 1..Len(stream) : stream[i] \in Byte
    BY LenProperties, ElementOfSeq DEF TypeOK
  <1>2. pos + n + 1 \in 1..Len(stream)
    BY <1>1 DEF TypeOK
  <1>. QED BY <1>1, <1>2 DEF Char

\* What mnfcgi_parse_payload returns is a number, and the pairs are pairs of bytes.
LEMMA NreadIsNumber ==
  ASSUME TypeOK, NEW past \in Stray
  PROVE  /\ Nread(past) \in Int
         /\ ReadPairs(hdr.rsz, past) \in PairsRead
         /\ ReadPairs(hdr.rsz, past).nread >= hdr.rsz
  <1>1. hdr.rsz \in Nat
    BY DEF TypeOK, Header
  <1>2. AllBytes(past)
    BY InputIsBytes, StrayAssumption DEF TypeOK
  <1>3. /\ ReadPairs(hdr.rsz, past) \in PairsRead
        /\ ReadPairs(hdr.rsz, past).nread >= hdr.rsz
    <2>. DEFINE size == hdr.rsz
    <2>1. size \in Nat
      BY <1>1
    <2>. HIDE DEF size
    <2>2. /\ ReadPairs(size, past) = From(size, past)[0]
          /\ \A n \in Nat : From(size, past)[n] \in PairsRead /\ From(size, past)[n].nread >= size
      BY <1>2, <2>1, PairsFollow
    <2>3. ReadPairs(size, past) \in PairsRead /\ ReadPairs(size, past).nread >= size
      BY <2>2
    <2>. QED BY <2>3 DEF size
  <1>4. ReadPairs(hdr.rsz, past).nread \in Nat
    BY <1>3 DEF PairsRead
  <1>. QED BY <1>1, <1>3, <1>4 DEF Nread

\* A record added to ctx->out.
LEMMA OutAppend ==
  ASSUME out \in Seq(OutRecord), Framed, NEW r \in OutRecord, WellFramed(r),
         out' = Append(out, r)
  PROVE  out' \in Seq(OutRecord) /\ Framed'
  <1>1. /\ out' \in Seq(OutRecord) /\ Len(out') = Len(out) + 1 /\ Len(out) \in Nat
        /\ \A i \in 1..Len(out) : out'[i] = out[i]
        /\ out'[Len(out) + 1] = r
        /\ DOMAIN out = 1..Len(out) /\ DOMAIN out' = 1..Len(out')
    BY AppendProperties, LenProperties
  <1>2. \A i \in DOMAIN out : WellFramed(out[i])
    BY DEF Framed, WellFramed
  <1>3. \A i \in DOMAIN out' : i \in DOMAIN out \/ i = Len(out) + 1
    BY <1>1
  <1>4. \A i \in DOMAIN out' : WellFramed(out'[i])
    BY <1>1, <1>2, <1>3
  <1>. QED BY <1>1, <1>4 DEF Framed, WellFramed, Declared, Actual

\* The steps that change neither the types nor what is rendered.
LEMMA TypesStep ==
  ASSUME TypesInv, [Next]_vars
  PROVE  TypesInv'
  <1>. USE DEF TypesInv
  <1>0. CASE UNCHANGED vars
    BY <1>0 DEF vars, input, TypeOK, KnownType, Framed, Declared, Actual
  <1>1. CASE Send
    <2>1. PICK r \in Wire : sent' = Append(sent, r) /\ stream' = stream \o Bytes(r)
      BY <1>1 DEF Send
    <2>2. /\ sent' \in Seq(Wire) /\ Len(sent') = Len(sent) + 1
          /\ Len(sent) \in Nat /\ Len(stream) \in Nat /\ Len(Bytes(r)) \in Nat
          /\ stream' \in Seq(Byte) /\ Len(stream') = Len(stream) + Len(Bytes(r))
      <3>1. Bytes(r) \in Seq(Byte)
        BY RecordBytes
      <3>. QED BY <2>1, <3>1, AppendProperties, ConcatProperties, LenProperties DEF TypeOK
    <2>3. arrived \in 0..Len(stream') /\ Len(sent') <= MaxSent
      BY <1>1, <2>2, WireBoundAssumption DEF Send, TypeOK
    <2>. QED BY <1>1, <2>2, <2>3 DEF Send, input, TypeOK, KnownType, Framed, Declared, Actual
  <1>2. CASE Consume
    <2>1. arrived' \in 0..Len(stream)
      BY <1>2, LenProperties DEF Consume, TypeOK
    <2>. QED BY <1>2, <2>1 DEF Consume, TypeOK, KnownType, Framed, Declared, Actual
  <1>3. CASE ParseHeader
    <2>1. Avail >= HeaderLen
      BY <1>3 DEF ParseHeader, HeaderArrived, Needed
    <2>2. \A n \in 0..7 : Char(n) \in Byte
      <3>. TAKE n \in 0..7
      <3>1. n \in Nat /\ pos + n < arrived
        BY <2>1, LenProperties DEF Avail, HeaderLen, TypeOK
      <3>. QED BY <3>1, CharIsByte
    <2>3. \A n \in {2, 4} : Short(n) \in Nat
      <3>1. \A n \in 0..7 : Char(n) \in Nat
        BY <2>2, BytesAreNumbers
      <3>. QED BY <3>1 DEF Short
    <2>4. hdr' \in Header /\ hdr'.type \in 1..UNKNOWN_TYPE
      <3>1. Char(1) \in Byte /\ Char(6) \in Byte /\ Short(2) \in Nat /\ Short(4) \in Nat
        BY <2>2, <2>3
      <3>. QED BY <1>3, <3>1 DEF ParseHeader, HeaderAccepted, Header
    <2>5. pos' \in Nat /\ pairs' \in Seq(Byte \X Byte)
      <3>1. pos' = pos + HeaderLen /\ pairs' = <<>>
        BY <1>3 DEF ParseHeader
      <3>. QED BY <3>1, EmptySeq DEF TypeOK, HeaderLen
    <2>. QED BY <1>3, <2>4, <2>5 DEF ParseHeader, TypeOK, KnownType, Framed, Declared, Actual
  <1>4. CASE HeaderRefused \/ PayloadRefused \/ PayloadAborts \/ ConsumeFails
    <2>1. /\ UNCHANGED <<sent, stream, arrived, pos, hdr, pairs, parsed, out, answered, early>>
          /\ pc' \in {"refused", "aborted", "closed"}
      BY <1>4 DEF HeaderRefused, PayloadRefused, PayloadAborts, ConsumeFails, Refuse
    <2>. QED BY <2>1 DEF TypeOK, KnownType, Framed, Declared, Actual
  <1>5. CASE ParsePayload
    <2>1. PICK past \in Stray : /\ Nread(past) >= hdr.rsz
                                /\ pos' = pos + Nread(past)
                                /\ pairs' = IF hdr.type \in PairTypes
                                            THEN ReadPairs(hdr.rsz, past).pairs ELSE <<>>
      BY <1>5 DEF ParsePayload
    <2>2. /\ Nread(past) \in Int /\ hdr.rsz \in Nat
          /\ ReadPairs(hdr.rsz, past).pairs \in Seq(Byte \X Byte)
          /\ <<>> \in Seq(Byte \X Byte)
      BY NreadIsNumber, EmptySeq DEF PairsRead, TypeOK, Header
    <2>3. pos' \in Nat /\ pairs' \in Seq(Byte \X Byte)
      BY <2>1, <2>2 DEF TypeOK
    <2>. QED BY <1>5, <2>3 DEF ParsePayload, PayloadArrived, TypeOK, KnownType, Framed, Declared, Actual
  <1>6. CASE ParsePadding
    <2>. DEFINE p == [type |-> hdr.type, size |-> hdr.rsz, pairs |-> pairs]
                P == [type : 1..UNKNOWN_TYPE, size : Nat, pairs : Seq(Byte \X Byte)]
    <2>1. p \in P
      BY <1>6 DEF ParsePadding, KnownType, TypeOK, Header
    <2>2. parsed \in Seq(P) /\ parsed' = Append(parsed, p)
      BY <1>6 DEF ParsePadding, TypeOK
    <2>. HIDE DEF p, P
    <2>3. parsed' \in Seq(P)
      BY <2>1, <2>2, AppendProperties
    <2>4. pos' \in Nat
      <3>1. hdr.psz \in Nat
        BY BytesAreNumbers DEF TypeOK, Header
      <3>. QED BY <1>6, <3>1 DEF ParsePadding, TypeOK
    <2>. USE DEF P
    <2>. QED BY <1>6, <2>3, <2>4 DEF ParsePadding, TypeOK, KnownType, Framed, Declared, Actual
  <1>7. CASE RenderStdout
    <2>1. PICK n \in Payloads : out' = Append(out, Rendered(STDOUT, n, n))
      BY <1>7 DEF RenderStdout
    <2>2. n \in Nat /\ STDOUT \in 1..UNKNOWN_TYPE
      BY PayloadsAssumption DEF STDOUT, UNKNOWN_TYPE
    <2>3. out' \in Seq(OutRecord) /\ Framed'
      <3>. DEFINE r == Rendered(STDOUT, n, n)
      <3>1. r \in OutRecord /\ WellFramed(r)
        BY <2>2, RenderedFits
      <3>. HIDE DEF r
      <3>2. out' = Append(out, r)
        BY <2>1 DEF r
      <3>. QED BY <3>1, <3>2, OutAppend DEF TypeOK
    <2>. QED BY <1>7, <2>3 DEF RenderStdout, input, TypeOK, KnownType
  <1>8. CASE Answer \/ Reply
    <2>0. WriteEnd
      BY <1>8 DEF Answer, Reply
    <2>1. out' = <<>> /\ out' \in Seq(OutRecord) /\ Framed'
      BY <2>0, EmptySeq DEF WriteEnd, Framed
    <2>2. answered' \in Nat /\ arrived \in Nat
      <3>1. answered' = answered \/ answered' = answered + 1
        BY <2>0 DEF WriteEnd
      <3>. QED BY <3>1, LenProperties DEF TypeOK
    <2>3. early' \in BOOLEAN
      BY <1>8 DEF Answer, Reply, TypeOK
    <2>. QED BY <1>8, <2>1, <2>2, <2>3 DEF Answer, Reply, TypeOK, KnownType
  <1>9. CASE GetValues
    <2>1. PICK known \in SUBSET {i \in DOMAIN pairs : KeyLength(i) > 0} :
             LET r == Rendered(GET_VALUES_RESULT, PairsBytes(Values(known), Len(pairs)),
                               PairsReturned(Values(known)))
             IN  \/ /\ r.n # r.bytes
                    /\ pc' = "aborted"
                    /\ UNCHANGED out
                 \/ /\ pc' = IF r.res = "ok" THEN "header" ELSE "closed"
                    /\ out' = IF r.res = "ok" THEN Append(out, r) ELSE <<>>
      BY <1>9 DEF GetValues
    <2>. DEFINE b == PairsBytes(Values(known), Len(pairs))
                n == PairsReturned(Values(known))
                r == Rendered(GET_VALUES_RESULT, b, n)
    <2>2. b \in Nat /\ n \in Nat
      BY PairsCounted DEF TypeOK
    <2>. HIDE DEF b, n
    <2>3. r \in OutRecord /\ WellFramed(r)
      BY <2>2, RenderedFits DEF GET_VALUES_RESULT, UNKNOWN_TYPE
    <2>4. /\ pc' \in {"aborted", "header", "closed"}
          /\ out' = out \/ out' = Append(out, r) \/ out' = <<>>
      BY <2>1 DEF b, n
    <2>. HIDE DEF r
    <2>5. out' \in Seq(OutRecord) /\ Framed'
      <3>1. CASE out' = out
        BY <3>1 DEF TypeOK, Framed, Declared, Actual
      <3>2. CASE out' = Append(out, r)
        BY <2>3, <3>2, OutAppend DEF TypeOK
      <3>3. CASE out' = <<>>
        BY <3>3, EmptySeq DEF Framed
      <3>. QED BY <2>4, <3>1, <3>2, <3>3
    <2>. QED BY <1>9, <2>4, <2>5 DEF GetValues, TypeOK, KnownType
  <1>10. CASE Return
    <2>1. out' \in Seq(OutRecord) /\ Framed'
      <3>1. CASE out' = out
        BY <3>1 DEF TypeOK, Framed, Declared, Actual
      <3>2. CASE out' = <<>>
        BY <3>2, EmptySeq DEF Framed
      <3>. QED BY <1>10, <3>1, <3>2 DEF Return
    <2>. QED BY <1>10, <2>1 DEF Return, TypeOK, KnownType
  <1>. QED BY <1>0, <1>1, <1>2, <1>3, <1>4, <1>5, <1>6, <1>7, <1>8, <1>9, <1>10
       DEF Next, Parse, Handle

\* They hold in the beginning.
LEMMA TypesInit ==
  ASSUME Init
  PROVE  TypesInv
  <1>1. /\ sent \in Seq(Wire) /\ Len(sent) = 0 /\ stream \in Seq(Byte) /\ Len(stream) = 0
        /\ out = <<>> /\ out \in Seq(OutRecord) /\ pairs \in Seq(Byte \X Byte)
        /\ parsed \in Seq([type : 1..UNKNOWN_TYPE, size : Nat, pairs : Seq(Byte \X Byte)])
    BY EmptySeq DEF Init
  <1>2. hdr \in Header
    BY BytesAreNumbers DEF Init, Header
  <1>3. early \in BOOLEAN
    BY DEF Init
  <1>. QED BY <1>1, <1>2, <1>3, WireBoundAssumption DEF Init, TypesInv, TypeOK, KnownType, Framed

-----------------------------------------------------------------------------
(* What is read of a record that can be read                               *)

\* The pairs of a body, one after the other.
LEMMA Offsets ==
  ASSUME NEW q \in Seq(Byte \X Byte)
  PROVE  /\ Len(q) \in Nat /\ DOMAIN q = 1..Len(q)
         /\ Offset(q, 0) = 0
         /\ \A i \in 0..Len(q) : Offset(q, i) \in Nat
         /\ \A i \in 1..Len(q) : /\ q[i] \in Byte \X Byte /\ q[i][1] \in Nat /\ q[i][2] \in Nat
                                 /\ Offset(q, i) = Offset(q, i - 1) + (2 + q[i][1] + q[i][2])
         /\ \A i \in 0..Len(q) : Offset(q, i) <= Offset(q, Len(q))
  <1>. DEFINE f == [j \in 1..Len(q) |-> 2 + q[j][1] + q[j][2]]
  <1>1. Len(q) \in Nat /\ DOMAIN q = 1..Len(q) /\ \A i \in 1..Len(q) : q[i] \in Byte \X Byte
    BY LenProperties, ElementOfSeq
  <1>2. \A i \in 1..Len(q) : q[i][1] \in Nat /\ q[i][2] \in Nat
    BY <1>1, BytesAreNumbers
  <1>3. f \in [1..Len(q) -> Nat]
    BY <1>2
  <1>4. \A i : Offset(q, i) = SumFunctionOnSet(f, 1..i)
    BY <1>1 DEF Offset
  <1>5. \A i \in 1..Len(q) : f[i] = 2 + q[i][1] + q[i][2]
    OBVIOUS
  <1>6. PICK n \in Nat : n = Len(q)
    BY <1>1
  <1>. HIDE DEF f
  <1>7. /\ SumFunctionOnSet(f, 1..0) = 0
        /\ \A i \in 0..n : SumFunctionOnSet(f, 1..i) \in Nat
        /\ \A i \in 1..n : SumFunctionOnSet(f, 1..i) = SumFunctionOnSet(f, 1..(i - 1)) + f[i]
        /\ \A i \in 0..n : \A j \in i..n :
               SumFunctionOnSet(f, 1..i) <= SumFunctionOnSet(f, 1..j)
    <2>1. f \in [1..n -> Nat]
      BY <1>3, <1>6
    <2>. QED BY <2>1, PrefixSum
  <1>8. \A i \in 0..n : SumFunctionOnSet(f, 1..i) <= SumFunctionOnSet(f, 1..n)
    <2>. TAKE i \in 0..n
    <2>1. n \in i..n
      OBVIOUS
    <2>. QED BY <1>7, <2>1
  <1>9. /\ Offset(q, 0) = 0
        /\ \A i \in 0..n : Offset(q, i) \in Nat /\ Offset(q, i) <= Offset(q, n)
    BY <1>4, <1>7, <1>8
  <1>10. \A i \in 1..n : Offset(q, i) = Offset(q, i - 1) + (2 + q[i][1] + q[i][2])
    BY <1>4, <1>5, <1>6, <1>7
  <1>. QED BY <1>1, <1>2, <1>6, <1>9, <1>10

\* The input has the pairs q, one after the other.
PairsLie(q, size, past) ==
    /\ q \in Seq(Byte \X Byte)
    /\ Offset(q, Len(q)) = size
    /\ \A i \in 1..Len(q) :
          <<At(Offset(q, i - 1), past), At(Offset(q, i - 1) + 1, past)>> = q[i]

\* Then they are what ReadPairs returns.
LEMMA ReadsAll ==
  ASSUME NEW size \in Nat, NEW past, AllBytes(past), NEW q, PairsLie(q, size, past)
  PROVE  ReadPairs(size, past) = [pairs |-> q, nread |-> size]
  <1>1. /\ q \in Seq(Byte \X Byte) /\ Len(q) \in Nat
        /\ Offset(q, 0) = 0 /\ Offset(q, Len(q)) = size
        /\ \A i \in 0..Len(q) : Offset(q, i) \in Nat /\ Offset(q, i) <= size
        /\ \A i \in 1..Len(q) : /\ q[i][1] \in Nat /\ q[i][2] \in Nat
                                /\ Offset(q, i) = Offset(q, i - 1) + (2 + q[i][1] + q[i][2])
    BY Offsets DEF PairsLie
  <1>2. /\ ReadPairs(size, past) = From(size, past)[0]
        /\ \A n \in Nat : From(size, past)[n] = Following(From(size, past), size, past, n)
    BY PairsFollow
  <1>3. PICK f : f = From(size, past)
    OBVIOUS
  <1>4. PICK len \in Nat : len = Len(q)
    BY <1>1
  <1>. DEFINE Rest(j) == [pairs |-> SubSeq(q, j + 1, len), nread |-> size]
              S == {k \in Nat : k <= len => f[Offset(q, len - k)] = Rest(len - k)}
  <1>5. 0 \in S
    <2>1. f[size] = [pairs |-> <<>>, nread |-> size]
      <3>1. f[size] = Following(f, size, past, size) /\ size >= size
        BY <1>2, <1>3
      <3>. QED BY <3>1 DEF Following
    <2>2. SubSeq(q, len + 1, len) = <<>>
      BY SubSeqEmpty
    <2>. QED BY <1>1, <1>4, <2>1, <2>2
  <1>6. ASSUME NEW k \in S
        PROVE  k + 1 \in S
    <2>. SUFFICES ASSUME k + 1 <= len
                  PROVE  f[Offset(q, len - (k + 1))] = Rest(len - (k + 1))
      OBVIOUS
    <2>1. PICK i \in 1..len : i = len - k
      OBVIOUS
    <2>2. f[Offset(q, i)] = Rest(i) /\ len - (k + 1) = i - 1
      BY <2>1
    <2>. DEFINE at == Offset(q, i - 1)
    <2>3. /\ at \in Nat /\ at < size
          /\ Offset(q, i) = at + PairSize(q[i][1], q[i][2])
      <3>1. /\ i \in 1..Len(q) /\ i - 1 \in 0..Len(q) /\ i \in 0..Len(q)
        BY <1>4
      <3>2. /\ at \in Nat /\ Offset(q, i) <= size /\ q[i][1] \in Nat /\ q[i][2] \in Nat
            /\ Offset(q, i) = at + (2 + q[i][1] + q[i][2])
        BY <1>1, <3>1
      <3>. HIDE DEF at
      <3>. QED BY <1>1, <3>2 DEF PairSize
    <2>4. <<At(at, past), At(at + 1, past)>> = q[i]
      BY <1>4 DEF PairsLie
    <2>. HIDE DEF at
    <2>5. f[at] = [pairs |-> <<q[i]>> \o f[Offset(q, i)].pairs, nread |-> f[Offset(q, i)].nread]
      <3>1. At(at, past) = q[i][1] /\ At(at + 1, past) = q[i][2]
        BY <2>4
      <3>2. f[at] = Following(f, size, past, at)
        BY <1>2, <1>3, <2>3
      <3>3. ~(at >= size)
        BY <2>3
      <3>. QED BY <2>3, <2>4, <3>1, <3>2, <3>3 DEF Following
    <2>6. <<q[i]>> \o SubSeq(q, i + 1, len) = SubSeq(q, i, len)
      <3>1. i \in 1..Len(q) /\ len \in i..Len(q)
        BY <1>4
      <3>. QED BY <1>1, <3>1, SubSeqRecursiveFirst
    <2>7. f[at] = [pairs |-> SubSeq(q, i, len), nread |-> size]
      <3>1. f[Offset(q, i)].pairs = SubSeq(q, i + 1, len) /\ f[Offset(q, i)].nread = size
        BY <2>2
      <3>. QED BY <2>5, <2>6, <3>1
    <2>8. (i - 1) + 1 = i
      OBVIOUS
    <2>. QED BY <2>2, <2>7, <2>8 DEF at
  <1>7. S = Nat
    <2>. HIDE DEF S
    <2>1. S \in SUBSET Nat
      BY DEF S
    <2>. QED BY <1>5, <1>6, <2>1, SetInduction
  <1>8. f[Offset(q, 0)] = Rest(0)
    <2>1. len \in S
      BY <1>7
    <2>2. len - len = 0
      OBVIOUS
    <2>. HIDE DEF Rest
    <2>. QED BY <2>1, <2>2
  <1>9. SubSeq(q, 1, len) = q
    BY <1>1, <1>4, SubSeqFull
  <1>. QED BY <1>1, <1>2, <1>3, <1>8, <1>9

\* The record r lies in the input from e on.
Lies(r, e) ==
    /\ r \in Wire /\ e \in Nat /\ Len(r.body) \in Nat /\ r.psz \in Nat
    /\ stream[e + 1] = 1 /\ stream[e + 2] = r.type
    /\ 256 * stream[e + 3] + stream[e + 4] = r.rid
    /\ 256 * stream[e + 5] + stream[e + 6] = Len(r.body)
    /\ stream[e + 7] = r.psz
    /\ \A k \in 1..Len(r.body) : stream[e + HeaderLen + k] = r.body[k]

\* Each record that has been sent lies where the one before it ends.
LEMMA RecordLies ==
  ASSUME TypeOK, StreamOfSent, NEW n \in Nat, n < Len(sent), NEW r, r = sent[n + 1]
  PROVE  /\ Lies(r, End(sent, n))
         /\ End(sent, n + 1) = End(sent, n) + HeaderLen + Len(r.body) + r.psz
  <1>1. /\ n + 1 \in 1..Len(sent) /\ (n + 1) - 1 = n /\ n \in 0..Len(sent)
        /\ DOMAIN sent = 1..Len(sent)
    BY LenProperties DEF TypeOK
  <1>2. /\ r \in Wire /\ End(sent, n) \in Nat
        /\ End(sent, n + 1) = End(sent, n) + Len(Bytes(r))
    <2>1. sent \in Seq(Wire)
      BY DEF TypeOK
    <2>2. /\ \A i \in 0..Len(sent) : End(sent, i) \in Nat
          /\ \A i \in 1..Len(sent) : /\ sent[i] \in Wire
                                     /\ End(sent, i) = End(sent, i - 1) + Len(Bytes(sent[i]))
      BY <2>1, Ends
    <2>. QED BY <1>1, <2>2
  <1>3. \A k \in 1..Len(Bytes(r)) : stream[End(sent, n) + k] = Bytes(r)[k]
    BY <1>1 DEF StreamOfSent
  <1>. DEFINE e == End(sent, n)
              b == Bytes(r)
              l == Len(r.body)
  <1>4. /\ l \in Nat /\ r.psz \in Byte
        /\ Len(b) = HeaderLen + l + r.psz
        /\ b[1] = 1 /\ b[2] = r.type
        /\ 256 * b[3] + b[4] = r.rid
        /\ 256 * b[5] + b[6] = l
        /\ b[7] = r.psz
        /\ \A k \in 1..l : b[HeaderLen + k] = r.body[k]
    BY <1>2, RecordBytes
  <1>5. r.psz \in Nat
    BY <1>4, BytesAreNumbers
  <1>. HIDE DEF e, b, l
  <1>6. \A k \in 1..(HeaderLen + l) : stream[e + k] = b[k]
    <2>. TAKE k \in 1..(HeaderLen + l)
    <2>1. k \in 1..Len(b)
      BY <1>4, <1>5 DEF HeaderLen
    <2>. QED BY <1>3, <2>1 DEF e, b
  <1>7. /\ stream[e + 1] = b[1] /\ stream[e + 2] = b[2] /\ stream[e + 3] = b[3]
        /\ stream[e + 4] = b[4] /\ stream[e + 5] = b[5] /\ stream[e + 6] = b[6]
        /\ stream[e + 7] = b[7]
    BY <1>4, <1>6 DEF HeaderLen
  <1>8. \A k \in 1..l : stream[e + HeaderLen + k] = b[HeaderLen + k]
    <2>. TAKE k \in 1..l
    <2>1. HeaderLen + k \in 1..(HeaderLen + l) /\ e + (HeaderLen + k) = e + HeaderLen + k
      BY <1>2, <1>4 DEF HeaderLen, e
    <2>. QED BY <1>6, <2>1
  <1>9. Lies(r, e)
    BY <1>2, <1>4, <1>5, <1>7, <1>8 DEF Lies, e, l
  <1>10. End(sent, n + 1) = e + HeaderLen + l + r.psz
    <2>1. e \in Nat /\ End(sent, n + 1) = e + Len(b)
      BY <1>2 DEF e, b
    <2>2. Len(b) = 8 + l + r.psz /\ l \in Nat
      BY <1>4 DEF HeaderLen
    <2>3. \A x, y, z \in Nat : x + (8 + y + z) = x + 8 + y + z
      OBVIOUS
    <2>4. e + (8 + l + r.psz) = e + 8 + l + r.psz
      BY <1>5, <2>1, <2>2, <2>3
    <2>. QED BY <2>1, <2>2, <2>4 DEF HeaderLen
  <1>. QED BY <1>9, <1>10 DEF e, l

\* A header that has arrived where a record ends is that of the next record.
LEMMA HeaderRead ==
  ASSUME TypeOK, StreamOfSent, HeaderArrived, NEW n \in Nat, n <= Len(sent),
         pos = End(sent, n)
  PROVE  /\ n < Len(sent)
         /\ Char(0) = 1
         /\ Char(1) = sent[n + 1].type /\ Short(2) = sent[n + 1].rid
         /\ Short(4) = Len(sent[n + 1].body) /\ Char(6) = sent[n + 1].psz
  <1>1. /\ Len(sent) \in Nat /\ Len(stream) \in Nat /\ arrived \in 0..Len(stream) /\ pos \in Nat
        /\ Len(stream) = End(sent, Len(sent))
    BY LenProperties DEF TypeOK, StreamOfSent
  <1>2. arrived >= pos + HeaderLen
    BY <1>1 DEF HeaderArrived, Needed, Avail, HeaderLen
  <1>3. n < Len(sent)
    <2>1. End(sent, Len(sent)) > End(sent, n)
      BY <1>1, <1>2 DEF HeaderLen
    <2>2. n # Len(sent)
      BY <1>1, <2>1
    <2>. QED BY <1>1, <2>2
  <1>4. PICK r : r = sent[n + 1]
    OBVIOUS
  <1>5. Lies(r, pos)
    BY <1>3, <1>4, RecordLies
  <1>6. /\ pos + 0 + 1 = pos + 1 /\ pos + 1 + 1 = pos + 2 /\ pos + 2 + 1 = pos + 3
        /\ pos + (2 + 1) + 1 = pos + 4 /\ pos + 4 + 1 = pos + 5 /\ pos + (4 + 1) + 1 = pos + 6
        /\ pos + 6 + 1 = pos + 7
    BY <1>1
  <1>. QED BY <1>3, <1>4, <1>5, <1>6 DEF Lies, Char, Short

\* The pairs of a payload that has arrived, where the body is what its pairs say.
LEMMA PairsOfRecord ==
  ASSUME TypeOK, NEW r, NEW e, Lies(r, e), Whole(r), r.type \in PairTypes,
         hdr.rsz = Len(r.body), pos = e + HeaderLen, pos + hdr.rsz <= arrived,
         NEW past \in Stray
  PROVE  ReadPairs(hdr.rsz, past) = [pairs |-> r.pairs, nread |-> hdr.rsz]
  <1>1. /\ r \in Wire /\ e \in Nat /\ pos \in Nat /\ r.pairs \in Seq(Byte \X Byte)
        /\ \A k \in 1..Len(r.body) : stream[e + HeaderLen + k] = r.body[k]
    BY WireAssumption DEF Lies, TypeOK
  <1>2. PICK size \in Nat : size = hdr.rsz /\ size = Len(r.body)
    BY DEF Lies
  <1>3. AllBytes(past)
    BY InputIsBytes, StrayAssumption DEF TypeOK
  <1>4. arrived \in Nat
    BY LenProperties DEF TypeOK
  <1>5. ASSUME NEW m \in Nat, m < size
        PROVE  At(m, past) = r.body[m + 1]
    <2>1. pos + m < arrived
      BY <1>1, <1>2, <1>4, <1>5
    <2>2. pos + m + 1 = e + HeaderLen + (m + 1)
      BY <1>1 DEF HeaderLen
    <2>3. m + 1 \in 1..size
      BY <1>5
    <2>4. m + 1 \in 1..Len(r.body)
      BY <1>2, <2>3
    <2>. QED BY <1>1, <2>1, <2>2, <2>4 DEF At, Char
  <1>6. PICK q : q = r.pairs
    OBVIOUS
  <1>7. /\ Offset(q, Len(q)) = size
        /\ \A i \in 1..Len(q) : <<r.body[Offset(q, i - 1) + 1], r.body[Offset(q, i - 1) + 2]>> = q[i]
    BY <1>1, <1>2, <1>6, Offsets DEF Whole
  <1>8. ASSUME NEW i \in 1..Len(q)
        PROVE  <<At(Offset(q, i - 1), past), At(Offset(q, i - 1) + 1, past)>> = q[i]
    <2>. DEFINE at == Offset(q, i - 1)
    <2>1. at \in Nat /\ at + 2 <= size
      <3>1. i - 1 \in 0..Len(q) /\ i \in 0..Len(q)
        BY <1>1, <1>6, Offsets
      <3>2. q \in Seq(Byte \X Byte)
        BY <1>1, <1>6
      <3>3. /\ at \in Nat /\ Offset(q, i) <= Offset(q, Len(q)) /\ Offset(q, i) \in Nat
            /\ q[i][1] \in Nat /\ q[i][2] \in Nat
            /\ Offset(q, i) = at + (2 + q[i][1] + q[i][2])
        BY <3>1, <3>2, Offsets
      <3>. HIDE DEF at
      <3>. QED BY <1>7, <3>3
    <2>2. <<r.body[at + 1], r.body[at + 2]>> = q[i]
      BY <1>7
    <2>. HIDE DEF at
    <2>3. At(at, past) = r.body[at + 1] /\ At(at + 1, past) = r.body[(at + 1) + 1]
      BY <1>5, <2>1
    <2>4. (at + 1) + 1 = at + 2
      BY <2>1
    <2>. QED BY <2>2, <2>3, <2>4 DEF at
  <1>9. PairsLie(q, size, past)
    BY <1>1, <1>6, <1>7, <1>8 DEF PairsLie
  <1>10. ReadPairs(size, past) = [pairs |-> q, nread |-> size]
    BY <1>3, <1>9, ReadsAll
  <1>. QED BY <1>2, <1>6, <1>10

-----------------------------------------------------------------------------
(* Steps                                                                   *)

\* What a record sent leaves as it was.
LEMMA SendKeeps ==
  ASSUME TypeOK, StreamOfSent, Send
  PROVE  /\ Len(sent) \in Nat /\ Len(sent') = Len(sent) + 1
         /\ DOMAIN sent = 1..Len(sent) /\ DOMAIN sent' = 1..Len(sent')
         /\ \A i \in 1..Len(sent) : sent'[i] = sent[i]
         /\ \A i \in 0..Len(sent) : End(sent', i) = End(sent, i)
         /\ StreamOfSent'
         /\ \A k : WholeUpTo(k)' => WholeUpTo(k)
         /\ UNCHANGED <<input, out, answered>>
  <1>1. PICK r \in Wire : sent' = Append(sent, r) /\ stream' = stream \o Bytes(r)
    BY DEF Send
  <1>2. sent \in Seq(Wire) /\ stream \in Seq(Byte)
    BY DEF TypeOK
  <1>3. /\ sent' \in Seq(Wire) /\ Len(sent') = Len(sent) + 1
        /\ \A i \in 1..Len(sent) : sent'[i] = sent[i]
        /\ \A i \in 0..Len(sent) : End(sent', i) = End(sent, i)
        /\ StreamOfSent'
    BY <1>1, <1>2, SendExtends
  <1>4. /\ Len(sent) \in Nat /\ DOMAIN sent = 1..Len(sent) /\ DOMAIN sent' = 1..Len(sent')
    BY <1>2, <1>3, LenProperties
  <1>5. \A k : WholeUpTo(k)' => WholeUpTo(k)
    <2>1. \A j \in DOMAIN sent : j \in DOMAIN sent' /\ sent'[j] = sent[j]
      BY <1>3, <1>4
    <2>. QED BY <2>1 DEF WholeUpTo
  <1>. QED BY <1>3, <1>4, <1>5 DEF Send

\* The records that can be read stay those, and lie where they did, when nothing
\* is sent.
LEMMA NothingSent ==
  ASSUME UNCHANGED <<sent, stream>>, StreamOfSent
  PROVE  StreamOfSent' /\ \A k : WholeUpTo(k)' <=> WholeUpTo(k)
  BY DEF StreamOfSent, WholeUpTo

Positioned(n) ==
    n <= Len(sent) /\ AtHeader(n) /\ AtPayload(n) /\ AtPadding(n) /\ AtHandle(n)

\* What is read is behind the records that have been read, as they were sent.
LEMMA SendAtRecord ==
  ASSUME TypeOK, StreamOfSent, AtRecord, Send, ~early
  PROVE  AtRecord'
  <1>. DEFINE n == Len(parsed)
  <1>1. /\ Len(sent) \in Nat /\ Len(sent') = Len(sent) + 1
        /\ \A i \in 1..Len(sent) : sent'[i] = sent[i]
        /\ \A i \in 0..Len(sent) : End(sent', i) = End(sent, i)
        /\ \A k : WholeUpTo(k)' => WholeUpTo(k)
        /\ UNCHANGED input
    BY SendKeeps
  <1>2. n \in Nat /\ parsed' = parsed
    BY <1>1, LenProperties DEF TypeOK, input
  <1>. SUFFICES ASSUME WholeUpTo(n)'
                PROVE  Positioned(n)'
    BY <1>2 DEF AtRecord, Positioned
  <1>3. WholeUpTo(n)
    BY <1>1, <1>2
  <1>4. Positioned(n)
    BY <1>3 DEF AtRecord, Positioned
  <1>5. /\ n <= Len(sent) /\ n <= Len(sent') /\ n \in 0..Len(sent)
        /\ End(sent', n) = End(sent, n)
        /\ n < Len(sent) => n < Len(sent') /\ sent'[n + 1] = sent[n + 1]
        /\ n > 0 => sent'[n] = sent[n]
    <2>1. n <= Len(sent)
      BY <1>4 DEF Positioned
    <2>. HIDE DEF n
    <2>. QED BY <1>1, <1>2, <2>1
  <1>6. WholeUpTo(n + 1)' => WholeUpTo(n + 1)
    BY <1>1, <1>2
  <1>7. UNCHANGED <<pc, pos, hdr, pairs, arrived>>
    BY <1>1 DEF input
  <1>. HIDE DEF n
  <1>8. AtHeader(n)'
    BY <1>2, <1>4, <1>5, <1>7 DEF Positioned, AtHeader, n
  <1>9. AtPayload(n)'
    BY <1>2, <1>4, <1>5, <1>7 DEF Positioned, AtPayload, n
  <1>10. AtPadding(n)'
    BY <1>2, <1>4, <1>5, <1>6, <1>7 DEF Positioned, AtPadding, n
  <1>11. AtHandle(n)'
    BY <1>2, <1>4, <1>5, <1>7 DEF Positioned, AtHandle, n
  <1>. QED BY <1>2, <1>5, <1>8, <1>9, <1>10, <1>11 DEF Positioned, n

\* A payload of a record that can be read is read to its end, and no further.
LEMMA PayloadRead ==
  ASSUME TypeOK, KnownType, NEW r, NEW e, Lies(r, e), Whole(r), hdr = HeaderOf(r),
         pc = "payload", pos = e + HeaderLen, pos + hdr.rsz <= arrived,
         NEW past \in Stray
  PROVE  /\ Nread(past) >= hdr.rsz =>
               /\ Nread(past) = hdr.rsz
               /\ (IF hdr.type \in PairTypes THEN ReadPairs(hdr.rsz, past).pairs ELSE <<>>)
                     = Content(r).pairs
         /\ Nread(past) < hdr.rsz =>
               \/ r.type \in {END_REQUEST, STDOUT, STDERR, UNKNOWN_TYPE}
               \/ r.type = ABORT_REQUEST /\ r.body # <<>>
  <1>1. /\ r \in Wire /\ hdr.type = r.type /\ hdr.rsz = Len(r.body) /\ Len(r.body) \in Nat
        /\ r.type \in 1..11
    BY DEF Lies, HeaderOf, KnownType, UNKNOWN_TYPE
  <1>2. CASE r.type \in PairTypes
    <2>1. ReadPairs(hdr.rsz, past) = [pairs |-> r.pairs, nread |-> hdr.rsz]
      BY <1>1, <1>2, PairsOfRecord
    <2>2. Nread(past) = hdr.rsz
      BY <1>1, <1>2, <2>1
         DEF Nread, PairTypes, PARAMS, GET_VALUES, GET_VALUES_RESULT, BEGIN_REQUEST, ABORT_REQUEST
    <2>3. Content(r).pairs = r.pairs
      BY <1>2 DEF Content
    <2>. QED BY <1>1, <1>2, <2>1, <2>2, <2>3
  <1>3. CASE r.type \notin PairTypes
    <2>1. Content(r).pairs = <<>>
      BY <1>3 DEF Content
    <2>2. CASE r.type = BEGIN_REQUEST
      <3>1. Nread(past) = 8 /\ hdr.rsz = 8
        BY <1>1, <1>3, <2>2 DEF Nread, Whole, BEGIN_REQUEST, ABORT_REQUEST, STDIN, DATA
      <3>. QED BY <1>1, <1>3, <2>1, <3>1
    <2>3. CASE r.type = ABORT_REQUEST
      <3>1. Nread(past) = 0
        BY <1>1, <1>3, <2>3 DEF Nread, BEGIN_REQUEST, ABORT_REQUEST, STDIN, DATA
      <3>2. r.body = <<>> => Len(r.body) = 0
        OBVIOUS
      <3>. QED BY <1>1, <1>3, <2>1, <2>3, <3>1, <3>2
    <2>4. CASE r.type \in {STDIN, DATA}
      <3>1. Nread(past) = hdr.rsz
        BY <1>1, <1>3, <2>4 DEF Nread, BEGIN_REQUEST, ABORT_REQUEST, STDIN, DATA
      <3>. QED BY <1>1, <1>3, <2>1, <3>1
    <2>5. CASE r.type \in {END_REQUEST, STDOUT, STDERR, UNKNOWN_TYPE}
      <3>1. Nread(past) = -1
        BY <1>1, <1>3, <2>5
           DEF Nread, BEGIN_REQUEST, ABORT_REQUEST, STDIN, DATA, END_REQUEST, STDOUT, STDERR,
               UNKNOWN_TYPE
      <3>. QED BY <1>1, <2>5, <3>1
    <2>. QED BY <1>1, <1>3, <2>2, <2>3, <2>4, <2>5
         DEF PairTypes, BEGIN_REQUEST, ABORT_REQUEST, END_REQUEST, PARAMS, STDIN, STDOUT, STDERR,
             DATA, GET_VALUES, GET_VALUES_RESULT, UNKNOWN_TYPE
  <1>. QED BY <1>2, <1>3

\* The last record of a request is being handled.
Ending == pc = "handle" /\ LastRecord(hdr.type, hdr.rsz)

\* The record that ends a request is the last one sent, when it is answered, and
\* all that has arrived has been read.
LEMMA EndIsLast ==
  ASSUME TypeOK, StreamOfSent, AtRecord, AnsweredInOrder, Ending, WholeUpTo(Len(parsed)),
         ~early
  PROVE  /\ Len(parsed) \in Nat \ {0} /\ Len(parsed) = Len(sent)
         /\ EndsRequest(sent[Len(parsed)])
         /\ arrived = End(sent, Len(parsed))
  <1>. DEFINE n == Len(parsed)
  <1>1. /\ n \in Nat /\ Len(sent) \in Nat /\ DOMAIN sent = 1..Len(sent)
        /\ arrived \in 0..Len(stream) /\ Len(stream) \in Nat
        /\ Len(stream) = End(sent, Len(sent))
    BY LenProperties DEF TypeOK, StreamOfSent
  <1>2. /\ n <= Len(sent) /\ n > 0 /\ hdr = HeaderOf(sent[n])
        /\ pos = End(sent, n) /\ pos <= arrived
    BY DEF AtRecord, AtHandle, Ending
  <1>3. n \in 1..Len(sent) /\ n \in Nat \ {0} /\ n > n - 1
    <2>. HIDE DEF n
    <2>. QED BY <1>1, <1>2
  <1>4. EndsRequest(sent[n])
    BY <1>2 DEF HeaderOf, EndsRequest, Ending
  <1>5. n = Len(sent)
    <2>1. Done = n - 1
      BY DEF Done, Ending
    <2>2. \A i \in DOMAIN sent : EndsRequest(sent[i]) /\ i > Done => i = Len(sent)
      BY DEF AnsweredInOrder
    <2>. HIDE DEF n
    <2>. QED BY <1>1, <1>3, <1>4, <2>1, <2>2
  <1>6. arrived = End(sent, n)
    <2>. HIDE DEF n
    <2>. QED BY <1>1, <1>2, <1>5 DEF TypeOK
  <1>. QED BY <1>3, <1>4, <1>5, <1>6

\* Each step leaves the position where the records sent say.
LEMMA AtRecordStep ==
  ASSUME TypeOK, KnownType, StreamOfSent, AtRecord, AnsweredInOrder, [Next]_vars,
         ~early, ~early'
  PROVE  AtRecord'
  <1>. DEFINE n == Len(parsed)
  <1>0. n \in Nat /\ Len(sent) \in Nat /\ arrived \in Nat /\ pos \in Nat
    BY LenProperties DEF TypeOK
  <1>1. CASE Send
    BY <1>1, SendAtRecord
  <1>2. CASE UNCHANGED <<sent, stream>>
    <2>1. \A k : WholeUpTo(k)' <=> WholeUpTo(k)
      BY <1>2, NothingSent
    <2>2. ASSUME UNCHANGED <<parsed, pos, hdr, pairs, pc>>, arrived' \in Nat, arrived' >= arrived
          PROVE  AtRecord'
      BY <1>0, <1>2, <2>1, <2>2 DEF AtRecord, AtHeader, AtPayload, AtPadding, AtHandle
    <2>3. ASSUME parsed' = parsed, pc' \notin {"header", "payload", "padding", "handle"}
          PROVE  AtRecord'
      BY <1>2, <2>1, <2>3 DEF AtRecord, AtHeader, AtPayload, AtPadding, AtHandle
    <2>4. CASE UNCHANGED vars
      BY <1>0, <2>2, <2>4 DEF vars, input
    <2>5. CASE Consume
      <3>1. \E m \in arrived + 1..Len(stream) : arrived' = m
        BY <2>5 DEF Consume
      <3>2. Len(stream) \in Nat
        BY LenProperties DEF TypeOK
      <3>3. arrived' \in Nat /\ arrived' >= arrived
        BY <1>0, <3>1, <3>2
      <3>. QED BY <2>2, <2>5, <3>3 DEF Consume
    <2>6. CASE HeaderRefused \/ PayloadRefused \/ PayloadAborts \/ ConsumeFails
      BY <2>3, <2>6 DEF HeaderRefused, PayloadRefused, PayloadAborts, ConsumeFails, Refuse
    <2>7. CASE ParseHeader
      <3>. SUFFICES ASSUME WholeUpTo(n)
                    PROVE  n < Len(sent) /\ AtPayload(n)'
        BY <1>0, <1>2, <2>1, <2>7
           DEF ParseHeader, AtRecord, AtHeader, AtPadding, AtHandle
      <3>1. n <= Len(sent) /\ pos = End(sent, n) /\ HeaderArrived
        BY <2>7 DEF AtRecord, AtHeader, ParseHeader, HeaderArrived
      <3>2. PICK m \in Nat : m = n
        BY <1>0
      <3>. HIDE DEF n
      <3>3. /\ m < Len(sent) /\ Char(1) = sent[m + 1].type /\ Short(2) = sent[m + 1].rid
            /\ Short(4) = Len(sent[m + 1].body) /\ Char(6) = sent[m + 1].psz
        BY <3>1, <3>2, HeaderRead
      <3>4. hdr' = HeaderOf(sent[n + 1])
        BY <2>7, <3>2, <3>3 DEF ParseHeader, HeaderOf
      <3>5. pos' = End(sent, n) + HeaderLen /\ pos' <= arrived'
        BY <1>0, <2>7, <3>1 DEF ParseHeader, HeaderArrived, Needed, Avail, HeaderLen
      <3>. QED BY <1>2, <2>7, <3>2, <3>3, <3>4, <3>5 DEF AtPayload, ParseHeader, n
    <2>8. CASE ParsePayload
      <3>. SUFFICES ASSUME WholeUpTo(n)
                    PROVE  n <= Len(sent) /\ AtPadding(n)'
        BY <1>0, <1>2, <2>1, <2>8
           DEF ParsePayload, AtRecord, AtHeader, AtPayload, AtHandle
      <3>1. n <= Len(sent)
        BY DEF AtRecord
      <3>2. ASSUME WholeUpTo(n + 1)
            PROVE  /\ n < Len(sent) /\ hdr' = HeaderOf(sent[n + 1])
                   /\ pairs' = Content(sent[n + 1]).pairs
                   /\ pos' = End(sent, n) + HeaderLen + hdr'.rsz /\ pos' <= arrived'
        <4>1. /\ pc = "payload" /\ hdr' = hdr /\ arrived' = arrived
              /\ Avail >= hdr.rsz
          BY <2>8 DEF ParsePayload, PayloadArrived, Needed
        <4>2. /\ n < Len(sent) /\ hdr = HeaderOf(sent[n + 1])
              /\ pos = End(sent, n) + HeaderLen
          BY <4>1 DEF AtRecord, AtPayload
        <4>3. PICK r, e : r = sent[n + 1] /\ e = End(sent, n)
          OBVIOUS
        <4>4. Lies(r, e)
          BY <1>0, <4>2, <4>3, RecordLies
        <4>5. Whole(r)
          <5>1. n + 1 \in DOMAIN sent /\ n + 1 \in 1..(n + 1)
            <6>1. DOMAIN sent = 1..Len(sent)
              BY LenProperties DEF TypeOK
            <6>. HIDE DEF n
            <6>. QED BY <1>0, <4>2, <6>1
          <5>. QED BY <3>2, <4>3, <5>1 DEF WholeUpTo
        <4>6. hdr.rsz \in Nat
          BY DEF TypeOK, Header
        <4>7. pos + hdr.rsz <= arrived
          BY <1>0, <4>1, <4>6 DEF Avail
        <4>8. PICK past \in Stray :
                 /\ Nread(past) >= hdr.rsz
                 /\ pos' = pos + Nread(past)
                 /\ pairs' = IF hdr.type \in PairTypes
                             THEN ReadPairs(hdr.rsz, past).pairs ELSE <<>>
          BY <2>8 DEF ParsePayload
        <4>9. Nread(past) = hdr.rsz /\ pairs' = Content(r).pairs
          BY <4>1, <4>2, <4>3, <4>4, <4>5, <4>7, <4>8, PayloadRead
        <4>. QED BY <4>1, <4>2, <4>3, <4>7, <4>8, <4>9
      <3>. QED BY <1>2, <2>1, <2>8, <3>1, <3>2 DEF AtPadding, ParsePayload
    <2>9. CASE ParsePadding
      <3>1. /\ pc = "padding" /\ pc' = "handle" /\ UNCHANGED <<hdr, arrived>>
            /\ Avail >= hdr.psz /\ pos' = pos + hdr.psz
        BY <2>9 DEF ParsePadding, Needed
      <3>2. Len(parsed') = n + 1
        <4>1. parsed' = Append(parsed, [type |-> hdr.type, size |-> hdr.rsz, pairs |-> pairs])
          BY <2>9 DEF ParsePadding
        <4>. QED BY <4>1 DEF TypeOK
      <3>. SUFFICES ASSUME WholeUpTo(n + 1)
                    PROVE  /\ n + 1 <= Len(sent) /\ n + 1 > 0
                           /\ hdr = HeaderOf(sent[n + 1])
                           /\ pos' = End(sent, n + 1) /\ pos' <= arrived
        BY <1>2, <2>1, <3>1, <3>2 DEF AtRecord, AtHeader, AtPayload, AtPadding, AtHandle
      <3>3. WholeUpTo(n)
        <4>. HIDE DEF n
        <4>. QED BY <1>0 DEF WholeUpTo
      <3>4. /\ n < Len(sent) /\ hdr = HeaderOf(sent[n + 1])
            /\ pos = End(sent, n) + HeaderLen + hdr.rsz
        BY <3>1, <3>3 DEF AtRecord, AtPadding
      <3>5. PICK r, e : r = sent[n + 1] /\ e = End(sent, n)
        OBVIOUS
      <3>6. Lies(r, e) /\ End(sent, n + 1) = e + HeaderLen + Len(r.body) + r.psz
        BY <1>0, <3>4, <3>5, RecordLies
      <3>7. hdr.rsz = Len(r.body) /\ hdr.psz = r.psz /\ hdr.psz \in Nat /\ hdr.rsz \in Nat
        BY <3>4, <3>5, <3>6 DEF HeaderOf, Lies
      <3>8. pos' = End(sent, n + 1) /\ pos' <= arrived
        <4>1. pos' = End(sent, n + 1)
          BY <3>1, <3>4, <3>5, <3>6, <3>7
        <4>2. pos' <= arrived
          BY <1>0, <3>1, <3>7 DEF Avail
        <4>. QED BY <4>1, <4>2
      <3>. HIDE DEF n
      <3>. QED BY <1>0, <3>4, <3>8
    <2>10. CASE RenderStdout
      BY <1>0, <2>2, <2>10 DEF RenderStdout, input
    <2>11. CASE Answer
      <3>. SUFFICES ASSUME WholeUpTo(n)
                    PROVE  n <= Len(sent) /\ arrived = End(sent, n)
        BY <1>0, <1>2, <2>1, <2>11 DEF Answer, AtRecord, AtHeader, AtPayload, AtPadding, AtHandle
      <3>1. Ending
        BY <2>11 DEF Answer, Handling, Ending
      <3>. QED BY <3>1, EndIsLast DEF AtRecord
    <2>12. CASE GetValues \/ Reply \/ Return
      <3>1. /\ pc = "handle" /\ pc' \in {"header", "aborted", "closed"}
            /\ UNCHANGED <<arrived, pos, hdr, pairs, parsed>>
        <4>1. CASE GetValues
          <5>1. pc' \in {"header", "aborted", "closed"}
            BY <4>1 DEF GetValues
          <5>. QED BY <4>1, <5>1 DEF GetValues, Handling
        <4>2. CASE Reply \/ Return
          BY <4>2 DEF Reply, Return, Handling
        <4>. QED BY <2>12, <4>1, <4>2
      <3>. QED BY <1>2, <2>1, <3>1 DEF AtRecord, AtHeader, AtPayload, AtPadding, AtHandle
    <2>. QED BY <1>1, <2>4, <2>5, <2>6, <2>7, <2>8, <2>9, <2>10, <2>11, <2>12
         DEF Next, Parse, Handle
  <1>. QED BY <1>1, <1>2 DEF Next, Parse, Handle, vars, input, Consume, ParseHeader, HeaderRefused,
           ParsePayload, PayloadRefused, PayloadAborts, ParsePadding, ConsumeFails, Refuse,
           RenderStdout, Answer, Reply, Return, WriteEnd, GetValues

\* Up to a record further, as many requests have ended or more.
LEMMA EndedGrows ==
  ASSUME TypeOK, NEW k \in Int, NEW l \in Int, k <= l
  PROVE  /\ IsFiniteSet(EndedUpTo(k)) /\ IsFiniteSet({i \in DOMAIN sent : EndsRequest(sent[i])})
         /\ EndedUpTo(k) \subseteq {i \in DOMAIN sent : EndsRequest(sent[i])}
         /\ Cardinality(EndedUpTo(k)) \in Nat
         /\ Cardinality(EndedUpTo(k)) <= Cardinality(EndedUpTo(l))
         /\ Cardinality(EndedUpTo(k)) <= Requests
         /\ Cardinality(EndedUpTo(k)) = Requests =>
               EndedUpTo(k) = {i \in DOMAIN sent : EndsRequest(sent[i])}
  <1>. DEFINE A == {i \in DOMAIN sent : EndsRequest(sent[i])}
  <1>1. DOMAIN sent = 1..Len(sent) /\ Len(sent) \in Nat
    BY LenProperties DEF TypeOK
  <1>2. IsFiniteSet(DOMAIN sent)
    BY <1>1, FS_Interval
  <1>3. IsFiniteSet(A) /\ IsFiniteSet(EndedUpTo(l))
    <2>1. A \subseteq DOMAIN sent /\ EndedUpTo(l) \subseteq DOMAIN sent
      BY DEF EndedUpTo
    <2>. QED BY <1>2, <2>1, FS_Subset
  <1>4. EndedUpTo(k) \subseteq A /\ EndedUpTo(k) \subseteq EndedUpTo(l)
    BY <1>1 DEF EndedUpTo
  <1>. HIDE DEF A
  <1>5. /\ IsFiniteSet(EndedUpTo(k)) /\ Cardinality(EndedUpTo(k)) <= Cardinality(EndedUpTo(l))
        /\ Cardinality(EndedUpTo(k)) <= Cardinality(A)
        /\ Cardinality(EndedUpTo(k)) = Cardinality(A) => EndedUpTo(k) = A
    BY <1>3, <1>4, FS_Subset
  <1>6. Cardinality(EndedUpTo(k)) \in Nat
    BY <1>5, FS_CardinalityType
  <1>. QED BY <1>3, <1>4, <1>5, <1>6 DEF Requests, A

\* The answer counted is that of the record that has been handled.
LEMMA AnsweredStep ==
  ASSUME TypeOK, StreamOfSent, AtRecord, AnsweredInOrder, [Next]_vars, ~early, ~early'
  PROVE  AnsweredInOrder'
  <1>. DEFINE n == Len(parsed)
  <1>0. n \in Nat /\ Len(sent) \in Nat /\ DOMAIN sent = 1..Len(sent) /\ Done \in Int /\ answered \in Nat
        /\ n - 1 <= Done /\ Done <= n
    BY LenProperties DEF TypeOK, Done
  <1>1. CASE Send
    <2>1. /\ Len(sent') = Len(sent) + 1 /\ DOMAIN sent' = 1..Len(sent')
          /\ \A i \in 1..Len(sent) : sent'[i] = sent[i]
          /\ \A k : WholeUpTo(k)' => WholeUpTo(k)
          /\ UNCHANGED <<input, answered>>
      BY <1>1, SendKeeps
    <2>2. Done' = Done /\ Len(parsed') = n
      BY <2>1 DEF Done, input
    <2>. SUFFICES ASSUME WholeUpTo(n)
                  PROVE  /\ answered <= Cardinality(EndedUpTo(Done)')
                         /\ \A i \in DOMAIN sent' :
                               EndsRequest(sent'[i]) /\ i > Done => i = Len(sent')
      BY <2>1, <2>2 DEF AnsweredInOrder, EndedUpTo
    <2>3. n <= Len(sent) /\ answered <= Cardinality(EndedUpTo(Done))
      BY DEF AtRecord, AnsweredInOrder
    <2>4. EndedUpTo(Done)' = EndedUpTo(Done)
      <3>. DEFINE d == Done
      <3>1. {i \in DOMAIN sent' : i <= d /\ EndsRequest(sent'[i])}
               = {i \in DOMAIN sent : i <= d /\ EndsRequest(sent[i])}
        <4>1. d \in Int /\ d <= Len(sent)
          <5>. HIDE DEF n, d
          <5>. QED BY <1>0, <2>3 DEF d
        <4>. HIDE DEF d, n
        <4>2. \A i : i \in DOMAIN sent' /\ i <= d <=> i \in DOMAIN sent /\ i <= d
          BY <1>0, <2>1, <4>1
        <4>3. \A i \in DOMAIN sent : sent'[i] = sent[i]
          BY <1>0, <2>1
        <4>. QED BY <4>2, <4>3
      <3>. QED BY <2>2, <3>1 DEF EndedUpTo
    <2>5. ASSUME NEW i \in DOMAIN sent', EndsRequest(sent'[i]), i > Done, i # Len(sent')
          PROVE  FALSE
      <3>1. Requests = answered
        BY <1>1 DEF Send
      <3>2. EndedUpTo(Done) = {j \in DOMAIN sent : EndsRequest(sent[j])}
        <4>1. PICK d \in Int : d = Done
          BY <1>0
        <4>2. /\ Cardinality(EndedUpTo(d)) \in Nat
              /\ Cardinality(EndedUpTo(d)) <= Requests
              /\ Cardinality(EndedUpTo(d)) = Requests =>
                    EndedUpTo(d) = {j \in DOMAIN sent : EndsRequest(sent[j])}
          <5>1. d <= d
            OBVIOUS
          <5>. QED BY <5>1, EndedGrows
        <4>. HIDE DEF n
        <4>3. Cardinality(EndedUpTo(d)) = Requests
          BY <1>0, <2>3, <3>1, <4>1, <4>2
        <4>. QED BY <4>1, <4>2, <4>3
      <3>3. i \in DOMAIN sent /\ EndsRequest(sent[i])
        <4>. HIDE DEF n
        <4>. QED BY <1>0, <2>1, <2>5
      <3>4. i \in EndedUpTo(Done)
        BY <3>2, <3>3
      <3>5. i <= Done
        BY <3>4 DEF EndedUpTo
      <3>. HIDE DEF n
      <3>. QED BY <1>0, <2>5, <3>3, <3>5
    <2>. QED BY <2>3, <2>4, <2>5
  <1>2. ASSUME UNCHANGED <<sent, stream, answered>>,
               \/ parsed' = parsed /\ Done' >= Done
               \/ ParsePadding
        PROVE  AnsweredInOrder'
    <2>1. \A k : WholeUpTo(k)' <=> WholeUpTo(k)
      BY <1>2, NothingSent
    <2>2. WholeUpTo(Len(parsed')) => WholeUpTo(n)
      <3>1. CASE parsed' = parsed
        BY <3>1
      <3>2. CASE ParsePadding
        <4>1. Len(parsed') = n + 1
          <5>1. parsed' = Append(parsed, [type |-> hdr.type, size |-> hdr.rsz, pairs |-> pairs])
            BY <3>2 DEF ParsePadding
          <5>. QED BY <5>1 DEF TypeOK
        <4>. HIDE DEF n
        <4>. QED BY <1>0, <4>1 DEF WholeUpTo
      <3>. QED BY <1>2, <3>1, <3>2
    <2>3. Done' \in Int /\ Done' >= Done
      <3>1. CASE parsed' = parsed
        BY <1>0, <1>2, <3>1 DEF Done, ParsePadding
      <3>2. CASE ParsePadding
        <4>1. Len(parsed') = n + 1
          <5>1. parsed' = Append(parsed, [type |-> hdr.type, size |-> hdr.rsz, pairs |-> pairs])
            BY <3>2 DEF ParsePadding
          <5>. QED BY <5>1 DEF TypeOK
        <4>2. Done' = n /\ Done = n
          BY <1>0, <3>2, <4>1 DEF Done, ParsePadding
        <4>. QED BY <1>0, <4>2
      <3>. QED BY <1>2, <3>1, <3>2
    <2>. SUFFICES ASSUME WholeUpTo(n)
                  PROVE  /\ answered <= Cardinality(EndedUpTo(Done)')
                         /\ \A i \in DOMAIN sent :
                               EndsRequest(sent[i]) /\ i > Done' => i = Len(sent)
      BY <1>2, <2>1, <2>2 DEF AnsweredInOrder
    <2>4. PICK d \in Int, e \in Int : d = Done /\ e = Done'
      BY <1>0, <2>3
    <2>5. EndedUpTo(Done)' = EndedUpTo(e)
      BY <1>2, <2>4 DEF EndedUpTo
    <2>6. /\ Cardinality(EndedUpTo(d)) \in Nat /\ Cardinality(EndedUpTo(e)) \in Nat
          /\ Cardinality(EndedUpTo(d)) <= Cardinality(EndedUpTo(e))
      <3>1. d <= e /\ e <= e
        BY <2>3, <2>4
      <3>2. /\ Cardinality(EndedUpTo(d)) \in Nat
            /\ Cardinality(EndedUpTo(d)) <= Cardinality(EndedUpTo(e))
        BY <3>1, EndedGrows
      <3>3. Cardinality(EndedUpTo(e)) \in Nat
        BY <3>1, EndedGrows
      <3>. QED BY <3>2, <3>3
    <2>7. answered <= Cardinality(EndedUpTo(d))
      BY <2>4 DEF AnsweredInOrder
    <2>8. \A i \in DOMAIN sent : EndsRequest(sent[i]) /\ i > d => i = Len(sent)
      BY <2>4 DEF AnsweredInOrder
    <2>. HIDE DEF n
    <2>9. answered <= Cardinality(EndedUpTo(e))
      BY <1>0, <2>6, <2>7
    <2>10. \A i \in DOMAIN sent : i > e => i > d
      BY <1>0, <2>3, <2>4
    <2>. QED BY <2>4, <2>5, <2>8, <2>9, <2>10
  <1>3. ASSUME Answer \/ Reply, Ending
        PROVE  AnsweredInOrder'
    <2>1. /\ UNCHANGED <<sent, stream, parsed>> /\ Ending /\ pc = "handle" /\ pc' = "header"
          /\ answered' \in {answered, answered + 1}
      BY <1>3 DEF Answer, Reply, WriteEnd, Ending
    <2>2. \A k : WholeUpTo(k)' <=> WholeUpTo(k)
      BY <2>1, NothingSent
    <2>3. Done = n - 1 /\ Done' = n
      BY <2>1 DEF Done
    <2>. SUFFICES ASSUME WholeUpTo(n)
                  PROVE  /\ answered' <= Cardinality(EndedUpTo(n))
                         /\ \A i \in DOMAIN sent : ~(i > n)
      BY <2>1, <2>2, <2>3 DEF AnsweredInOrder, EndedUpTo
    <2>4. n \in Nat \ {0} /\ n = Len(sent) /\ EndsRequest(sent[n])
      BY <2>1, EndIsLast
    <2>5. answered <= Cardinality(EndedUpTo(n - 1))
      BY <2>3 DEF AnsweredInOrder
    <2>6. PICK m \in Nat \ {0} : m = n
      BY <2>4
    <2>. HIDE DEF n
    <2>7. Cardinality(EndedUpTo(m)) = Cardinality(EndedUpTo(m - 1)) + 1
      <3>1. EndedUpTo(m) = EndedUpTo(m - 1) \cup {m} /\ m \notin EndedUpTo(m - 1)
        BY <1>0, <2>4, <2>6 DEF EndedUpTo
      <3>2. IsFiniteSet(EndedUpTo(m - 1))
        <4>1. m - 1 \in Int /\ m - 1 <= m - 1
          OBVIOUS
        <4>. QED BY <4>1, EndedGrows
      <3>. QED BY <3>1, <3>2, FS_AddElement
    <2>8. Cardinality(EndedUpTo(m - 1)) \in Nat
      <3>1. m - 1 \in Int /\ m - 1 <= m - 1
        OBVIOUS
      <3>. QED BY <3>1, EndedGrows
    <2>. QED BY <1>0, <2>1, <2>4, <2>5, <2>6, <2>7, <2>8
  <1>4. ASSUME UNCHANGED <<sent, stream, answered, parsed>>, pc' = pc \/ pc' # "handle"
        PROVE  AnsweredInOrder'
    <2>1. Done' >= Done
      BY <1>0, <1>4 DEF Done
    <2>. QED BY <1>2, <1>4, <2>1
  <1>5. CASE ParsePadding
    BY <1>2, <1>5 DEF ParsePadding
  <1>6. CASE ParseHeader \/ HeaderRefused \/ ParsePayload \/ PayloadRefused \/ PayloadAborts
             \/ ConsumeFails \/ Return \/ Consume \/ RenderStdout \/ UNCHANGED vars
    <2>1. UNCHANGED <<sent, stream, answered, parsed>> /\ (pc' = pc \/ pc' # "handle")
      BY <1>6 DEF ParseHeader, HeaderRefused, ParsePayload, PayloadRefused, PayloadAborts,
                  ConsumeFails, Return, Consume, RenderStdout, Refuse, vars, input
    <2>. QED BY <1>4, <2>1
  <1>7. CASE GetValues
    <2>1. UNCHANGED <<sent, stream, answered, parsed>> /\ pc' \in {"aborted", "header", "closed"}
      BY <1>7 DEF GetValues
    <2>. QED BY <1>4, <2>1
  <1>8. CASE Answer
    BY <1>3, <1>8 DEF Answer, Handling, Ending
  <1>9. CASE Reply
    <2>1. CASE Ending
      BY <1>3, <1>9, <2>1
    <2>2. CASE ~Ending
      BY <1>4, <1>9, <2>2 DEF Reply, Handling, WriteEnd, Ending
    <2>. QED BY <2>1, <2>2
  <1>. QED BY <1>1, <1>5, <1>6, <1>7, <1>8, <1>9 DEF Next, Parse, Handle

\* What is parsed is the next record sent.
LEMMA InSyncStep ==
  ASSUME TypeOK, StreamOfSent, AtRecord, InSync, [Next]_vars, ~early, ~early'
  PROVE  InSync'
  <1>. DEFINE n == Len(parsed)
  <1>0. n \in Nat /\ DOMAIN parsed = 1..n /\ DOMAIN sent = 1..Len(sent) /\ Len(sent) \in Nat
    BY LenProperties DEF TypeOK
  <1>1. CASE Send
    <2>1. /\ \A i \in DOMAIN sent : i \in DOMAIN sent' /\ sent'[i] = sent[i]
          /\ \A k : WholeUpTo(k)' => WholeUpTo(k)
          /\ parsed' = parsed
      <3>1. /\ Len(sent') = Len(sent) + 1 /\ DOMAIN sent' = 1..Len(sent')
            /\ \A i \in 1..Len(sent) : sent'[i] = sent[i]
            /\ \A k : WholeUpTo(k)' => WholeUpTo(k)
            /\ UNCHANGED input
        BY <1>1, SendKeeps
      <3>. QED BY <1>0, <3>1 DEF input
    <2>. QED BY <2>1 DEF InSync
  <1>2. CASE UNCHANGED <<sent, stream, parsed>>
    BY <1>2, NothingSent DEF InSync
  <1>3. CASE ParsePadding
    <2>. DEFINE p == [type |-> hdr.type, size |-> hdr.rsz, pairs |-> pairs]
    <2>1. UNCHANGED <<sent, stream>> /\ parsed' = Append(parsed, p) /\ pc = "padding"
      BY <1>3 DEF ParsePadding
    <2>2. \A k : WholeUpTo(k)' <=> WholeUpTo(k)
      BY <2>1, NothingSent
    <2>. HIDE DEF p
    <2>3. /\ DOMAIN parsed' = 1..(n + 1) /\ parsed'[n + 1] = p
          /\ \A i \in 1..n : parsed'[i] = parsed[i]
      BY <1>0, <2>1 DEF TypeOK
    <2>4. ASSUME WholeUpTo(n + 1)
          PROVE  n + 1 \in DOMAIN sent /\ p = Content(sent[n + 1])
      <3>1. WholeUpTo(n)
        <4>. HIDE DEF n
        <4>. QED BY <1>0, <2>4 DEF WholeUpTo
      <3>2. /\ n < Len(sent) /\ hdr = HeaderOf(sent[n + 1])
            /\ pairs = Content(sent[n + 1]).pairs
        BY <2>1, <2>4, <3>1 DEF AtRecord, AtPadding
      <3>3. n + 1 \in DOMAIN sent
        <4>. HIDE DEF n
        <4>. QED BY <1>0, <3>2
      <3>4. PICK r : r = sent[n + 1]
        OBVIOUS
      <3>5. p = Content(r)
        BY <3>2, <3>4 DEF p, Content, HeaderOf
      <3>. QED BY <3>3, <3>4, <3>5
    <2>5. \A i \in 1..n : WholeUpTo(i) => i \in DOMAIN sent /\ parsed[i] = Content(sent[i])
      BY <1>0 DEF InSync
    <2>6. \A i \in 1..(n + 1) : i \in 1..n \/ i = n + 1
      <3>. HIDE DEF n
      <3>. QED BY <1>0
    <2>. QED BY <2>1, <2>2, <2>3, <2>4, <2>5, <2>6 DEF InSync
  <1>. QED BY <1>1, <1>2, <1>3
       DEF Next, Parse, Handle, vars, input, Consume, ParseHeader, HeaderRefused, ParsePayload,
           PayloadRefused, PayloadAborts, ConsumeFails, Refuse, RenderStdout, Answer, Reply,
           Return, GetValues

\* Refusals are of records that are to be refused.
LEMMA RefusedStep ==
  ASSUME TypeOK, KnownType, StreamOfSent, AtRecord, RefusedRightly, [Next]_vars,
         ~early, ~early'
  PROVE  RefusedRightly'
  <1>. DEFINE n == Len(parsed)
              Bad(r) == \/ r.type \in {END_REQUEST, STDOUT, STDERR}
                        \/ r.type \notin 1..UNKNOWN_TYPE
                        \/ (r.rid = 0) # (r.type \in Management)
                        \/ r.type = ABORT_REQUEST /\ r.body # <<>>
  <1>0. n \in Nat /\ DOMAIN sent = 1..Len(sent) /\ Len(sent) \in Nat
    BY LenProperties DEF TypeOK
  <1>1. RefusedRightly <=> (pc = "refused" /\ WholeUpTo(n + 1) =>
                               n + 1 \in DOMAIN sent /\ Bad(sent[n + 1]))
    BY DEF RefusedRightly
  <1>2. WholeUpTo(n + 1) => WholeUpTo(n)
    <2>. HIDE DEF n
    <2>. QED BY <1>0 DEF WholeUpTo
  <1>3. n < Len(sent) => n + 1 \in DOMAIN sent
    <2>. HIDE DEF n
    <2>. QED BY <1>0
  <1>4. CASE Send
    <2>1. /\ \A i \in DOMAIN sent : i \in DOMAIN sent' /\ sent'[i] = sent[i]
          /\ \A k : WholeUpTo(k)' => WholeUpTo(k)
          /\ UNCHANGED <<parsed, pc>>
      <3>1. /\ Len(sent') = Len(sent) + 1 /\ DOMAIN sent' = 1..Len(sent')
            /\ \A i \in 1..Len(sent) : sent'[i] = sent[i]
            /\ \A k : WholeUpTo(k)' => WholeUpTo(k)
            /\ UNCHANGED input
        BY <1>4, SendKeeps
      <3>. QED BY <1>0, <3>1 DEF input
    <2>. QED BY <2>1 DEF RefusedRightly
  <1>5. CASE HeaderRefused
    <2>1. HeaderArrived /\ ~HeaderAccepted /\ pc = "header" /\ UNCHANGED <<sent, stream, parsed>>
      BY <1>5 DEF HeaderRefused, HeaderArrived, Refuse
    <2>2. \A k : WholeUpTo(k)' <=> WholeUpTo(k)
      BY <2>1, NothingSent
    <2>. SUFFICES ASSUME WholeUpTo(n + 1)
                  PROVE  n + 1 \in DOMAIN sent /\ Bad(sent[n + 1])
      BY <2>1, <2>2 DEF RefusedRightly
    <2>3. n <= Len(sent) /\ pos = End(sent, n)
      BY <1>2, <2>1 DEF AtRecord, AtHeader
    <2>4. PICK m \in Nat : m = n
      BY <1>0
    <2>. HIDE DEF n
    <2>5. /\ m < Len(sent) /\ Char(0) = 1 /\ Char(1) = sent[m + 1].type
          /\ Short(2) = sent[m + 1].rid
      BY <2>1, <2>3, <2>4, HeaderRead
    <2>. QED BY <1>3, <2>1, <2>4, <2>5 DEF HeaderAccepted
  <1>6. CASE PayloadRefused
    <2>1. /\ pc = "payload" /\ Avail >= hdr.rsz /\ hdr.type # UNKNOWN_TYPE
          /\ UNCHANGED <<sent, stream, parsed>>
      BY <1>6 DEF PayloadRefused, PayloadArrived, Needed, Refuse
    <2>2. \A k : WholeUpTo(k)' <=> WholeUpTo(k)
      BY <2>1, NothingSent
    <2>. SUFFICES ASSUME WholeUpTo(n + 1)
                  PROVE  n + 1 \in DOMAIN sent /\ Bad(sent[n + 1])
      BY <2>1, <2>2 DEF RefusedRightly
    <2>3. n < Len(sent) /\ hdr = HeaderOf(sent[n + 1]) /\ pos = End(sent, n) + HeaderLen
      BY <1>2, <2>1 DEF AtRecord, AtPayload
    <2>4. PICK r, e : r = sent[n + 1] /\ e = End(sent, n)
      OBVIOUS
    <2>5. Lies(r, e)
      BY <1>0, <2>3, <2>4, RecordLies
    <2>6. Whole(r)
      <3>1. n + 1 \in DOMAIN sent /\ n + 1 \in 1..(n + 1)
        <4>. HIDE DEF n
        <4>. QED BY <1>0, <1>3, <2>3
      <3>. QED BY <2>4, <3>1 DEF WholeUpTo
    <2>7. pos + hdr.rsz <= arrived
      <3>1. hdr.rsz \in Nat /\ arrived \in Nat /\ pos \in Nat
        BY LenProperties DEF TypeOK, Header
      <3>. QED BY <2>1, <3>1 DEF Avail
    <2>8. PICK past \in Stray : Nread(past) < hdr.rsz
      BY <1>6 DEF PayloadRefused
    <2>9. \/ r.type \in {END_REQUEST, STDOUT, STDERR, UNKNOWN_TYPE}
          \/ r.type = ABORT_REQUEST /\ r.body # <<>>
      BY <2>1, <2>3, <2>4, <2>5, <2>6, <2>7, <2>8, PayloadRead
    <2>10. r.type # UNKNOWN_TYPE
      BY <2>1, <2>3, <2>4 DEF HeaderOf
    <2>. QED BY <1>3, <2>3, <2>4, <2>9, <2>10
  <1>7. CASE UNCHANGED <<sent, stream, parsed, pc>>
    BY <1>7, NothingSent DEF RefusedRightly
  <1>8. ASSUME pc' # "refused"
        PROVE  RefusedRightly'
    BY <1>8 DEF RefusedRightly
  <1>9. CASE GetValues
    <2>1. pc' \in {"aborted", "header", "closed"}
      BY <1>9 DEF GetValues
    <2>. QED BY <1>8, <2>1
  <1>. QED BY <1>4, <1>5, <1>6, <1>7, <1>8, <1>9
       DEF Next, Parse, Handle, vars, input, Consume, ParseHeader, ParsePayload, ParsePadding,
           PayloadAborts, ConsumeFails, RenderStdout, Answer, Reply, Return

-----------------------------------------------------------------------------
(* Theorems                                                                *)

\* The stream is the bytes of the records sent, at any time.
LEMMA StreamStep ==
  ASSUME TypeOK, StreamOfSent, [Next]_vars
  PROVE  StreamOfSent'
  <1>1. CASE Send
    BY <1>1, SendKeeps
  <1>2. CASE UNCHANGED <<sent, stream>>
    BY <1>2, NothingSent
  <1>. QED BY <1>1, <1>2
       DEF Next, Parse, Handle, vars, input, Consume, ParseHeader, HeaderRefused, ParsePayload,
           PayloadRefused, PayloadAborts, ParsePadding, ConsumeFails, Refuse, RenderStdout,
           Answer, Reply, Return, GetValues

\* An early answer is not forgotten.
LEMMA EarlyStays ==
  ASSUME TypeOK, [Next]_vars, ~early'
  PROVE  ~early
  BY DEF TypeOK, Next, Parse, Handle, vars, input, Send, Consume, ParseHeader, HeaderRefused,
     ParsePayload, PayloadRefused, PayloadAborts, ParsePadding, ConsumeFails, Refuse, RenderStdout,
     Answer, Reply, Return, GetValues

\* At first nothing has been sent, and nothing is to be read.
LEMMA WireInit ==
  ASSUME Init
  PROVE  WireIInv
  <1>1. TypesInv
    BY TypesInit
  <1>2. /\ sent = <<>> /\ stream = <<>> /\ parsed = <<>> /\ pc = "header" /\ pos = 0
        /\ arrived = 0 /\ answered = 0
    BY DEF Init
  <1>3. End(sent, 0) = 0 /\ Len(sent) = 0 /\ DOMAIN sent = {} /\ Len(parsed) = 0 /\ Len(stream) = 0
    <2>1. sent \in Seq(Wire)
      BY <1>1 DEF TypesInv, TypeOK
    <2>2. End(sent, 0) = 0
      BY <2>1, Ends
    <2>. QED BY <1>2, <2>2
  <1>4. StreamOfSent
    BY <1>3 DEF StreamOfSent
  <1>5. AtRecord
    BY <1>2, <1>3 DEF AtRecord, AtHeader, AtPayload, AtPadding, AtHandle
  <1>6. AnsweredInOrder
    <2>1. EndedUpTo(Done) = {}
      BY <1>3 DEF EndedUpTo
    <2>2. Cardinality({}) = 0
      BY FS_EmptySet
    <2>. QED BY <1>2, <1>3, <2>1, <2>2 DEF AnsweredInOrder
  <1>7. InSync /\ RefusedRightly
    BY <1>2 DEF InSync, RefusedRightly
  <1>. QED BY <1>1, <1>4, <1>5, <1>6, <1>7 DEF TypesInv, WireIInv

\* The inductive invariant holds of every run: whatever records are sent, cut as they
\* may be, and whatever is rendered.
THEOREM WireInvariant == Spec => []WireIInv
  <1>1. Init => WireIInv
    BY WireInit
  <1>2. WireIInv /\ [Next]_vars => WireIInv'
    <2>. SUFFICES ASSUME WireIInv, [Next]_vars
                  PROVE  WireIInv'
      OBVIOUS
    <2>1. TypesInv'
      BY TypesStep DEF WireIInv, TypesInv
    <2>2. StreamOfSent'
      BY StreamStep DEF WireIInv
    <2>3. AtRecord' /\ AnsweredInOrder' /\ InSync' /\ RefusedRightly'
      <3>1. CASE early'
        BY <3>1 DEF AtRecord, AnsweredInOrder, InSync, RefusedRightly
      <3>2. CASE ~early'
        <4>1. ~early
          BY <3>2, EarlyStays DEF WireIInv
        <4>. QED BY <3>2, <4>1, AtRecordStep, AnsweredStep, InSyncStep, RefusedStep DEF WireIInv
      <3>. QED BY <3>1, <3>2
    <2>. QED BY <2>1, <2>2, <2>3 DEF WireIInv, TypesInv
  <1>. QED BY <1>1, <1>2, PTL DEF Spec

\* The variables have their types: the position never becomes negative, and what
\* is rendered fits the fields of its header.
THEOREM WireTypeCorrect == Spec => []TypeOK
  <1>1. WireIInv => TypeOK
    BY DEF WireIInv
  <1>. QED BY <1>1, WireInvariant, PTL

\* mnfcgi_parse returns the records that were sent, in their order and with their
\* contents, up to the first it cannot read, however the input is cut into pieces
\* and although an answer throws away what has arrived: until a request is answered
\* or aborted before its last record.
THEOREM StaysInSync == Spec => []InSync
  <1>1. WireIInv => InSync
    BY DEF WireIInv
  <1>. QED BY <1>1, WireInvariant, PTL

\* Of the records it can read it refuses only those it is to refuse, with the same
\* limit: the tail of a record cut by an early answer may be refused.
THEOREM RefusesRightly == Spec => []RefusedRightly
  <1>1. WireIInv => RefusedRightly
    BY DEF WireIInv
  <1>. QED BY <1>1, WireInvariant, PTL

\* A record rendered without failure is as long as its header says, on a multiple
\* of 8, whatever the size of its payload.
THEOREM RecordsFramed == Spec => []Framed
  <1>1. WireIInv => Framed
    BY DEF WireIInv
  <1>. QED BY <1>1, WireInvariant, PTL

=============================================================================
