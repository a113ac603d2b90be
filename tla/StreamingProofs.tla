-------------------------- MODULE StreamingProofs --------------------------
(***************************************************************************)
(* Theorems about Streaming, for every kind of provider, every number of   *)
(* chunks, frames, queues and barge-ins, and every size of the buffers.    *)
(***************************************************************************)
EXTENDS Streaming, TLAPS, SequenceTheorems, FiniteSetTheorems

\* Tuples of variables are expanded everywhere.
USE DEF feedVars, taskVars, bufVars, callVars, outVars, stopVars
-----------------------------------------------------------------------------
(* Buffers and the frames in them *)

\* More may be put behind what is there.
Unended(b) == b = <<>> \/ b[Len(b)] # End

LEMMA Parameters ==
  /\ MaxChunks \in Nat /\ MaxQueues \in Nat \ {0} /\ JitterSize \in Nat \ {0}
  /\ FramesPerChunk \in Nat \ {0} /\ MaxErrors \in Nat /\ MaxStops \in Nat
BY StreamingAssumption

LEMMA NoItems ==
  ASSUME NEW b \in Seq(Chunks \cup {End})
  PROVE  Len(b) \in Nat /\ (b = <<>> <=> Len(b) = 0)
BY EmptySeq

LEMMA EmptyBuffer == <<>> \in Buffers /\ Unended(<<>>) /\ Len(<<>>) = 0
BY EmptySeq DEF Buffers, Unended

LEMMA AppendBuffer ==
  ASSUME NEW b \in Buffers, Unended(b), NEW x \in Chunks \cup {End}
  PROVE  /\ Append(b, x) \in Buffers /\ Len(Append(b, x)) = Len(b) + 1
         /\ x # End => Unended(Append(b, x))
<1>1. b \in Seq(Chunks \cup {End}) /\ Len(b) \in Nat  BY LenProperties DEF Buffers
<1>2. /\ Append(b, x) \in Seq(Chunks \cup {End})
      /\ Len(Append(b, x)) = Len(b) + 1
      /\ \A i \in 1..Len(b) : Append(b, x)[i] = b[i]
      /\ Append(b, x)[Len(b) + 1] = x
  BY <1>1, AppendProperties
<1>3. ASSUME NEW i \in 1..Len(b) PROVE Append(b, x)[i] # End
  <2>1. b # <<>>  BY <1>1, <1>3, EmptySeq
  <2>2. CASE i = Len(b)  BY <1>2, <2>1, <2>2 DEF Unended
  <2>3. CASE i \in 1..(Len(b) - 1)  BY <1>2, <2>3 DEF Buffers
  <2>. QED  BY <1>1, <2>2, <2>3
<1>4. \A i \in 1..(Len(Append(b, x)) - 1) : Append(b, x)[i] # End  BY <1>1, <1>2, <1>3
<1>5. Append(b, x) \in Buffers  BY <1>2, <1>4 DEF Buffers
<1>6. x # End => Unended(Append(b, x))  BY <1>2 DEF Unended
<1>. QED  BY <1>2, <1>5, <1>6

LEMMA TailBuffer ==
  ASSUME NEW b \in Buffers, b # <<>>
  PROVE  /\ Len(b) \in Nat \ {0} /\ Head(b) = b[1] /\ Head(b) \in Chunks \cup {End}
         /\ Tail(b) \in Buffers /\ Len(Tail(b)) = Len(b) - 1
         /\ \A i \in 1..(Len(b) - 1) : Tail(b)[i] = b[i + 1]
         /\ Unended(b) => Head(b) # End /\ Unended(Tail(b))
         /\ Head(b) = End => Tail(b) = <<>>
<1>1. b \in Seq(Chunks \cup {End})  BY DEF Buffers
<1>2. Len(b) \in Nat \ {0}  BY <1>1, EmptySeq
<1>3. /\ Head(b) \in Chunks \cup {End} /\ Tail(b) \in Seq(Chunks \cup {End})
      /\ Len(Tail(b)) = Len(b) - 1
      /\ \A i \in 1..Len(Tail(b)) : Tail(b)[i] = b[i + 1]
  BY <1>1, HeadTailProperties
<1>4. Head(b) = b[1]  BY <1>1
<1>9. Len(b) = 1 => Tail(b) = <<>>
  <2>1. PICK t \in Seq(Chunks \cup {End}) : t = Tail(b) /\ Len(t) = Len(b) - 1  BY <1>3
  <2>. QED  BY <2>1, NoItems
<1>5. \A i \in 1..(Len(b) - 1) : b[i] # End  BY DEF Buffers
<1>6. Tail(b) \in Buffers
  <2>1. ASSUME NEW i \in 1..(Len(Tail(b)) - 1) PROVE Tail(b)[i] # End
    <3>1. i \in 1..Len(Tail(b)) /\ i + 1 \in 1..(Len(b) - 1)  BY <1>2, <1>3
    <3>. QED  BY <1>3, <1>5, <3>1
  <2>. QED  BY <1>3, <2>1 DEF Buffers
<1>7. Unended(b) => Head(b) # End /\ Unended(Tail(b))
  <2>. SUFFICES ASSUME b[Len(b)] # End PROVE Head(b) # End /\ Unended(Tail(b))
    BY DEF Unended
  <2>1. b[1] # End  BY <1>2, <1>5
  <2>2. CASE Len(b) = 1
    <3>1. Tail(b) = <<>>  BY <1>9, <2>2
    <3>. QED  BY <1>4, <2>1, <3>1 DEF Unended
  <2>3. CASE Len(b) > 1
    <3>1. Tail(b)[Len(Tail(b))] = b[Len(b)]  BY <1>2, <1>3, <2>3
    <3>. QED  BY <1>4, <2>1, <3>1 DEF Unended
  <2>. QED  BY <1>2, <2>2, <2>3
<1>8. Head(b) = End => Tail(b) = <<>>
  <2>. SUFFICES ASSUME b[1] = End PROVE Tail(b) = <<>>  BY <1>4
  <2>1. ASSUME 1 \in 1..(Len(b) - 1) PROVE FALSE  BY <1>5, <2>1
  <2>2. Len(b) = 1  BY <1>2, <2>1
  <2>. QED  BY <1>9, <2>2
<1>. QED  BY <1>2, <1>3, <1>4, <1>6, <1>7, <1>8

LEMMA FirstBuffer ==
  ASSUME NEW b \in Buffers, b # <<>>
  PROVE  SubSeq(b, 1, 1) = <<b[1]>> /\ SubSeq(b, 1, 1) \in Buffers
<1>1. b \in Seq(Chunks \cup {End}) /\ Len(b) \in Nat \ {0}  BY EmptySeq DEF Buffers
<1>2. b[1] \in Chunks \cup {End}  BY <1>1, ElementOfSeq
<1>3. /\ SubSeq(b, 1, 1) \in Seq(Chunks \cup {End}) /\ Len(SubSeq(b, 1, 1)) = 1
      /\ SubSeq(b, 1, 1)[1] = b[1]
  BY <1>1, <1>2, SubSeqProperties
<1>4. <<b[1]>> \in Seq(Chunks \cup {End}) /\ Len(<<b[1]>>) = 1 /\ <<b[1]>>[1] = b[1]
  BY <1>2
<1>5. \A i \in 1..1 : SubSeq(b, 1, 1)[i] = <<b[1]>>[i]  BY <1>3, <1>4
<1>6. SubSeq(b, 1, 1) = <<b[1]>>  BY <1>3, <1>4, <1>5, SeqEqual
<1>. QED  BY <1>3, <1>6 DEF Buffers

\* What is left of a buffer without the sentinel: its chunks, in their places.
LEMMA AudioProperties ==
  ASSUME NEW b \in Buffers
  PROVE  /\ Audio(b) \in Seq(Chunks) /\ Len(Audio(b)) <= Len(b) /\ Len(Audio(b)) \in Nat
         /\ \A i \in 1..Len(Audio(b)) : i \in 1..Len(b) /\ Audio(b)[i] = b[i]
         /\ \A i \in 1..Len(b) : b[i] # End => i \in 1..Len(Audio(b))
<1>1. b \in Seq(Chunks \cup {End}) /\ Len(b) \in Nat  BY LenProperties DEF Buffers
<1>2. \A i \in 1..Len(b) : b[i] \in Chunks \cup {End}  BY <1>1, ElementOfSeq
<1>3. CASE b # <<>> /\ b[Len(b)] = End
  <2>0. Len(b) \in Nat \ {0}  BY <1>1, <1>3, EmptySeq
  <2>1. \A i \in 1..(Len(b) - 1) : b[i] \in Chunks  BY <1>1, <1>2 DEF Buffers
  <2>2. /\ SubSeq(b, 1, Len(b) - 1) \in Seq(Chunks)
        /\ Len(SubSeq(b, 1, Len(b) - 1)) = Len(b) - 1
        /\ \A i \in 1..(Len(b) - 1) : SubSeq(b, 1, Len(b) - 1)[i] = b[i]
    <3>1. PICK n \in Nat : n = Len(b) - 1  BY SMTT(30), <2>0
    <3>2. \A i \in 1..n : b[i] \in Chunks  BY <2>1, <3>1
    <3>3. /\ SubSeq(b, 1, n) \in Seq(Chunks)
          /\ Len(SubSeq(b, 1, n)) = IF 1 <= n THEN n - 1 + 1 ELSE 0
          /\ \A i \in 1..(n - 1 + 1) : SubSeq(b, 1, n)[i] = b[1 + i - 1]
      BY <3>2, SubSeqProperties
    <3>4. n = Len(b) - 1 /\ \A i \in 1..n : 1 + i - 1 = i  BY <3>1
    <3>. QED  BY <3>3, <3>4
  <2>3. Audio(b) = SubSeq(b, 1, Len(b) - 1)  BY <1>3 DEF Audio
  <2>. QED  BY <1>3, <2>0, <2>2, <2>3
<1>4. CASE ~(b # <<>> /\ b[Len(b)] = End)
  <2>1. Audio(b) = b  BY <1>4 DEF Audio
  <2>2. ASSUME NEW i \in 1..Len(b) PROVE b[i] \in Chunks
    <3>1. CASE i = Len(b)  BY <1>1, <1>2, <1>4, <3>1, EmptySeq
    <3>2. CASE i \in 1..(Len(b) - 1)  BY <1>2, <3>2 DEF Buffers
    <3>. QED  BY <1>1, <3>1, <3>2
  <2>3. b \in [1..Len(b) -> Chunks]  BY <1>1, <2>2, LenProperties
  <2>4. b \in Seq(Chunks)  BY <1>1, <2>3, SeqDef
  <2>. QED  BY <1>1, <2>1, <2>4
<1>. QED  BY <1>3, <1>4

\* Whose frame is it?
Within(f, c) == (c - 1) * FramesPerChunk < f /\ f <= c * FramesPerChunk

LEMMA Products ==
  /\ \A x \in Int : x * FramesPerChunk \in Int /\ (x - 1) * FramesPerChunk = x * FramesPerChunk - FramesPerChunk
  /\ \A x, y \in Int : x <= y => x * FramesPerChunk <= y * FramesPerChunk
BY Parameters

LEMMA Division ==
  ASSUME NEW x \in Int, NEW F \in Int, F > 0
  PROVE  x = (x \div F) * F + (x % F) /\ x \div F \in Int /\ x % F \in 0..(F - 1)
<1>1. x = F * (x \div F) + (x % F)  BY SMTT(30)
<1>2. x \div F \in Int /\ x % F \in 0..(F - 1)  OBVIOUS
<1>. QED  BY <1>1, <1>2

\* A sequence of chunks in the order they were produced.
Increasing(cs) == \A i, j \in 1..Len(cs) : i < j => cs[i] < cs[j]

\* The i-th frame of a sequence of chunks, and the place of its chunk.
Place(i) == 1 + (i - 1) \div FramesPerChunk
Offset(i) == (i - 1) % FramesPerChunk
FrameAt(cs, i) == (cs[Place(i)] - 1) * FramesPerChunk + 1 + Offset(i)

LEMMA FramePlace ==
  ASSUME NEW n \in Nat, NEW i \in 1..(n * FramesPerChunk)
  PROVE  /\ Place(i) \in 1..n /\ Offset(i) \in 0..(FramesPerChunk - 1)
         /\ i - 1 = (Place(i) - 1) * FramesPerChunk + Offset(i)
<1>. DEFINE F == FramesPerChunk
            p == (i - 1) \div F
            r == Offset(i)
<1>1. F \in Nat \ {0}  BY Parameters
<1>2. n * F \in Int /\ i - 1 \in Nat /\ i \in Int  BY <1>1
<1>3. i - 1 = p * F + r /\ p \in Int /\ r \in 0..(F - 1)  BY <1>1, <1>2, Division DEF Offset
<1>4. Place(i) = 1 + p  BY DEF Place
<1>. HIDE DEF p, r
<1>5. p < n
  <2>1. SUFFICES ASSUME n <= p PROVE FALSE  BY <1>3
  <2>2. n * F <= p * F  BY <1>3, <2>1, Products
  <2>. QED  BY <1>1, <1>2, <1>3, <2>2
<1>6. 0 <= p
  <2>1. SUFFICES ASSUME p <= -1 PROVE FALSE  BY <1>3
  <2>2. p * F <= (-1) * F  BY <1>3, <2>1, Products
  <2>3. (-1) * F = -F  BY <1>1
  <2>. QED  BY <1>1, <1>2, <1>3, <2>2, <2>3
<1>7. (1 + p) - 1 = p /\ 1 + p \in 1..n  BY <1>3, <1>5, <1>6
<1>8. Place(i) - 1 = p  BY <1>3, <1>4
<1>9. i - 1 = (Place(i) - 1) * F + r  BY <1>3, <1>8
<1>10. Place(i) \in 1..n /\ r \in 0..(F - 1)  BY <1>3, <1>4, <1>7
<1>. QED  BY <1>1, <1>2, <1>9, <1>10 DEF r

LEMMA FrameProperties ==
  ASSUME NEW cs \in Seq(Chunks), NEW i \in 1..(Len(cs) * FramesPerChunk)
  PROVE  /\ Place(i) \in 1..Len(cs) /\ cs[Place(i)] \in Chunks
         /\ FrameAt(cs, i) \in Frames /\ Within(FrameAt(cs, i), cs[Place(i)])
<1>. DEFINE F == FramesPerChunk
            r == Offset(i)
            c == cs[Place(i)]
<1>1. Len(cs) \in Nat /\ F \in Nat \ {0} /\ MaxChunks \in Nat  BY Parameters
<1>2. Place(i) \in 1..Len(cs) /\ r \in 0..(F - 1)  BY <1>1, FramePlace
<1>3. c \in Chunks  BY <1>2, ElementOfSeq
<1>4. c \in Int /\ 1 <= c /\ c <= MaxChunks  BY <1>1, <1>3 DEF Chunks
<1>5. FrameAt(cs, i) = (c - 1) * F + 1 + r  BY DEF FrameAt
<1>. HIDE DEF c, r
<1>6. (c - 1) * F = c * F - F /\ c * F \in Int  BY <1>4, Products
<1>7. c * F <= MaxChunks * F /\ 1 * F <= c * F  BY <1>1, <1>4, Products
<1>8. /\ FrameAt(cs, i) \in Int /\ (c - 1) * F < FrameAt(cs, i) /\ FrameAt(cs, i) <= c * F
      /\ 1 <= FrameAt(cs, i) /\ FrameAt(cs, i) <= MaxChunks * F
  BY <1>1, <1>2, <1>5, <1>6, <1>7
<1>9. MaxChunks * F \in Int  BY <1>1
<1>10. FrameAt(cs, i) \in Frames /\ Within(FrameAt(cs, i), c)
  BY <1>8, <1>9 DEF Frames, Within
<1>. QED  BY <1>2, <1>3, <1>10 DEF c

\* The frames of an earlier chunk come before those of a later one.
LEMMA WithinOrder ==
  ASSUME NEW c \in Int, NEW b \in Int, b < c, NEW f \in Int, Within(f, b)
  PROVE  f <= (c - 1) * FramesPerChunk
<1>1. b * FramesPerChunk <= (c - 1) * FramesPerChunk  BY Products
<1>2. b * FramesPerChunk \in Int /\ (c - 1) * FramesPerChunk \in Int  BY Products
<1>. QED  BY <1>1, <1>2 DEF Within

LEMMA FramesProperties ==
  ASSUME NEW cs \in Seq(Chunks)
  PROVE  /\ FramesOf(cs) \in Seq(Frames)
         /\ cs # <<>> => FramesOf(cs) # <<>>
         /\ cs = <<>> => FramesOf(cs) = <<>>
         /\ \A i \in 1..Len(FramesOf(cs)) :
              /\ Place(i) \in 1..Len(cs) /\ cs[Place(i)] \in Chunks
              /\ Within(FramesOf(cs)[i], cs[Place(i)])
         /\ Increasing(cs) => Ascending(FramesOf(cs))
<1>. DEFINE F == FramesPerChunk
            n == Len(cs) * F
            fs == FramesOf(cs)
<1>1. Len(cs) \in Nat /\ F \in Nat \ {0}  BY Parameters
<1>2. n \in Nat  BY <1>1
<1>3. fs = [i \in 1..n |-> FrameAt(cs, i)]  BY DEF FramesOf, FrameAt, Place, Offset
<1>. HIDE DEF fs, n
<1>4. \A i \in 1..n : FrameAt(cs, i) \in Frames  BY FrameProperties DEF n
<1>5. fs \in [1..n -> Frames]  BY <1>3, <1>4
<1>6. fs \in Seq(Frames) /\ Len(fs) = n /\ DOMAIN fs = 1..n
  <2>1. fs \in Seq(Frames)  BY <1>2, <1>5, SeqDef
  <2>. QED  BY <1>2, <1>5, <2>1, LenProperties
<1>7. cs # <<>> => fs # <<>>
  <2>. SUFFICES ASSUME cs # <<>> PROVE fs # <<>>  OBVIOUS
  <2>1. Len(cs) >= 1  BY <1>1, EmptySeq
  <2>2. 1 * F <= n  BY <1>1, <2>1, Products DEF n
  <2>3. n # 0  BY <1>1, <1>2, <2>2
  <2>. QED  BY <1>6, <2>3, EmptySeq
<1>8. cs = <<>> => fs = <<>>
  <2>. SUFFICES ASSUME cs = <<>> PROVE fs = <<>>  OBVIOUS
  <2>1. n = 0  BY <1>1 DEF n
  <2>. QED  BY <1>6, <2>1, EmptySeq
<1>9. \A i \in 1..n : /\ Place(i) \in 1..Len(cs) /\ cs[Place(i)] \in Chunks
                      /\ Within(fs[i], cs[Place(i)])
  BY <1>3, FrameProperties DEF n
<1>10. ASSUME Increasing(cs), NEW i \in 1..n, NEW j \in 1..n, i < j PROVE fs[i] < fs[j]
  <2>. DEFINE pi == Place(i)
              pj == Place(j)
              ri == Offset(i)
              rj == Offset(j)
  <2>1. /\ pi \in 1..Len(cs) /\ ri \in 0..(F - 1) /\ i - 1 = (pi - 1) * F + ri
        /\ pj \in 1..Len(cs) /\ rj \in 0..(F - 1) /\ j - 1 = (pj - 1) * F + rj
    <3>1. /\ Place(i) \in 1..Len(cs) /\ ri \in 0..(F - 1)
          /\ i - 1 = (Place(i) - 1) * F + ri
      BY <1>1, <1>10, FramePlace DEF n
    <3>2. /\ Place(j) \in 1..Len(cs) /\ rj \in 0..(F - 1)
          /\ j - 1 = (Place(j) - 1) * F + rj
      BY <1>1, <1>10, FramePlace DEF n
    <3>. QED  BY <3>1, <3>2
  <2>2. /\ fs[i] = (cs[pi] - 1) * F + 1 + ri /\ fs[j] = (cs[pj] - 1) * F + 1 + rj
    BY <1>3 DEF FrameAt
  <2>3. cs[pi] \in Chunks /\ cs[pj] \in Chunks /\ Within(fs[i], cs[pi]) /\ Within(fs[j], cs[pj])
    BY <1>9
  <2>4. cs[pi] \in Int /\ cs[pj] \in Int /\ fs[i] \in Int /\ fs[j] \in Int
    BY <1>5, <2>3 DEF Chunks, Frames
  <2>. HIDE DEF pi, pj, ri, rj
  <2>5. /\ pi \in Int /\ pj \in Int /\ pi - 1 \in Int /\ pj - 1 \in Int
        /\ cs[pi] - 1 \in Int /\ cs[pj] - 1 \in Int
    BY SMTT(30), <2>1, <2>4
  <2>6. /\ (pi - 1) * F \in Int /\ (pj - 1) * F \in Int /\ pj * F \in Int
        /\ (cs[pi] - 1) * F \in Int /\ (cs[pj] - 1) * F \in Int
        /\ (pj - 1) * F = pj * F - F
    BY <2>5, Products
  <2>7. pi <= pj
    <3>1. SUFFICES ASSUME pj <= pi - 1 PROVE FALSE  BY <2>5
    <3>2. pj * F <= (pi - 1) * F  BY <2>5, <3>1, Products
    <3>. QED  BY <1>1, <1>10, <2>1, <2>6, <3>2
  <2>8. CASE pi = pj
    <3>1. ri < rj  BY <1>1, <1>10, <2>1, <2>6, <2>8
    <3>. QED  BY <1>1, <2>1, <2>2, <2>6, <2>8, <3>1
  <2>9. CASE pi < pj
    <3>1. cs[pi] < cs[pj]  BY <1>10, <2>1, <2>9 DEF Increasing
    <3>2. fs[i] <= (cs[pj] - 1) * F  BY <2>3, <2>4, <3>1, WithinOrder
    <3>3. (cs[pj] - 1) * F < fs[j]  BY <2>3 DEF Within
    <3>. QED  BY SMTT(30), <2>4, <2>6, <3>2, <3>3
  <2>. QED  BY <2>5, <2>7, <2>8, <2>9
<1>11. Increasing(cs) => Ascending(fs)  BY <1>6, <1>10 DEF Ascending
<1>. QED  BY <1>6, <1>7, <1>8, <1>9, <1>11 DEF fs

\* The chunks of a buffer are in the order they were produced.
Rising(b) == \A i, j \in 1..Len(b) : i < j /\ b[j] # End => b[i] < b[j]

LEMMA UnpackProperties ==
  ASSUME NEW b \in Buffers
  PROVE  /\ Unpack(b) \in Seq(Frames) /\ Unpack(b) = FramesOf(Audio(b))
         /\ b # <<>> /\ b[1] # End => Unpack(b) # <<>>
         /\ \A k \in DOMAIN Unpack(b) :
              \E i \in 1..Len(b) : b[i] \in Chunks /\ Within(Unpack(b)[k], b[i])
         /\ Rising(b) => Ascending(Unpack(b))
<1>. DEFINE a == Audio(b)
            fs == FramesOf(a)
<1>1. /\ a \in Seq(Chunks) /\ Len(a) \in Nat
      /\ \A i \in 1..Len(a) : i \in 1..Len(b) /\ a[i] = b[i]
      /\ \A i \in 1..Len(b) : b[i] # End => i \in 1..Len(a)
  BY AudioProperties
<1>2. b \in Seq(Chunks \cup {End}) /\ Len(b) \in Nat  BY LenProperties DEF Buffers
<1>3. Unpack(b) = fs  BY DEF Unpack
<1>. HIDE DEF a
<1>4. /\ fs \in Seq(Frames)
      /\ a # <<>> => fs # <<>>
      /\ \A i \in 1..Len(fs) : /\ Place(i) \in 1..Len(a) /\ a[Place(i)] \in Chunks
                               /\ Within(fs[i], a[Place(i)])
      /\ Increasing(a) => Ascending(fs)
  BY <1>1, FramesProperties
<1>. HIDE DEF fs
<1>5. b # <<>> /\ b[1] # End => fs # <<>>
  <2>. SUFFICES ASSUME b # <<>>, b[1] # End PROVE a # <<>>  BY <1>4
  <2>1. 1 \in 1..Len(b)  BY <1>2, NoItems
  <2>2. 1 \in 1..Len(a)  BY <1>1, <2>1
  <2>. QED  BY <1>1, <2>2, EmptySeq
<1>6. DOMAIN fs = 1..Len(fs)  BY <1>4, LenProperties
<1>7. ASSUME NEW k \in 1..Len(fs)
      PROVE  \E i \in 1..Len(b) : b[i] \in Chunks /\ Within(fs[k], b[i])
  BY <1>1, <1>4, <1>7
<1>8. Rising(b) => Increasing(a)
  <2>. SUFFICES ASSUME Rising(b), NEW i \in 1..Len(a), NEW j \in 1..Len(a), i < j
                PROVE  a[i] < a[j]
    BY DEF Increasing
  <2>1. a[j] \in Chunks  BY <1>1, ElementOfSeq
  <2>2. a[j] # End  BY <2>1, Parameters DEF Chunks, End
  <2>. QED  BY <1>1, <2>2 DEF Rising
<1>. QED  BY <1>3, <1>4, <1>5, <1>6, <1>7, <1>8 DEF a, fs
-----------------------------------------------------------------------------
(* Type correctness *)

\* A stream that has not been started.
Fresh(s) ==
  /\ prod[s] = "done" /\ pacer[s] = "done" /\ keep[s] = "off"
  /\ jit[s] = <<>> /\ info[s] = NewInfo

\* What the types of the next state rest on: which streams and queues there are,
\* and that nothing is put behind a sentinel.
Unstarted == \A s \in Streams : s > ns => Fresh(s)
Readers   == \A s \in Streams : s <= ns => reader[s] \in 1..nq
Recorded  == \A s \in Streams : pacer[s] \in {"mute", "unmute"} => rec[s] \in 1..ns
Cleaned   == \/ clean = NoClean
             \/ clean.s \in 1..ns /\ clean.by # "none" /\ clean.at # "none"
Produced  == \A s \in Streams :
               /\ prod[s] \in {"get", "put", "end", "file"} => Unended(jit[s])
               /\ prod[s] = "put" => held[s] # End
               /\ prod[s] \in {"end", "file"} => held[s] = End
Queued    == /\ \A k \in Queues : k > nq => q[k] = <<>>
             /\ feedQ # 0 => Unended(q[feedQ])
             /\ provider = "pipeline" /\ open => feedQ # 0
Layout == active <= ns /\ jb <= ns /\ Unstarted /\ Readers /\ Recorded /\ Cleaned /\ Produced /\ Queued

Typed == TypeOK /\ Layout

LEMMA BufferSeq == \A b \in Buffers : b \in Seq(Chunks \cup {End}) /\ Len(b) \in Nat
BY LenProperties DEF Buffers

\* A stream that is started begins with empty buffers and reads queue k.
LEMMA StartTyped ==
  ASSUME Typed, NEW k \in Queues, k = nq + 1, nq' = k,
         NEW gate \in SUBSET (Streams \cup {Segment}), StartStream(k, gate)
  PROVE  /\ ns' \in 0..nq' /\ {active', jb', keepTask'} \subseteq Streams \cup {0}
         /\ ready' \in BOOLEAN /\ info' = info /\ held' = held /\ rec' = rec /\ jit' = jit
         /\ reader' \in [Streams -> Queues \cup {0}]
         /\ prod' \in [Streams -> {"get", "put", "end", "file", "drain", "clean", "stuck", "done"}]
         /\ pacer' \in [Streams -> {"tick", "mute", "unmute", "file", "done"}]
         /\ keep' \in [Streams -> {"on", "file", "off"}]
         /\ tokens' \subseteq Streams \cup {Segment}
         /\ active' <= ns' /\ jb' <= ns' /\ ns <= ns' /\ ns' <= ns + 1
         /\ Unstarted' /\ Readers' /\ Recorded' /\ Produced'
<1>. USE Parameters
<1>0. ns \in Nat /\ nq \in Nat /\ nq' = nq + 1 /\ ns <= nq /\ \A t \in Streams : t \in Nat
  BY DEF Typed, TypeOK, Streams
<1>a. /\ reader \in [Streams -> Queues \cup {0}]
      /\ prod \in [Streams -> {"get", "put", "end", "file", "drain", "clean", "stuck", "done"}]
      /\ pacer \in [Streams -> {"tick", "mute", "unmute", "file", "done"}]
      /\ keep \in [Streams -> {"on", "file", "off"}]
      /\ rec \in [Streams -> Streams \cup {0}]
      /\ tokens \subseteq Streams \cup {Segment} /\ ready \in BOOLEAN
      /\ {active, jb, keepTask} \subseteq Streams \cup {0} /\ active <= ns /\ jb <= ns
  BY DEF Typed, TypeOK, Layout
<1>b. Unstarted /\ Readers /\ Recorded /\ Produced  BY DEF Typed, Layout
<1>1. CASE IsActive
  <2>1. /\ UNCHANGED <<ns, reader, prod, held, pacer, rec, keep, keepTask, jit, jb, active,
                       info, ready>>
        /\ tokens' = tokens \cup gate
    BY <1>1 DEF StartStream
  <2>2. Unstarted'  BY <1>b, <2>1 DEF Unstarted, Fresh
  <2>3. Readers'  BY <1>0, <1>b, <2>1 DEF Readers
  <2>4. Recorded' /\ Produced'  BY <1>b, <2>1 DEF Recorded, Produced
  <2>5. ns' \in 0..nq' /\ active' <= ns' /\ jb' <= ns' /\ ns <= ns' /\ ns' <= ns + 1
    BY <1>0, <1>a, <2>1
  <2>. QED  BY <1>a, <2>1, <2>2, <2>3, <2>4, <2>5
<1>2. CASE ~IsActive
  <2>. DEFINE t == ns + 1
  <2>1. t \in Streams /\ t > ns /\ Fresh(t) /\ t <= k /\ t \in Nat
    BY <1>0, <1>b DEF Queues, Streams, Unstarted
  <2>2. /\ ns' = t /\ reader' = [reader EXCEPT ![t] = k]
        /\ prod' = [prod EXCEPT ![t] = "get"] /\ pacer' = [pacer EXCEPT ![t] = "tick"]
        /\ keep' = [keep EXCEPT ![t] = "on"] /\ keepTask' = t
        /\ jb' = t /\ active' = t /\ ready' \in BOOLEAN
        /\ tokens' \subseteq tokens \cup gate \cup {t}
        /\ UNCHANGED <<held, rec, jit, info>>
    BY <1>2 DEF StartStream
  <2>3. ns + 1 = t  OBVIOUS
  <2>. HIDE DEF t
  <2>4. Unstarted'
    BY <1>0, <1>a, <1>b, <2>1, <2>2, <2>3 DEF Unstarted, Fresh
  <2>5. Readers'
    BY <1>0, <1>a, <1>b, <2>1, <2>2, <2>3 DEF Readers
  <2>6. Recorded'
    BY <1>0, <1>a, <1>b, <2>1, <2>2, <2>3 DEF Recorded
  <2>7. Produced'
    BY <1>0, <1>a, <1>b, <2>1, <2>2, <2>3 DEF Produced, Fresh, Unended
  <2>8. /\ reader' \in [Streams -> Queues \cup {0}] /\ keep' \in [Streams -> {"on", "file", "off"}]
        /\ prod' \in [Streams -> {"get", "put", "end", "file", "drain", "clean", "stuck", "done"}]
        /\ pacer' \in [Streams -> {"tick", "mute", "unmute", "file", "done"}]
        /\ tokens' \subseteq Streams \cup {Segment}
    BY <1>a, <2>1, <2>2
  <2>9. /\ ns' \in 0..nq' /\ active' <= ns' /\ jb' <= ns' /\ ns <= ns' /\ ns' <= ns + 1
        /\ {active', jb', keepTask'} \subseteq Streams \cup {0}
    BY <1>0, <2>1, <2>2, <2>3
  <2>. QED  BY <2>2, <2>4, <2>5, <2>6, <2>7, <2>8, <2>9
<1>. QED  BY <1>1, <1>2
-----------------------------------------------------------------------------
(* The types, in groups: most steps leave most groups alone. *)

FeedTypes ==
  /\ provider \in Providers /\ continuous \in Continuous
  /\ fed \in 0..MaxChunks /\ nq \in 0..MaxQueues /\ feedQ \in 0..nq
  /\ open \in BOOLEAN /\ segActive \in BOOLEAN
  /\ q \in [Queues -> Buffers]
TaskTypes ==
  /\ ns \in 0..nq /\ keepTask \in Streams \cup {0}
  /\ reader \in [Streams -> Queues \cup {0}] /\ held \in [Streams -> Chunks \cup {End}]
  /\ prod \in [Streams -> {"get", "put", "end", "file", "drain", "clean", "stuck", "done"}]
  /\ pacer \in [Streams -> {"tick", "mute", "unmute", "file", "done"}]
  /\ rec \in [Streams -> Streams \cup {0}] /\ keep \in [Streams -> {"on", "file", "off"}]
BufferTypes ==
  /\ jit \in [Streams -> Buffers] /\ \A s \in Streams : Len(jit[s]) <= JitterSize
CallTypes ==
  /\ active \in Streams \cup {0} /\ jb \in Streams \cup {0} /\ active <= ns /\ jb <= ns
  /\ ready \in BOOLEAN /\ muted \in BOOLEAN /\ tokens \subseteq Streams \cup {Segment}
  /\ info \in [Streams -> [muted : BOOLEAN, first : BOOLEAN, seg : {0, 1}, barge : BOOLEAN]]
PlayTypes == rem \in Seq(Frames) /\ sent \in Seq(Frames) /\ filed \in Seq(Frames)
StopTypes ==
  /\ clean \in [s : Streams \cup {0}, by : Bargers \cup {"none", "producer"},
                at : {"none", "grace", "unmute"}]
  /\ barge \in [Bargers -> {"idle", "stop"}]
  /\ flawed \subseteq {"order", "mute", "unmute", "cleanup", "pacer", "orphan"}

LEMMA Groups ==
  Typed <=> /\ FeedTypes /\ TaskTypes /\ BufferTypes /\ CallTypes /\ PlayTypes /\ StopTypes
            /\ Unstarted /\ Readers /\ Recorded /\ Cleaned /\ Produced /\ Queued
<1>1. TypeOK => FeedTypes /\ TaskTypes /\ BufferTypes /\ PlayTypes /\ StopTypes
  BY DEF TypeOK, FeedTypes, TaskTypes, BufferTypes, PlayTypes, StopTypes
<1>2. TypeOK /\ Layout => CallTypes  BY DEF TypeOK, Layout, CallTypes
<1>3. FeedTypes /\ TaskTypes /\ BufferTypes /\ CallTypes /\ PlayTypes /\ StopTypes => TypeOK
  BY DEF TypeOK, FeedTypes, TaskTypes, BufferTypes, CallTypes, PlayTypes, StopTypes
<1>4. CallTypes => active <= ns /\ jb <= ns  BY DEF CallTypes
<1>. QED  BY <1>1, <1>2, <1>3, <1>4 DEF Typed, Layout

LEMMA GroupsNext ==
  (Typed <=> /\ FeedTypes /\ TaskTypes /\ BufferTypes /\ CallTypes /\ PlayTypes /\ StopTypes
             /\ Unstarted /\ Readers /\ Recorded /\ Cleaned /\ Produced /\ Queued)'
BY Groups, PTL

\* Which stream and queue numbers there are.
LEMMA Numbers ==
  ASSUME Typed
  PROVE  /\ ns \in Nat /\ nq \in Nat /\ feedQ \in Nat /\ active \in Nat /\ jb \in Nat
         /\ fed \in Nat /\ ns <= nq /\ nq <= MaxQueues
         /\ \A s \in Streams : s \in Nat \ {0} /\ s \in Queues
         /\ \A s \in 1..ns : s \in Streams
         /\ active # 0 => active \in 1..ns
         /\ jb # 0 => jb \in 1..ns
         /\ feedQ # 0 => feedQ \in Queues
         /\ \A s \in Streams : s <= ns => reader[s] \in Queues
  BY Groups, Parameters DEF FeedTypes, TaskTypes, CallTypes, Streams, Queues, Readers

\* A stream with a producer, a pacer, a keepalive task or buffered audio has been
\* started.
LEMMA Started ==
  ASSUME Typed, NEW s \in Streams,
         \/ prod[s] # "done" \/ pacer[s] # "done" \/ keep[s] # "off" \/ jit[s] # <<>>
         \/ info[s] # NewInfo
  PROVE  s <= ns /\ reader[s] \in Queues
<1>1. s <= ns  BY Groups, Numbers DEF Unstarted, Fresh
<1>. QED  BY <1>1, Numbers

LEMMA InitTyped == Init => Typed
<1>. SUFFICES ASSUME Init PROVE Typed  OBVIOUS
<1>. USE Parameters
<1>1. Bargers \cap {"none", "producer"} = {}  BY StreamingAssumption
<1>2. <<>> \in Buffers /\ Unended(<<>>) /\ Len(<<>>) = 0  BY EmptyBuffer
<1>b. {open, segActive, ready, muted} \subseteq BOOLEAN  BY Zenon DEF Init
<1>3. FeedTypes
  <2>1. q \in [Queues -> Buffers]  BY <1>2 DEF Init
  <2>2. fed \in 0..MaxChunks /\ nq \in 0..MaxQueues /\ feedQ \in 0..nq  BY DEF Init
  <2>3. provider \in Providers /\ continuous \in Continuous  BY DEF Init
  <2>. QED  BY <1>b, <2>1, <2>2, <2>3 DEF FeedTypes
<1>4. TaskTypes  BY DEF Init, TaskTypes, End
<1>5. BufferTypes  BY <1>2 DEF Init, BufferTypes
<1>6. CallTypes
  <2>1. NewInfo \in [muted : BOOLEAN, first : BOOLEAN, seg : {0, 1}, barge : BOOLEAN]
    BY DEF NewInfo
  <2>2. info = [s \in Streams |-> NewInfo] /\ active = 0 /\ jb = 0 /\ ns = 0 /\ tokens = {}
    BY DEF Init
  <2>. QED  BY <1>b, <2>1, <2>2 DEF CallTypes
<1>7. PlayTypes  BY EmptySeq DEF Init, PlayTypes
<1>8. StopTypes  BY DEF Init, StopTypes, NoClean
<1>9. Unstarted /\ Readers /\ Recorded /\ Cleaned /\ Produced
  BY DEF Init, Unstarted, Fresh, Readers, Recorded, Cleaned, Produced, Streams
<1>10. Queued  BY <1>2 DEF Init, Queued
<1>. QED  BY <1>3, <1>4, <1>5, <1>6, <1>7, <1>8, <1>9, <1>10, Groups
-----------------------------------------------------------------------------
(* Audio that moves between the buffers *)

LEMMA BufferedTyped ==
  ASSUME Typed
  PROVE  Buffered \in Seq(Frames) /\ Buffered = rem \o (IF jb = 0 THEN <<>> ELSE Unpack(jit[jb]))
<1>1. rem \in Seq(Frames)  BY Groups DEF PlayTypes
<1>2. ASSUME jb # 0 PROVE Unpack(jit[jb]) \in Seq(Frames)
  <2>1. jit[jb] \in Buffers  BY <1>2, Numbers, Groups DEF BufferTypes
  <2>. QED  BY <2>1, UnpackProperties
<1>3. <<>> \in Seq(Frames)  BY EmptySeq
<1>4. Buffered = rem \o (IF jb = 0 THEN <<>> ELSE Unpack(jit[jb]))  BY DEF Buffered
<1>. QED  BY <1>1, <1>2, <1>3, <1>4, ConcatProperties

\* Taking what is buffered empties one buffer.
LEMMA TakeTyped ==
  ASSUME Typed, TakeBuffered
  PROVE  /\ filed' \in Seq(Frames) /\ rem' = <<>> /\ rem' \in Seq(Frames)
         /\ BufferTypes'
         /\ jit' \in [Streams -> Buffers] /\ jit \in [Streams -> Buffers]
         /\ \A s \in Streams : jit'[s] = jit[s] \/ jit'[s] = <<>>
<1>. USE DEF TakeBuffered
<1>1. filed \in Seq(Frames) /\ <<>> \in Seq(Frames)  BY Groups, EmptySeq DEF PlayTypes
<1>2. filed' \in Seq(Frames)  BY <1>1, BufferedTyped, ConcatProperties
<1>3. jit \in [Streams -> Buffers] /\ \A s \in Streams : Len(jit[s]) <= JitterSize
  BY Groups DEF BufferTypes
<1>4. jit' \in [Streams -> Buffers] /\ \A s \in Streams : jit'[s] = jit[s] \/ jit'[s] = <<>>
  BY <1>3, EmptyBuffer, Numbers
<1>5. BufferTypes'  BY <1>3, <1>4, EmptyBuffer, Parameters DEF BufferTypes
<1>. QED  BY <1>1, <1>2, <1>3, <1>4, <1>5

\* What the pacer plays next, and the buffers it leaves.
LEMMA PendingTyped ==
  ASSUME Typed, NEW s \in Streams, HasFrame(s)
  PROVE  /\ Pending(s) \in Seq(Frames) /\ Pending(s) # <<>>
         /\ Taken(s) \in [Streams -> Buffers] /\ jit \in [Streams -> Buffers]
         /\ \A t \in Streams : \/ Taken(s)[t] = jit[t]
                               \/ t = s /\ jit[s] # <<>> /\ Taken(s)[s] = Tail(jit[s])
         /\ \A t \in Streams : /\ Len(Taken(s)[t]) <= JitterSize
                               /\ Unended(jit[t]) => Unended(Taken(s)[t])
                               /\ jit[t] = <<>> => Taken(s)[t] = <<>>
<1>1. /\ rem \in Seq(Frames) /\ jit \in [Streams -> Buffers]
      /\ \A t \in Streams : Len(jit[t]) <= JitterSize
  BY Groups DEF PlayTypes, BufferTypes
<1>2. CASE rem # <<>>  BY <1>1, <1>2 DEF Pending, Taken
<1>3. CASE rem = <<>>
  <2>. DEFINE b == jit[s]
  <2>1. b # <<>> /\ Head(b) # End /\ b \in Buffers  BY <1>1, <1>3 DEF HasFrame
  <2>2. Pending(s) = Unpack(SubSeq(b, 1, 1)) /\ Taken(s) = [jit EXCEPT ![s] = Tail(b)]
    BY <1>1, <1>3 DEF Pending, Taken
  <2>. HIDE DEF b
  <2>3. /\ Len(b) \in Nat \ {0} /\ Head(b) = b[1] /\ Tail(b) \in Buffers
        /\ Len(Tail(b)) = Len(b) - 1 /\ (Unended(b) => Unended(Tail(b)))
    BY <2>1, TailBuffer
  <2>4. SubSeq(b, 1, 1) = <<b[1]>> /\ SubSeq(b, 1, 1) \in Buffers  BY <2>1, FirstBuffer
  <2>5. <<b[1]>> # <<>> /\ <<b[1]>>[1] = b[1]  OBVIOUS
  <2>6. Pending(s) \in Seq(Frames) /\ Pending(s) # <<>>
    BY <2>1, <2>2, <2>3, <2>4, <2>5, UnpackProperties
  <2>7. /\ Taken(s) \in [Streams -> Buffers] /\ Taken(s)[s] = Tail(b)
        /\ \A t \in Streams : t # s => Taken(s)[t] = jit[t]
    BY <1>1, <2>2, <2>3
  <2>8. jit[s] = b  BY DEF b
  <2>9. Len(Taken(s)[s]) <= JitterSize  BY <1>1, <2>3, <2>7, <2>8, Parameters
  <2>10. Unended(jit[s]) => Unended(Taken(s)[s])  BY <2>3, <2>7, <2>8
  <2>. QED  BY <1>1, <2>1, <2>6, <2>7, <2>8, <2>9, <2>10
<1>. QED  BY <1>2, <1>3
-----------------------------------------------------------------------------
(* Every step keeps the types: the engine's side *)

\* An item is put behind queue k.
LEMMA Enqueue ==
  ASSUME Typed, NEW k \in Queues, k <= nq', nq <= nq', nq' \in Nat, NEW x \in Chunks \cup {End},
         \/ Unended(q[k]) /\ q' = [q EXCEPT ![k] = Append(@, x)]
         \/ q' = q
  PROVE  /\ q' \in [Queues -> Buffers]
         /\ \A j \in Queues : j > nq' => q'[j] = <<>>
         /\ x # End /\ Unended(q[k]) => Unended(q'[k])
         /\ \A j \in Queues : j # k => q'[j] = q[j]
<1>1. q \in [Queues -> Buffers] /\ \A j \in Queues : j > nq => q[j] = <<>>
  BY Groups DEF FeedTypes, Queued
<1>2. Unended(q[k]) => /\ Append(q[k], x) \in Buffers
                       /\ x # End => Unended(Append(q[k], x))
  BY <1>1, AppendBuffer
<1>3. \A j \in Queues : j > nq' => j > nq  BY Numbers DEF Queues
<1>4. k \in Nat  BY DEF Queues
<1>5. CASE q' = q  BY <1>1, <1>3, <1>5
<1>6. CASE Unended(q[k]) /\ q' = [q EXCEPT ![k] = Append(@, x)]
  <2>1. q' \in [Queues -> Buffers] /\ q'[k] = Append(q[k], x)  BY <1>1, <1>2, <1>6
  <2>2. \A j \in Queues : j # k => q'[j] = q[j]  BY <1>1, <1>6
  <2>3. \A j \in Queues : j > nq' => j # k  BY <1>4
  <2>. QED  BY <1>1, <1>2, <1>3, <1>6, <2>1, <2>2, <2>3
<1>. QED  BY <1>5, <1>6

LEMMA AgentAudioTyped == ASSUME Typed, AgentAudio PROVE Typed'
<1>. USE DEF AgentAudio
<1>. DEFINE gate == IF ~continuous \/ segActive THEN {}
                    ELSE IF active # 0 THEN {active}
                    ELSE IF tokens = {} THEN {Segment} ELSE {}
            k == IF feedQ = 0 THEN nq + 1 ELSE feedQ
            x == fed + 1
<1>0. /\ FeedTypes /\ TaskTypes /\ BufferTypes /\ CallTypes /\ PlayTypes /\ StopTypes
      /\ Unstarted /\ Readers /\ Recorded /\ Cleaned /\ Produced /\ Queued
  BY Groups
<1>1. gate \in SUBSET (Streams \cup {Segment})  BY <1>0 DEF CallTypes, Segment
<1>2. /\ fed < MaxChunks /\ fed' = x /\ open' = TRUE /\ feedQ' = k
      /\ segActive' = (segActive \/ continuous)
      /\ q' = IF Len(q[k]) < QueueSize THEN [q EXCEPT ![k] = Append(@, x)] ELSE q
      /\ UNCHANGED <<provider, continuous, rem, muted, outVars, stopVars>>
      /\ feedQ = 0 => nq < MaxQueues /\ nq' = k /\ StartStream(k, gate)
      /\ feedQ # 0 => /\ tokens' = tokens \cup gate
                      /\ UNCHANGED <<nq, taskVars, jit, jb, active, info, ready>>
  OBVIOUS
<1>. HIDE DEF AgentAudio, gate
<1>3. k \in Queues /\ k \in Nat \ {0} /\ k <= nq' /\ nq <= nq' /\ nq' \in 0..MaxQueues
  BY <1>0, <1>2, Numbers, Parameters DEF Queues, FeedTypes
<1>4. Unended(q[k])
  BY <1>0, <1>3, Numbers, EmptyBuffer DEF Queued, Queues
<1>5. x \in Chunks /\ x # End /\ x \in 0..MaxChunks
  BY <1>2, Numbers, Parameters DEF Chunks, End
<1>6. /\ q' \in [Queues -> Buffers] /\ \A j \in Queues : j > nq' => q'[j] = <<>>
      /\ Unended(q'[k])
  BY SMTT(30), <1>2, <1>3, <1>4, <1>5, Enqueue
<1>. HIDE DEF k, x
<1>7. segActive' \in BOOLEAN /\ open' \in BOOLEAN
  BY <1>2 DEF FeedTypes
<1>8. FeedTypes'
  BY <1>0, <1>2, <1>3, <1>5, <1>6, <1>7 DEF FeedTypes
<1>9. Queued'  BY <1>2, <1>3, <1>6 DEF Queued
<1>10. PlayTypes' /\ StopTypes'  BY <1>0, <1>2 DEF PlayTypes, StopTypes
<1>11. CASE feedQ = 0
  <2>1. k = nq + 1 /\ nq' = k /\ StartStream(k, gate)  BY <1>2, <1>11 DEF k
  <2>2. /\ ns' \in 0..nq' /\ {active', jb', keepTask'} \subseteq Streams \cup {0}
        /\ ready' \in BOOLEAN /\ info' = info /\ held' = held /\ rec' = rec /\ jit' = jit
        /\ reader' \in [Streams -> Queues \cup {0}]
        /\ prod' \in [Streams -> {"get", "put", "end", "file", "drain", "clean", "stuck", "done"}]
        /\ pacer' \in [Streams -> {"tick", "mute", "unmute", "file", "done"}]
        /\ keep' \in [Streams -> {"on", "file", "off"}]
        /\ tokens' \subseteq Streams \cup {Segment}
        /\ active' <= ns' /\ jb' <= ns' /\ ns <= ns' /\ ns' <= ns + 1
        /\ Unstarted' /\ Readers' /\ Recorded' /\ Produced'
    BY <1>1, <1>3, <2>1, StartTyped
  <2>3. TaskTypes'  BY <1>0, <2>2 DEF TaskTypes
  <2>4. BufferTypes'  BY <1>0, <2>2 DEF BufferTypes
  <2>5. CallTypes'  BY <1>0, <1>2, <2>2 DEF CallTypes
  <2>6. Cleaned'
    <3>1. clean' = clean /\ ns \in Nat /\ ns' \in Nat /\ ns <= ns'
      BY <1>2, <1>3, <2>2, Numbers
    <3>. QED  BY <1>0, <3>1 DEF Cleaned
  <2>. QED  BY <1>8, <1>9, <1>10, <2>2, <2>3, <2>4, <2>5, <2>6, GroupsNext
<1>12. CASE feedQ # 0
  <2>1. /\ tokens' = tokens \cup gate
        /\ UNCHANGED <<nq, ns, reader, prod, held, pacer, rec, keep, keepTask, jit, jb, active,
                       info, ready>>
    BY <1>2, <1>12
  <2>2. TaskTypes' /\ BufferTypes' /\ CallTypes'
    BY <1>0, <1>1, <1>2, <2>1 DEF TaskTypes, BufferTypes, CallTypes
  <2>3. Unstarted' /\ Readers' /\ Recorded' /\ Cleaned' /\ Produced'
    BY <1>0, <1>2, <2>1 DEF Unstarted, Fresh, Readers, Recorded, Cleaned, Produced
  <2>. QED  BY <1>8, <1>9, <1>10, <2>2, <2>3, GroupsNext
<1>. QED  BY <1>11, <1>12

LEMMA AgentAudioDoneTyped == ASSUME Typed, AgentAudioDone PROVE Typed'
<1>. USE DEF AgentAudioDone
<1>0. /\ FeedTypes /\ TaskTypes /\ BufferTypes /\ CallTypes /\ PlayTypes /\ StopTypes
      /\ Unstarted /\ Readers /\ Recorded /\ Cleaned /\ Produced /\ Queued
  BY Groups
<1>1. /\ TaskTypes' /\ BufferTypes' /\ PlayTypes' /\ StopTypes'
      /\ Readers' /\ Recorded' /\ Cleaned' /\ Produced'
  BY <1>0 DEF TaskTypes, BufferTypes, PlayTypes, StopTypes, Readers, Recorded, Cleaned, Produced
<1>2. FeedTypes' /\ Queued'
  <2>1. CASE continuous
    <3>1. segActive' \in BOOLEAN /\ open' \in BOOLEAN  BY <1>0, <2>1 DEF FeedTypes
    <3>2. q' = q /\ feedQ' = feedQ /\ provider # "pipeline" /\ nq' = nq /\ fed' = fed
          /\ provider' = provider /\ continuous' = continuous
      BY <2>1
    <3>3. FeedTypes'  BY <1>0, <3>1, <3>2 DEF FeedTypes
    <3>4. Queued'  BY <1>0, <3>2 DEF Queued
    <3>. QED  BY <3>3, <3>4
  <2>2. CASE ~continuous
    <3>1. /\ segActive' = segActive /\ open' = FALSE /\ feedQ' = 0 /\ nq' = nq /\ fed' = fed
          /\ provider' = provider /\ continuous' = continuous
          /\ q' = IF feedQ = 0 THEN q ELSE [q EXCEPT ![feedQ] = Append(@, End)]
      BY <2>2
    <3>2. q' \in [Queues -> Buffers] /\ \A j \in Queues : j > nq' => q'[j] = <<>>
      <4>1. CASE feedQ = 0  BY <1>0, <3>1, <4>1 DEF FeedTypes, Queued
      <4>2. CASE feedQ # 0
        <5>1. feedQ \in Queues /\ feedQ <= nq' /\ nq <= nq' /\ nq' \in Nat
          BY <1>0, <3>1, <4>2, Numbers DEF FeedTypes
        <5>2. Unended(q[feedQ]) /\ q' = [q EXCEPT ![feedQ] = Append(@, End)]
          BY <1>0, <3>1, <4>2 DEF Queued
        <5>. QED  BY <5>1, <5>2, Enqueue
      <4>. QED  BY <4>1, <4>2
    <3>3. open' \in BOOLEAN /\ segActive' \in BOOLEAN
      BY <1>0, <3>1 DEF FeedTypes
    <3>4. FeedTypes'  BY <1>0, <3>1, <3>2, <3>3, Numbers DEF FeedTypes
    <3>5. Queued'  BY <3>1, <3>2 DEF Queued
    <3>. QED  BY <3>4, <3>5
  <2>. QED  BY <2>1, <2>2
<1>3. /\ active' = active /\ jb' = jb /\ ready' = ready /\ muted' = muted /\ tokens' \subseteq tokens
      /\ \/ info' = info
         \/ active # 0 /\ info' = [info EXCEPT ![active].seg = 1, ![active].first = FALSE]
  BY DEF BoundaryTokens
<1>4. CallTypes' /\ Unstarted'
  <2>1. info' \in [Streams -> [muted : BOOLEAN, first : BOOLEAN, seg : {0, 1}, barge : BOOLEAN]]
    BY <1>0, <1>3 DEF CallTypes
  <2>2. CallTypes'  BY <1>0, <1>3, <2>1 DEF CallTypes
  <2>3. \A s \in Streams : s > ns => info'[s] = info[s]
    BY <1>0, <1>3, Numbers DEF CallTypes
  <2>. QED  BY <1>0, <2>2, <2>3 DEF Unstarted, Fresh
<1>. QED  BY <1>1, <1>2, <1>4, GroupsNext

LEMMA SpeakTyped == ASSUME Typed, Speak PROVE Typed'
<1>. USE DEF Speak
<1>. DEFINE k == nq + 1
<1>0. /\ FeedTypes /\ TaskTypes /\ BufferTypes /\ CallTypes /\ PlayTypes /\ StopTypes
      /\ Unstarted /\ Readers /\ Recorded /\ Cleaned /\ Produced /\ Queued
  BY Groups
<1>1. k \in Queues /\ k \in Nat \ {0} /\ nq' = k /\ k \in 0..MaxQueues
  BY Numbers, Parameters DEF Queues
<1>2. /\ ns' \in 0..nq' /\ {active', jb', keepTask'} \subseteq Streams \cup {0}
      /\ ready' \in BOOLEAN /\ info' = info /\ held' = held /\ rec' = rec /\ jit' = jit
      /\ reader' \in [Streams -> Queues \cup {0}]
      /\ prod' \in [Streams -> {"get", "put", "end", "file", "drain", "clean", "stuck", "done"}]
      /\ pacer' \in [Streams -> {"tick", "mute", "unmute", "file", "done"}]
      /\ keep' \in [Streams -> {"on", "file", "off"}]
      /\ tokens' \subseteq Streams \cup {Segment}
      /\ active' <= ns' /\ jb' <= ns' /\ ns <= ns' /\ ns' <= ns + 1
      /\ Unstarted' /\ Readers' /\ Recorded' /\ Produced'
  <2>1. {} \in SUBSET (Streams \cup {Segment}) /\ StartStream(k, {})  OBVIOUS
  <2>. HIDE DEF Speak
  <2>2. k = nq + 1  OBVIOUS
  <2>. QED  BY <1>1, <2>1, <2>2, StartTyped
<1>3. TaskTypes'  BY <1>0, <1>2 DEF TaskTypes
<1>4. BufferTypes'  BY <1>0, <1>2 DEF BufferTypes
<1>5. CallTypes'  BY <1>0, <1>2 DEF CallTypes
<1>6. Cleaned'
  <2>1. clean' = clean /\ ns \in Nat /\ ns' \in Nat /\ ns <= ns'  BY <1>1, <1>2, Numbers
  <2>. QED  BY <1>0, <2>1 DEF Cleaned
<1>7. PlayTypes' /\ StopTypes'  BY <1>0 DEF PlayTypes, StopTypes
<1>8. FeedTypes'
  <2>1. open' \in BOOLEAN /\ segActive' \in BOOLEAN  BY <1>0 DEF FeedTypes
  <2>. QED  BY <1>0, <1>1, <2>1 DEF FeedTypes
<1>9. Queued'
  <2>1. q' = q /\ q[k] = <<>> /\ feedQ' = k /\ \A j \in Queues : j > k => j > nq
    BY <1>0, <1>1, Numbers DEF Queued, Queues
  <2>. QED  BY <1>0, <1>1, <2>1, EmptyBuffer DEF Queued
<1>. QED  BY <1>2, <1>3, <1>4, <1>5, <1>6, <1>7, <1>8, <1>9, GroupsNext

\* Synthesize and Spoken: an item for the queue of the response.
LEMMA SynthesizeTyped == ASSUME Typed, Synthesize \/ Spoken PROVE Typed'
<1>. USE DEF Synthesize, Spoken
<1>0. /\ FeedTypes /\ TaskTypes /\ BufferTypes /\ CallTypes /\ PlayTypes /\ StopTypes
      /\ Unstarted /\ Readers /\ Recorded /\ Cleaned /\ Produced /\ Queued
  BY Groups
<1>1. /\ UNCHANGED <<provider, continuous, nq, segActive, taskVars, jit, jb, rem, callVars,
                     outVars, stopVars>>
      /\ provider = "pipeline" /\ open
  OBVIOUS
<1>2. /\ TaskTypes' /\ BufferTypes' /\ CallTypes' /\ PlayTypes' /\ StopTypes'
      /\ Unstarted' /\ Readers' /\ Recorded' /\ Cleaned' /\ Produced'
  BY <1>0, <1>1 DEF TaskTypes, BufferTypes, CallTypes, PlayTypes, StopTypes, Unstarted, Fresh,
     Readers, Recorded, Cleaned, Produced
<1>3. PICK x \in Chunks \cup {End} :
         /\ q' = [q EXCEPT ![feedQ] = Append(@, x)]
         /\ \/ x # End /\ fed' = fed + 1 /\ fed < MaxChunks /\ open' = open /\ feedQ' = feedQ
            \/ x = End /\ fed' = fed /\ open' = FALSE /\ feedQ' = 0
  <2>1. ASSUME Synthesize PROVE fed + 1 \in Chunks /\ fed + 1 # End
    BY <2>1, Numbers, Parameters DEF Chunks, End
  <2>. QED  BY <2>1
<1>. HIDE DEF Synthesize, Spoken
<1>4. feedQ \in Queues /\ feedQ # 0 /\ Unended(q[feedQ]) /\ feedQ <= nq /\ nq \in Nat
  BY <1>0, <1>1, Numbers DEF Queued, FeedTypes
<1>5. /\ q' \in [Queues -> Buffers] /\ \A j \in Queues : j > nq' => q'[j] = <<>>
      /\ x # End => Unended(q'[feedQ])
  <2>1. feedQ <= nq' /\ nq <= nq' /\ nq' \in Nat  BY <1>1, <1>4
  <2>. QED  BY <1>3, <1>4, <2>1, Enqueue
<1>6. fed' \in 0..MaxChunks /\ feedQ' \in 0..nq'
  <2>1. fed \in Nat /\ fed <= MaxChunks /\ nq' = nq /\ nq \in Nat /\ feedQ \in Nat /\ feedQ <= nq
    BY <1>0, <1>1, <1>4, Numbers, Parameters DEF FeedTypes
  <2>2. fed' \in 0..MaxChunks  BY <1>3, <2>1, Parameters
  <2>3. feedQ' \in 0..nq'  BY <1>3, <2>1
  <2>. QED  BY <2>2, <2>3
<1>7. open' \in BOOLEAN  BY <1>0, <1>3 DEF FeedTypes
<1>8. FeedTypes'  BY <1>0, <1>1, <1>5, <1>6, <1>7 DEF FeedTypes
<1>9. Queued'
  <2>1. CASE x = End  BY <1>3, <1>4, <1>5, <2>1 DEF Queued
  <2>2. CASE x # End  BY <1>3, <1>4, <1>5, <2>2 DEF Queued
  <2>. QED  BY <2>1, <2>2
<1>. QED  BY <1>2, <1>8, <1>9, GroupsNext
-----------------------------------------------------------------------------
(* Every step keeps the types: the producer *)

LEMMA GetTyped == ASSUME Typed, NEW s \in Streams, Get(s) PROVE Typed'
<1>. USE DEF Get
<1>. DEFINE k == reader[s]
            item == Head(q[k])
<1>0. /\ FeedTypes /\ TaskTypes /\ BufferTypes /\ CallTypes /\ PlayTypes /\ StopTypes
      /\ Unstarted /\ Readers /\ Recorded /\ Cleaned /\ Produced /\ Queued
  BY Groups
<1>1. /\ prod[s] = "get" /\ q[k] # <<>> /\ q' = [q EXCEPT ![k] = Tail(@)]
      /\ UNCHANGED <<provider, continuous, feedVars, ns, reader, rec, pacer, keep, keepTask,
                     jb, rem, callVars, outVars, stopVars>>
      /\ \/ /\ Room(s) /\ jit' = [jit EXCEPT ![s] = Append(@, item)] /\ held' = held
            /\ prod' = [prod EXCEPT ![s] = IF item = End THEN "drain" ELSE "get"]
         \/ /\ jit' = jit /\ held' = [held EXCEPT ![s] = item]
            /\ prod' = [prod EXCEPT ![s] = IF item = End THEN "end" ELSE "put"]
  OBVIOUS
<1>. HIDE DEF Get
<1>2. s <= ns /\ k \in Queues /\ k \in 1..nq  BY <1>0, <1>1, Started DEF Readers
<1>3. /\ item \in Chunks \cup {End} /\ Tail(q[k]) \in Buffers
      /\ Unended(q[k]) => Unended(Tail(q[k]))
  BY <1>0, <1>1, <1>2, TailBuffer DEF FeedTypes
<1>. HIDE DEF k, item
<1>4. /\ q' \in [Queues -> Buffers] /\ q'[k] = Tail(q[k])
      /\ \A j \in Queues : j # k => q'[j] = q[j]
  BY <1>0, <1>1, <1>2, <1>3 DEF FeedTypes
<1>5. FeedTypes'  BY <1>0, <1>1, <1>4 DEF FeedTypes
<1>6. Queued'
  <2>1. \A j \in Queues : j > nq => q'[j] = <<>>
    BY <1>0, <1>2, <1>4, Numbers DEF Queued, Queues
  <2>2. feedQ # 0 => Unended(q'[feedQ])
    BY <1>0, <1>3, <1>4, Numbers DEF Queued
  <2>. QED  BY <1>0, <1>1, <2>1, <2>2 DEF Queued
<1>7. CallTypes' /\ PlayTypes' /\ StopTypes' /\ Readers' /\ Recorded' /\ Cleaned'
  BY <1>0, <1>1 DEF CallTypes, PlayTypes, StopTypes, Readers, Recorded, Cleaned
<1>8. TaskTypes'
  <2>1. held' \in [Streams -> Chunks \cup {End}]  BY <1>0, <1>1, <1>3 DEF TaskTypes
  <2>2. prod' \in [Streams -> {"get", "put", "end", "file", "drain", "clean", "stuck", "done"}]
    BY <1>0, <1>1 DEF TaskTypes
  <2>. QED  BY <1>0, <1>1, <2>1, <2>2 DEF TaskTypes
<1>9. Unended(jit[s]) /\ jit[s] \in Buffers  BY <1>0, <1>1 DEF Produced, BufferTypes
<1>10. /\ Append(jit[s], item) \in Buffers /\ Len(Append(jit[s], item)) = Len(jit[s]) + 1
       /\ Len(jit[s]) \in Nat
       /\ item # End => Unended(Append(jit[s], item))
  BY <1>3, <1>9, AppendBuffer, BufferSeq
<1>11. BufferTypes'
  <2>1. jit' \in [Streams -> Buffers]  BY <1>0, <1>1, <1>10 DEF BufferTypes
  <2>2. \A t \in Streams : Len(jit'[t]) <= JitterSize
    BY SMTT(30), <1>0, <1>1, <1>10, Parameters DEF BufferTypes, Room
  <2>. QED  BY <2>1, <2>2 DEF BufferTypes
<1>12. \A t \in Streams : t # s => /\ prod'[t] = prod[t] /\ jit'[t] = jit[t] /\ held'[t] = held[t]
  BY <1>0, <1>1 DEF TaskTypes, BufferTypes
<1>13. Unstarted'  BY <1>0, <1>1, <1>2, <1>12, Numbers DEF Unstarted, Fresh
<1>14. Produced'
  <2>1. /\ prod'[s] \in {"get", "put", "end", "file"} => Unended(jit'[s])
        /\ prod'[s] = "put" => held'[s] # End
        /\ prod'[s] \in {"end", "file"} => held'[s] = End
    BY <1>0, <1>1, <1>9, <1>10 DEF TaskTypes, BufferTypes
  <2>. QED  BY <1>0, <1>12, <2>1 DEF Produced
<1>. QED  BY <1>5, <1>6, <1>7, <1>8, <1>11, <1>13, <1>14, GroupsNext

LEMMA PutTyped == ASSUME Typed, NEW s \in Streams, Put(s) PROVE Typed'
<1>. USE DEF Put
<1>0. /\ FeedTypes /\ TaskTypes /\ BufferTypes /\ CallTypes /\ PlayTypes /\ StopTypes
      /\ Unstarted /\ Readers /\ Recorded /\ Cleaned /\ Produced /\ Queued
  BY Groups
<1>1. FeedTypes' /\ CallTypes' /\ PlayTypes' /\ StopTypes' /\ Readers' /\ Recorded' /\ Cleaned' /\ Queued'
  BY <1>0 DEF FeedTypes, CallTypes, PlayTypes, StopTypes, Readers, Recorded, Cleaned, Queued
<1>2. s <= ns  BY Started
<1>3. /\ Unended(jit[s]) /\ jit[s] \in Buffers /\ held[s] \in Chunks \cup {End}
      /\ prod[s] = "put" => held[s] # End
  BY <1>0 DEF Produced, BufferTypes, TaskTypes
<1>4. /\ Append(jit[s], held[s]) \in Buffers /\ Len(Append(jit[s], held[s])) = Len(jit[s]) + 1
      /\ Len(jit[s]) \in Nat
      /\ held[s] # End => Unended(Append(jit[s], held[s]))
  BY <1>3, AppendBuffer, BufferSeq
<1>5. TaskTypes'
  <2>1. held' \in [Streams -> Chunks \cup {End}]  BY <1>0 DEF TaskTypes, End
  <2>2. prod' \in [Streams -> {"get", "put", "end", "file", "drain", "clean", "stuck", "done"}]
    BY <1>0 DEF TaskTypes
  <2>. QED  BY <1>0, <2>1, <2>2 DEF TaskTypes
<1>6. BufferTypes'
  <2>1. jit' \in [Streams -> Buffers]  BY <1>0, <1>4 DEF BufferTypes
  <2>2. \A t \in Streams : Len(jit'[t]) <= JitterSize
    BY <1>0, <1>4, Parameters DEF BufferTypes, Room
  <2>. QED  BY <2>1, <2>2 DEF BufferTypes
<1>7. \A t \in Streams : t # s => /\ prod'[t] = prod[t] /\ jit'[t] = jit[t] /\ held'[t] = held[t]
  BY <1>0 DEF TaskTypes, BufferTypes
<1>8. Unstarted'  BY <1>0, <1>2, <1>7, Numbers DEF Unstarted, Fresh
<1>9. Produced'
  <2>1. /\ prod'[s] \in {"get", "put", "end", "file"} => Unended(jit'[s])
        /\ prod'[s] \notin {"put", "end", "file"}
    BY <1>0, <1>3, <1>4 DEF TaskTypes, BufferTypes
  <2>. QED  BY <1>0, <1>7, <2>1 DEF Produced
<1>. QED  BY <1>1, <1>5, <1>6, <1>8, <1>9, GroupsNext

LEMMA ChunkTimeoutTyped == ASSUME Typed, NEW s \in Streams, ChunkTimeout(s) PROVE Typed'
<1>. USE DEF ChunkTimeout
<1>0. /\ FeedTypes /\ TaskTypes /\ BufferTypes /\ CallTypes /\ PlayTypes /\ StopTypes
      /\ Unstarted /\ Readers /\ Recorded /\ Cleaned /\ Produced /\ Queued
  BY Groups
<1>1. FeedTypes' /\ CallTypes' /\ StopTypes' /\ Readers' /\ Recorded' /\ Cleaned' /\ Queued'
  BY <1>0 DEF FeedTypes, CallTypes, StopTypes, Readers, Recorded, Cleaned, Queued
<1>2. /\ filed' \in Seq(Frames) /\ rem' \in Seq(Frames) /\ BufferTypes'
      /\ \A t \in Streams : jit'[t] = jit[t] \/ jit'[t] = <<>>
  BY TakeTyped
<1>3. PlayTypes'  BY <1>0, <1>2 DEF PlayTypes
<1>4. s <= ns  BY Started
<1>5. TaskTypes'
  <2>1. held' \in [Streams -> Chunks \cup {End}]  BY <1>0 DEF TaskTypes
  <2>2. prod' \in [Streams -> {"get", "put", "end", "file", "drain", "clean", "stuck", "done"}]
    BY <1>0 DEF TaskTypes
  <2>. QED  BY <1>0, <2>1, <2>2 DEF TaskTypes
<1>6. \A t \in Streams : t # s => /\ prod'[t] = prod[t] /\ held'[t] = held[t]
  BY <1>0 DEF TaskTypes
<1>7. Unstarted'  BY <1>0, <1>2, <1>4, <1>6, Numbers DEF Unstarted, Fresh
<1>8. Produced'
  <2>1. /\ prod'[s] # "put" /\ held'[s] = End /\ Unended(jit[s])
    BY <1>0 DEF TaskTypes, Produced
  <2>2. \A t \in Streams : Unended(jit[t]) => Unended(jit'[t])  BY <1>2, EmptyBuffer
  <2>. QED  BY <1>0, <1>6, <2>1, <2>2 DEF Produced
<1>. QED  BY <1>1, <1>2, <1>3, <1>5, <1>7, <1>8, GroupsNext

LEMMA ProducerFiledTyped == ASSUME Typed, NEW s \in Streams, ProducerFiled(s) PROVE Typed'
<1>. USE DEF ProducerFiled
<1>0. /\ FeedTypes /\ TaskTypes /\ BufferTypes /\ CallTypes /\ PlayTypes /\ StopTypes
      /\ Unstarted /\ Readers /\ Recorded /\ Cleaned /\ Produced /\ Queued
  BY Groups
<1>1. /\ FeedTypes' /\ BufferTypes' /\ CallTypes' /\ PlayTypes' /\ StopTypes'
      /\ Readers' /\ Recorded' /\ Cleaned' /\ Queued'
  BY <1>0 DEF FeedTypes, BufferTypes, CallTypes, PlayTypes, StopTypes, Readers, Recorded,
     Cleaned, Queued
<1>2. TaskTypes'  BY <1>0 DEF TaskTypes
<1>3. s <= ns  BY Started
<1>4. Unstarted'  BY <1>0, <1>3, Numbers DEF Unstarted, Fresh, TaskTypes
<1>5. Produced'  BY <1>0 DEF Produced, TaskTypes
<1>. QED  BY <1>1, <1>2, <1>4, <1>5, GroupsNext

\* What CancelPacer and the end of the keepalive task do to the types.
LEMMA CancelTyped ==
  ASSUME Typed, NEW s \in 1..ns, CancelPacer(s)
  PROVE  /\ pacer' \in [Streams -> {"tick", "mute", "unmute", "file", "done"}]
         /\ pacer'[s] = "done" /\ \A t \in Streams : t # s => pacer'[t] = pacer[t]
         /\ muted' \in BOOLEAN
         /\ flawed' \subseteq {"order", "mute", "unmute", "cleanup", "pacer", "orphan"}
<1>1. /\ pacer \in [Streams -> {"tick", "mute", "unmute", "file", "done"}] /\ s \in Streams
      /\ flawed \subseteq {"order", "mute", "unmute", "cleanup", "pacer", "orphan"}
      /\ muted \in BOOLEAN
  BY Groups, Numbers DEF TaskTypes, StopTypes, CallTypes
<1>2. muted' \in {muted, TRUE, FALSE}  BY DEF CancelPacer
<1>3. muted' \in BOOLEAN  BY <1>1, <1>2
<1>. QED  BY <1>1, <1>3 DEF CancelPacer

LEMMA DrainedTyped == ASSUME Typed, NEW s \in Streams, Drained(s) PROVE Typed'
<1>. USE DEF Drained
<1>0. /\ FeedTypes /\ TaskTypes /\ BufferTypes /\ CallTypes /\ PlayTypes /\ StopTypes
      /\ Unstarted /\ Readers /\ Recorded /\ Cleaned /\ Produced /\ Queued
  BY Groups
<1>1. /\ prod[s] = "drain"
      /\ \/ active = 0 /\ UNCHANGED <<pacer, muted, flawed>>
         \/ active \in 1..ns /\ CancelPacer(active)
      /\ keepTask' = 0
      /\ \/ keep' = keep
         \/ keepTask \in Streams /\ keep' = [keep EXCEPT ![keepTask] = "off"]
      /\ \/ /\ clean = NoClean /\ clean' = [s |-> s, by |-> "producer", at |-> "grace"]
            /\ prod' = [prod EXCEPT ![s] = "clean"]
         \/ prod' = [prod EXCEPT ![s] = "done"] /\ clean' = clean
      /\ UNCHANGED <<provider, continuous, feedVars, ns, reader, rec, held, bufVars, active,
                     info, ready, tokens, outVars, barge>>
  BY <1>0, Numbers DEF TaskTypes
<1>. HIDE DEF Drained
<1>2. FeedTypes' /\ BufferTypes' /\ PlayTypes' /\ Readers' /\ Queued'
  BY <1>0, <1>1 DEF FeedTypes, BufferTypes, PlayTypes, Readers, Queued
<1>3. /\ pacer' \in [Streams -> {"tick", "mute", "unmute", "file", "done"}]
      /\ \A t \in Streams : pacer'[t] = pacer[t] \/ pacer'[t] = "done"
      /\ muted' \in BOOLEAN
      /\ flawed' \subseteq {"order", "mute", "unmute", "cleanup", "pacer", "orphan"}
  <2>1. CASE active = 0 /\ UNCHANGED <<pacer, muted, flawed>>
    BY <1>0, <2>1 DEF TaskTypes, CallTypes, StopTypes
  <2>2. CASE active \in 1..ns /\ CancelPacer(active)
    BY <2>2, CancelTyped
  <2>. QED  BY <1>1, <2>1, <2>2
<1>4. /\ keep' \in [Streams -> {"on", "file", "off"}]
      /\ \A t \in Streams : keep'[t] = keep[t] \/ keep'[t] = "off"
  BY <1>0, <1>1 DEF TaskTypes
<1>5. /\ prod' \in [Streams -> {"get", "put", "end", "file", "drain", "clean", "stuck", "done"}]
      /\ prod'[s] \in {"clean", "done"}
      /\ \A t \in Streams : t # s => prod'[t] = prod[t]
  BY <1>0, <1>1 DEF TaskTypes
<1>6. s \in 1..ns  BY <1>1, Started, Numbers
<1>7. TaskTypes'  BY <1>0, <1>1, <1>3, <1>4, <1>5 DEF TaskTypes
<1>8. CallTypes'  BY <1>0, <1>1, <1>3 DEF CallTypes
<1>9. clean' = clean \/ clean' = [s |-> s, by |-> "producer", at |-> "grace"]  BY <1>1
<1>10. StopTypes'  BY <1>0, <1>1, <1>3, <1>9 DEF StopTypes
<1>11. Cleaned'  BY <1>0, <1>1, <1>6, <1>9 DEF Cleaned
<1>12. Recorded'  BY <1>0, <1>1, <1>3 DEF Recorded
<1>13. Unstarted'  BY <1>0, <1>1, <1>3, <1>4, <1>5, <1>6, Numbers DEF Unstarted, Fresh
<1>14. Produced'  BY <1>0, <1>1, <1>5 DEF Produced
<1>. QED  BY <1>2, <1>7, <1>8, <1>10, <1>11, <1>12, <1>13, <1>14, GroupsNext
-----------------------------------------------------------------------------
(* Every step keeps the types: the pacer and the keepalive task *)

\* A pacer that changes its place leaves the rest of the types alone.
LEMMA PacerMoves ==
  ASSUME Typed, NEW s \in Streams, s <= ns, NEW x \in {"tick", "mute", "unmute", "file", "done"},
         pacer' = [pacer EXCEPT ![s] = x],
         \/ rec' = rec /\ x \notin {"mute", "unmute"}
         \/ active # 0 /\ rec' = [rec EXCEPT ![s] = active],
         UNCHANGED <<ns, nq, keepTask, reader, held, prod, keep>>
  PROVE  TaskTypes' /\ Recorded'
<1>1. TaskTypes /\ Recorded /\ active \in Streams \cup {0}
  BY Groups DEF CallTypes
<1>2. active # 0 => active \in 1..ns /\ active \in Streams  BY Numbers
<1>3. pacer' \in [Streams -> {"tick", "mute", "unmute", "file", "done"}] /\ pacer'[s] = x
      /\ \A t \in Streams : t # s => pacer'[t] = pacer[t]
  BY <1>1 DEF TaskTypes
<1>4. /\ rec' \in [Streams -> Streams \cup {0}]
      /\ \A t \in Streams : t # s => rec'[t] = rec[t]
      /\ x \in {"mute", "unmute"} => rec'[s] = active
  BY <1>1, <1>2 DEF TaskTypes
<1>5. TaskTypes'  BY <1>1, <1>3, <1>4 DEF TaskTypes
<1>6. Recorded'
  <2>1. x \in {"mute", "unmute"} => rec'[s] \in 1..ns  BY <1>2, <1>4
  <2>. QED  BY <1>1, <1>3, <1>4, <2>1 DEF Recorded
<1>. QED  BY <1>5, <1>6

LEMMA EmitTyped == ASSUME Typed, NEW s \in Streams, Emit(s) PROVE Typed'
<1>. USE DEF Emit, Ticking
<1>0. /\ FeedTypes /\ TaskTypes /\ BufferTypes /\ CallTypes /\ PlayTypes /\ StopTypes
      /\ Unstarted /\ Readers /\ Recorded /\ Cleaned /\ Produced /\ Queued
  BY Groups
<1>1. /\ HasFrame(s) /\ pacer[s] = "tick" /\ active # 0
      /\ ready' = TRUE /\ sent' = Append(sent, Head(Pending(s)))
      /\ rem' = Tail(Pending(s)) /\ jit' = Taken(s)
      /\ \/ UNCHANGED <<pacer, rec>>
         \/ pacer' = [pacer EXCEPT ![s] = "mute"] /\ rec' = [rec EXCEPT ![s] = active]
      /\ UNCHANGED <<provider, continuous, feedVars, ns, reader, prod, held, keep, keepTask,
                     q, jb, active, info, tokens, muted, filed, stopVars>>
  OBVIOUS
<1>. HIDE DEF Emit, Ticking
<1>2. s <= ns  BY <1>1, Started
<1>3. /\ Pending(s) \in Seq(Frames) /\ Pending(s) # <<>>
      /\ Taken(s) \in [Streams -> Buffers]
      /\ \A t \in Streams : /\ Len(Taken(s)[t]) <= JitterSize
                            /\ Unended(jit[t]) => Unended(Taken(s)[t])
                            /\ jit[t] = <<>> => Taken(s)[t] = <<>>
  BY <1>1, PendingTyped
<1>4. Head(Pending(s)) \in Frames /\ Tail(Pending(s)) \in Seq(Frames)
  BY <1>3, HeadTailProperties
<1>5. FeedTypes' /\ StopTypes' /\ Readers' /\ Cleaned' /\ Queued'
  BY <1>0, <1>1 DEF FeedTypes, StopTypes, Readers, Cleaned, Queued
<1>6. PlayTypes'  BY <1>0, <1>1, <1>4, AppendProperties DEF PlayTypes
<1>7. BufferTypes'  BY <1>1, <1>3 DEF BufferTypes
<1>8. CallTypes'
  <2>1. ready' \in BOOLEAN  BY <1>1
  <2>. QED  BY <1>0, <1>1, <2>1 DEF CallTypes
<1>9. TaskTypes' /\ Recorded'
  <2>1. CASE UNCHANGED <<pacer, rec>>  BY <1>0, <1>1, <2>1 DEF TaskTypes, Recorded
  <2>2. CASE pacer' = [pacer EXCEPT ![s] = "mute"] /\ rec' = [rec EXCEPT ![s] = active]
    BY <1>1, <1>2, <2>2, PacerMoves
  <2>. QED  BY <1>1, <2>1, <2>2
<1>10. Unstarted'
  <2>1. \A t \in Streams : t # s => pacer'[t] = pacer[t]  BY <1>0, <1>1 DEF TaskTypes
  <2>. QED  BY <1>0, <1>1, <1>2, <1>3, <2>1, Numbers DEF Unstarted, Fresh
<1>11. Produced'  BY <1>0, <1>1, <1>3 DEF Produced
<1>. QED  BY <1>5, <1>6, <1>7, <1>8, <1>9, <1>10, <1>11, GroupsNext

\* The frame that was not sent goes behind the rest of its chunk.
LEMMA PutBackTyped ==
  ASSUME Typed, NEW s \in Streams, HasFrame(s)
  PROVE  PutBack(s) \in Seq(Frames)
<1>1. Pending(s) \in Seq(Frames) /\ Pending(s) # <<>>  BY PendingTyped
<1>2. Head(Pending(s)) \in Frames /\ Tail(Pending(s)) \in Seq(Frames)
  BY <1>1, HeadTailProperties
<1>. QED  BY <1>2, AppendProperties DEF PutBack

LEMMA EmitWaitsTyped == ASSUME Typed, NEW s \in Streams, EmitWaits(s) PROVE Typed'
<1>. USE DEF EmitWaits
<1>0. /\ FeedTypes /\ TaskTypes /\ BufferTypes /\ CallTypes /\ PlayTypes /\ StopTypes
      /\ Unstarted /\ Readers /\ Recorded /\ Cleaned /\ Produced /\ Queued
  BY Groups
<1>1. /\ HasFrame(s) /\ ready' = TRUE /\ rem' = PutBack(s) /\ jit' = Taken(s) /\ NoteOrder(s)
      /\ UNCHANGED <<provider, continuous, feedVars, taskVars, q, jb, active, info, tokens,
                     muted, outVars, clean, barge>>
  OBVIOUS
<1>. HIDE DEF EmitWaits
<1>2. /\ Taken(s) \in [Streams -> Buffers]
      /\ \A t \in Streams : /\ Len(Taken(s)[t]) <= JitterSize
                            /\ Unended(jit[t]) => Unended(Taken(s)[t])
                            /\ jit[t] = <<>> => Taken(s)[t] = <<>>
  BY <1>1, PendingTyped
<1>3. FeedTypes' /\ TaskTypes' /\ Recorded' /\ Readers' /\ Cleaned' /\ Queued'
  BY <1>0, <1>1 DEF FeedTypes, TaskTypes, Recorded, Readers, Cleaned, Queued
<1>4. PlayTypes'  BY <1>0, <1>1, PutBackTyped DEF PlayTypes
<1>5. BufferTypes'  BY <1>1, <1>2 DEF BufferTypes
<1>6. CallTypes'
  <2>1. ready' \in BOOLEAN  BY <1>1
  <2>. QED  BY <1>0, <1>1, <2>1 DEF CallTypes
<1>7. StopTypes'  BY <1>0, <1>1 DEF StopTypes, NoteOrder
<1>8. Unstarted'  BY <1>0, <1>1, <1>2 DEF Unstarted, Fresh
<1>9. Produced'  BY <1>0, <1>1, <1>2 DEF Produced
<1>. QED  BY <1>3, <1>4, <1>5, <1>6, <1>7, <1>8, <1>9, GroupsNext

LEMMA EmitFailsTyped == ASSUME Typed, NEW s \in Streams, EmitFails(s) PROVE Typed'
<1>. USE DEF EmitFails, Ticking
<1>. DEFINE t1 == Taken(s)
            rest == IF jb = 0 THEN <<>> ELSE Unpack(t1[jb])
<1>0. /\ FeedTypes /\ TaskTypes /\ BufferTypes /\ CallTypes /\ PlayTypes /\ StopTypes
      /\ Unstarted /\ Readers /\ Recorded /\ Cleaned /\ Produced /\ Queued
  BY Groups
<1>1. /\ HasFrame(s) /\ pacer[s] = "tick" /\ active # 0
      /\ filed' = filed \o PutBack(s) \o rest
      /\ rem' = <<>> /\ jit' = (IF jb = 0 THEN t1 ELSE [t1 EXCEPT ![jb] = <<>>])
      /\ ready' = TRUE /\ pacer' = [pacer EXCEPT ![s] = "file"] /\ NoteOrder(s)
      /\ UNCHANGED <<provider, continuous, feedVars, ns, reader, rec, prod, held, keep, keepTask,
                     q, jb, active, info, tokens, muted, sent, clean, barge>>
  OBVIOUS
<1>. HIDE DEF EmitFails, Ticking
<1>2. s <= ns  BY <1>1, Started
<1>3. /\ t1 \in [Streams -> Buffers]
      /\ \A t \in Streams : /\ Len(t1[t]) <= JitterSize
                            /\ Unended(jit[t]) => Unended(t1[t])
                            /\ jit[t] = <<>> => t1[t] = <<>>
  BY <1>1, PendingTyped
<1>. HIDE DEF t1
<1>4. rest \in Seq(Frames)
  <2>1. <<>> \in Seq(Frames)  BY EmptySeq
  <2>2. jb # 0 => Unpack(t1[jb]) \in Seq(Frames)
    BY <1>3, Numbers, UnpackProperties
  <2>. QED  BY <2>1, <2>2
<1>. HIDE DEF rest
<1>5. filed' \in Seq(Frames) /\ rem' \in Seq(Frames)
  <2>1. filed \in Seq(Frames) /\ PutBack(s) \in Seq(Frames) /\ <<>> \in Seq(Frames)
    BY <1>0, <1>1, PutBackTyped, EmptySeq DEF PlayTypes
  <2>2. filed \o PutBack(s) \in Seq(Frames)  BY <2>1, ConcatProperties
  <2>. QED  BY <1>1, <1>4, <2>1, <2>2, ConcatProperties
<1>6. /\ jit' \in [Streams -> Buffers]
      /\ \A t \in Streams : jit'[t] = t1[t] \/ jit'[t] = <<>>
  BY <1>1, <1>3, EmptyBuffer, Numbers
<1>7. /\ \A t \in Streams : /\ Len(jit'[t]) <= JitterSize
                            /\ Unended(jit[t]) => Unended(jit'[t])
                            /\ jit[t] = <<>> => jit'[t] = <<>>
  BY <1>3, <1>6, EmptyBuffer, Parameters
<1>8. FeedTypes' /\ Readers' /\ Cleaned' /\ Queued'
  BY <1>0, <1>1 DEF FeedTypes, Readers, Cleaned, Queued
<1>9. PlayTypes'  BY <1>0, <1>1, <1>5 DEF PlayTypes
<1>10. BufferTypes'  BY <1>6, <1>7 DEF BufferTypes
<1>11. CallTypes'
  <2>1. ready' \in BOOLEAN  BY <1>1
  <2>. QED  BY <1>0, <1>1, <2>1 DEF CallTypes
<1>12. StopTypes'  BY <1>0, <1>1 DEF StopTypes, NoteOrder
<1>13. TaskTypes' /\ Recorded'  BY <1>1, <1>2, PacerMoves
<1>14. Unstarted'
  <2>1. \A t \in Streams : t # s => pacer'[t] = pacer[t]  BY <1>0, <1>1 DEF TaskTypes
  <2>. QED  BY <1>0, <1>1, <1>2, <1>7, <2>1, Numbers DEF Unstarted, Fresh
<1>15. Produced'  BY <1>0, <1>1, <1>7 DEF Produced
<1>. QED  BY <1>8, <1>9, <1>10, <1>11, <1>12, <1>13, <1>14, <1>15, GroupsNext

\* PacerDone and Idle change where the pacer is and nothing the types depend on.
LEMMA PacerDoneTyped == ASSUME Typed, NEW s \in Streams, PacerDone(s) \/ Idle(s) PROVE Typed'
<1>. USE DEF PacerDone, Idle, Ticking
<1>0. /\ FeedTypes /\ TaskTypes /\ BufferTypes /\ CallTypes /\ PlayTypes /\ StopTypes
      /\ Unstarted /\ Readers /\ Recorded /\ Cleaned /\ Produced /\ Queued
  BY Groups
<1>1. /\ pacer[s] \in {"tick", "file"}
      /\ \/ pacer' = [pacer EXCEPT ![s] = "done"] /\ rec' = rec
         \/ active # 0 /\ pacer' = [pacer EXCEPT ![s] = "unmute"] /\ rec' = [rec EXCEPT ![s] = active]
      /\ flawed' \subseteq flawed \cup {"pacer"}
      /\ UNCHANGED <<provider, continuous, feedVars, ns, reader, prod, held, keep, keepTask,
                     bufVars, callVars, outVars, clean, barge>>
  OBVIOUS
<1>. HIDE DEF PacerDone, Idle, Ticking
<1>2. s <= ns  BY <1>1, Started
<1>3. TaskTypes' /\ Recorded'  BY <1>1, <1>2, PacerMoves
<1>4. /\ FeedTypes' /\ BufferTypes' /\ CallTypes' /\ PlayTypes' /\ StopTypes'
      /\ Readers' /\ Cleaned' /\ Produced' /\ Queued'
  BY <1>0, <1>1 DEF FeedTypes, BufferTypes, CallTypes, PlayTypes, StopTypes, Readers, Cleaned,
     Produced, Queued
<1>5. Unstarted'
  <2>1. \A t \in Streams : t # s => pacer'[t] = pacer[t]  BY <1>0, <1>1 DEF TaskTypes
  <2>. QED  BY <1>0, <1>1, <1>2, <2>1, Numbers DEF Unstarted, Fresh
<1>. QED  BY <1>3, <1>4, <1>5, GroupsNext

\* The answer to a request to mute or unmute the channel: the record of the stream
\* that was read before is changed.
LEMMA AnsweredTyped ==
  ASSUME Typed, NEW s \in Streams, MuteAnswered(s) \/ UnmuteAnswered(s) PROVE Typed'
<1>. USE DEF MuteAnswered, UnmuteAnswered
<1>. DEFINE r == rec[s]
<1>0. /\ FeedTypes /\ TaskTypes /\ BufferTypes /\ CallTypes /\ PlayTypes /\ StopTypes
      /\ Unstarted /\ Readers /\ Recorded /\ Cleaned /\ Produced /\ Queued
  BY Groups
<1>1. /\ pacer[s] \in {"mute", "unmute"} /\ pacer' = [pacer EXCEPT ![s] = "tick"] /\ rec' = rec
      /\ muted' \in {muted, TRUE, FALSE}
      /\ \/ UNCHANGED <<info, active>>
         \/ /\ active' = r
            /\ \/ info' = [info EXCEPT ![r].muted = TRUE, ![r].first = TRUE]
               \/ info' = [info EXCEPT ![r].muted = FALSE]
      /\ UNCHANGED <<provider, continuous, feedVars, ns, reader, prod, held, keep,
                     keepTask, bufVars, ready, tokens, outVars, stopVars>>
  OBVIOUS
<1>. HIDE DEF MuteAnswered, UnmuteAnswered
<1>2. s <= ns  BY <1>1, Started
<1>3. r \in 1..ns /\ r \in Streams  BY <1>0, <1>1, Numbers DEF Recorded
<1>. HIDE DEF r
<1>4. TaskTypes' /\ Recorded'  BY <1>1, <1>2, PacerMoves
<1>5. /\ info' \in [Streams -> [muted : BOOLEAN, first : BOOLEAN, seg : {0, 1}, barge : BOOLEAN]]
      /\ \A t \in Streams : t # r => info'[t] = info[t]
  <2>. DEFINE i == info[r]
  <2>1. /\ info \in [Streams -> [muted : BOOLEAN, first : BOOLEAN, seg : {0, 1}, barge : BOOLEAN]]
        /\ i \in [muted : BOOLEAN, first : BOOLEAN, seg : {0, 1}, barge : BOOLEAN]
    BY <1>0, <1>3 DEF CallTypes
  <2>2. CASE info' = info  BY <2>1, <2>2
  <2>3. CASE info' = [info EXCEPT ![r] = [i EXCEPT !.muted = TRUE, !.first = TRUE]]
    <3>1. [i EXCEPT !.muted = TRUE, !.first = TRUE]
            \in [muted : BOOLEAN, first : BOOLEAN, seg : {0, 1}, barge : BOOLEAN]
      BY <2>1
    <3>. QED  BY <1>3, <2>1, <2>3, <3>1
  <2>4. CASE info' = [info EXCEPT ![r] = [i EXCEPT !.muted = FALSE]]
    <3>1. [i EXCEPT !.muted = FALSE]
            \in [muted : BOOLEAN, first : BOOLEAN, seg : {0, 1}, barge : BOOLEAN]
      BY <2>1
    <3>. QED  BY <1>3, <2>1, <2>4, <3>1
  <2>5. \/ info' = info
        \/ info' = [info EXCEPT ![r] = [i EXCEPT !.muted = TRUE, !.first = TRUE]]
        \/ info' = [info EXCEPT ![r] = [i EXCEPT !.muted = FALSE]]
    BY <1>1
  <2>. QED  BY <2>2, <2>3, <2>4, <2>5
<1>6. muted' \in BOOLEAN  BY <1>0, <1>1 DEF CallTypes
<1>7. active' \in Streams \cup {0} /\ active' <= ns'  BY <1>0, <1>1, <1>3 DEF CallTypes
<1>8. CallTypes'  BY <1>0, <1>1, <1>5, <1>6, <1>7 DEF CallTypes
<1>9. /\ FeedTypes' /\ BufferTypes' /\ PlayTypes' /\ StopTypes'
      /\ Readers' /\ Cleaned' /\ Produced' /\ Queued'
  BY <1>0, <1>1 DEF FeedTypes, BufferTypes, PlayTypes, StopTypes, Readers, Cleaned, Produced, Queued
<1>10. Unstarted'
  <2>1. \A t \in Streams : t # s => pacer'[t] = pacer[t]  BY <1>0, <1>1 DEF TaskTypes
  <2>. QED  BY <1>0, <1>1, <1>2, <1>3, <1>5, <2>1, Numbers DEF Unstarted, Fresh
<1>. QED  BY <1>4, <1>8, <1>9, <1>10, GroupsNext

LEMMA KeepaliveTyped ==
  ASSUME Typed, NEW s \in Streams, KeepaliveTimeout(s) \/ KeepaliveDone(s) PROVE Typed'
<1>. USE DEF KeepaliveTimeout, KeepaliveDone
<1>0. /\ FeedTypes /\ TaskTypes /\ BufferTypes /\ CallTypes /\ PlayTypes /\ StopTypes
      /\ Unstarted /\ Readers /\ Recorded /\ Cleaned /\ Produced /\ Queued
  BY Groups
<1>1. /\ keep[s] # "off"
      /\ \/ keep' = [keep EXCEPT ![s] = "off"] \/ keep' = [keep EXCEPT ![s] = "file"]
      /\ TakeBuffered \/ UNCHANGED <<filed, rem, jit>>
      /\ UNCHANGED <<provider, continuous, feedVars, ns, reader, rec, prod, held, pacer, keepTask,
                     q, jb, callVars, sent, stopVars>>
  BY <1>0 DEF TaskTypes
<1>. HIDE DEF KeepaliveTimeout, KeepaliveDone
<1>2. s <= ns  BY <1>1, Started
<1>3. /\ filed' \in Seq(Frames) /\ rem' \in Seq(Frames) /\ BufferTypes'
      /\ \A t \in Streams : jit'[t] = jit[t] \/ jit'[t] = <<>>
  <2>1. CASE TakeBuffered  BY <2>1, TakeTyped
  <2>2. CASE UNCHANGED <<filed, rem, jit>>  BY <1>0, <2>2 DEF PlayTypes, BufferTypes
  <2>. QED  BY <1>1, <2>1, <2>2
<1>4. PlayTypes'  BY <1>0, <1>1, <1>3 DEF PlayTypes
<1>5. /\ FeedTypes' /\ CallTypes' /\ StopTypes' /\ Readers' /\ Recorded' /\ Cleaned' /\ Queued'
  BY <1>0, <1>1 DEF FeedTypes, CallTypes, StopTypes, Readers, Recorded, Cleaned, Queued
<1>6. TaskTypes'  BY <1>0, <1>1 DEF TaskTypes
<1>7. Unstarted'
  <2>1. \A t \in Streams : t # s => keep'[t] = keep[t]  BY <1>0, <1>1 DEF TaskTypes
  <2>. QED  BY <1>0, <1>1, <1>2, <1>3, <2>1, Numbers DEF Unstarted, Fresh
<1>8. Produced'  BY <1>0, <1>1, <1>3, EmptyBuffer DEF Produced
<1>. QED  BY <1>3, <1>4, <1>5, <1>6, <1>7, <1>8, GroupsNext
-----------------------------------------------------------------------------
(* Every step keeps the types: the cleanup and the barge-in *)

LEMMA FinishTyped ==
  ASSUME Typed, NEW b \in Bargers, FinishBarge(b)
  PROVE  /\ feedQ' \in {feedQ, 0} /\ tokens' = {} /\ barge' \in [Bargers -> {"idle", "stop"}]
         /\ provider = "pipeline" => feedQ' = feedQ
BY Groups DEF FinishBarge, BargedQueue, StopTypes

LEMMA RemoveTyped ==
  ASSUME Typed, RemoveStream, clean # NoClean
  PROVE  /\ active' = 0 /\ jb' = 0 /\ rem' = <<>> /\ ready' = FALSE /\ clean' = NoClean
         /\ feedQ' \in {feedQ, 0} /\ barge' \in [Bargers -> {"idle", "stop"}]
         /\ provider = "pipeline" => feedQ' = feedQ
         /\ \/ clean.by = "producer" /\ prod' = [prod EXCEPT ![clean.s] = "done"]
            \/ clean.by \in Bargers /\ tokens' = {} /\ prod' = prod
<1>1. clean.by \in Bargers \cup {"producer"} /\ barge \in [Bargers -> {"idle", "stop"}]
  BY Groups DEF Cleaned, StopTypes
<1>2. CASE clean.by = "producer"  BY <1>1, <1>2 DEF RemoveStream
<1>3. CASE clean.by # "producer"
  <2>1. clean.by \in Bargers /\ FinishBarge(clean.by) /\ prod' = prod  BY <1>1, <1>3 DEF RemoveStream
  <2>. QED  BY <2>1, FinishTyped DEF RemoveStream
<1>. QED  BY <1>2, <1>3

\* What is common to both steps of the cleanup.
LEMMA RemovedTyped ==
  ASSUME Typed, RemoveStream, clean # NoClean,
         clean.by = "producer" => tokens' \subseteq tokens,
         muted' \in BOOLEAN, flawed' \subseteq flawed \cup {"orphan", "unmute"},
         sent' \in Seq(Frames),
         UNCHANGED <<provider, continuous, fed, open, nq, segActive, ns, reader, rec, held, pacer,
                     keep, keepTask, q, jit, info, filed>>
  PROVE  Typed'
<1>0. /\ FeedTypes /\ TaskTypes /\ BufferTypes /\ CallTypes /\ PlayTypes /\ StopTypes
      /\ Unstarted /\ Readers /\ Recorded /\ Cleaned /\ Produced /\ Queued
  BY Groups
<1>1. /\ active' = 0 /\ jb' = 0 /\ rem' = <<>> /\ ready' = FALSE /\ clean' = NoClean
      /\ feedQ' \in {feedQ, 0} /\ barge' \in [Bargers -> {"idle", "stop"}]
      /\ provider = "pipeline" => feedQ' = feedQ
      /\ \/ clean.by = "producer" /\ prod' = [prod EXCEPT ![clean.s] = "done"]
         \/ clean.by \in Bargers /\ tokens' = {} /\ prod' = prod
  BY RemoveTyped
<1>2. clean.s \in Streams  BY <1>0, Numbers DEF Cleaned
<1>3. /\ prod' \in [Streams -> {"get", "put", "end", "file", "drain", "clean", "stuck", "done"}]
      /\ \A t \in Streams : prod'[t] = prod[t] \/ prod'[t] = "done"
  BY <1>0, <1>1, <1>2 DEF TaskTypes
<1>4. tokens' \subseteq Streams \cup {Segment}
  BY <1>0, <1>1 DEF CallTypes
<1>5. FeedTypes'  BY <1>0, <1>1, Numbers DEF FeedTypes
<1>6. Queued'  BY <1>0, <1>1 DEF Queued
<1>7. TaskTypes'  BY <1>0, <1>3 DEF TaskTypes
<1>8. CallTypes'
  <2>1. ready' \in BOOLEAN  BY <1>1
  <2>. QED  BY <1>0, <1>1, <1>4, <2>1, Numbers DEF CallTypes
<1>9. PlayTypes'  BY <1>0, <1>1, EmptySeq DEF PlayTypes
<1>10. StopTypes'  BY <1>0, <1>1 DEF StopTypes, NoClean
<1>11. BufferTypes' /\ Readers' /\ Recorded'
  BY <1>0 DEF BufferTypes, Readers, Recorded
<1>12. Cleaned'  BY <1>1 DEF Cleaned, NoClean
<1>13. Unstarted'  BY <1>0, <1>3 DEF Unstarted, Fresh
<1>14. Produced'  BY <1>0, <1>3 DEF Produced
<1>. QED  BY <1>5, <1>6, <1>7, <1>8, <1>9, <1>10, <1>11, <1>12, <1>13, <1>14, GroupsNext

LEMMA CleanupTyped == ASSUME Typed, Cleanup PROVE Typed'
<1>. USE DEF Cleanup
<1>0. /\ FeedTypes /\ TaskTypes /\ BufferTypes /\ CallTypes /\ PlayTypes /\ StopTypes
      /\ Unstarted /\ Readers /\ Recorded /\ Cleaned /\ Produced /\ Queued
  BY Groups
<1>1. /\ clean.at = "grace"
      /\ sent' = IF rem # <<>> /\ ~(active # 0 /\ info[active].barge)
                 THEN Append(sent, Head(rem)) ELSE sent
      /\ flawed' \subseteq flawed \cup {"orphan"}
      /\ \/ /\ clean' = [clean EXCEPT !.at = "unmute"] /\ tokens' \subseteq tokens
            /\ UNCHANGED <<active, jb, rem, ready, prod, feedQ, barge>>
         \/ RemoveStream /\ (clean.by = "producer" => tokens' \subseteq tokens)
      /\ UNCHANGED <<provider, continuous, fed, open, nq, segActive, ns, reader, rec, held, pacer,
                     keep, keepTask, q, jit, info, muted, filed>>
  BY DEF NoteOrphan, CleanedTokens
<1>. HIDE DEF Cleanup
<1>2. clean # NoClean  BY <1>1 DEF NoClean
<1>3. sent' \in Seq(Frames)
  <2>1. rem # <<>> => Head(rem) \in Frames  BY <1>0, HeadTailProperties DEF PlayTypes
  <2>. QED  BY <1>0, <1>1, <2>1, AppendProperties DEF PlayTypes
<1>4. CASE /\ clean' = [clean EXCEPT !.at = "unmute"] /\ tokens' \subseteq tokens
           /\ UNCHANGED <<active, jb, rem, ready, prod, feedQ, barge>>
  <2>1. /\ FeedTypes' /\ TaskTypes' /\ BufferTypes' /\ Unstarted' /\ Readers' /\ Recorded'
        /\ Produced' /\ Queued'
    BY <1>0, <1>1, <1>4 DEF FeedTypes, TaskTypes, BufferTypes, Unstarted, Fresh, Readers,
       Recorded, Produced, Queued
  <2>2. CallTypes' /\ PlayTypes'  BY <1>0, <1>1, <1>3, <1>4 DEF CallTypes, PlayTypes
  <2>3. /\ clean' \in [s : Streams \cup {0}, by : Bargers \cup {"none", "producer"},
                       at : {"none", "grace", "unmute"}]
        /\ clean'.s = clean.s /\ clean'.by = clean.by /\ clean'.at = "unmute"
    BY <1>0, <1>4 DEF StopTypes
  <2>4. StopTypes'  BY <1>0, <1>1, <1>4, <2>3 DEF StopTypes
  <2>5. Cleaned'  BY <1>0, <1>1, <1>2, <2>3 DEF Cleaned
  <2>. QED  BY <2>1, <2>2, <2>4, <2>5, GroupsNext
<1>5. CASE RemoveStream /\ (clean.by = "producer" => tokens' \subseteq tokens)
  <2>1. muted' \in BOOLEAN  BY <1>0, <1>1 DEF CallTypes
  <2>. QED  BY <1>1, <1>2, <1>3, <1>5, <2>1, RemovedTyped
<1>. QED  BY <1>1, <1>4, <1>5

LEMMA CleanupUnmutedTyped == ASSUME Typed, CleanupUnmuted PROVE Typed'
<1>. USE DEF CleanupUnmuted
<1>0. CallTypes /\ PlayTypes  BY Groups
<1>1. muted' \in {muted, FALSE}  OBVIOUS
<1>2. muted' \in BOOLEAN  BY <1>0, <1>1 DEF CallTypes
<1>3. clean # NoClean  BY DEF NoClean
<1>4. sent' \in Seq(Frames)  BY <1>0 DEF PlayTypes
<1>5. flawed' \subseteq flawed \cup {"orphan", "unmute"}  BY DEF NoteOrphan
<1>6. RemoveStream /\ (clean.by = "producer" => tokens' \subseteq tokens)  OBVIOUS
<1>7. UNCHANGED <<provider, continuous, fed, open, nq, segActive, ns, reader, rec, held, pacer,
                  keep, keepTask, q, jit, info, filed>>
  OBVIOUS
<1>. HIDE DEF CleanupUnmuted
<1>. QED  BY <1>2, <1>3, <1>4, <1>5, <1>6, <1>7, RemovedTyped

\* A producer that is cancelled puts the sentinel if there is room.
LEMMA CancelProducerTyped ==
  ASSUME Typed, NEW s \in 1..ns, CancelProducer(s)
  PROVE  /\ prod' \in [Streams -> {"get", "put", "end", "file", "drain", "clean", "stuck", "done"}]
         /\ prod'[s] \in {"stuck", "done"}
         /\ \A t \in Streams : t # s => prod'[t] = prod[t] /\ jit'[t] = jit[t]
         /\ BufferTypes'
<1>1. /\ prod \in [Streams -> {"get", "put", "end", "file", "drain", "clean", "stuck", "done"}]
      /\ jit \in [Streams -> Buffers] /\ \A t \in Streams : Len(jit[t]) <= JitterSize
      /\ s \in Streams
  BY Groups, Numbers DEF TaskTypes, BufferTypes
<1>2. /\ prod' \in [Streams -> {"get", "put", "end", "file", "drain", "clean", "stuck", "done"}]
      /\ prod'[s] \in {"stuck", "done"} /\ \A t \in Streams : t # s => prod'[t] = prod[t]
  BY <1>1 DEF CancelProducer
<1>3. CASE prod[s] \in {"get", "put", "end", "file"} /\ Room(s)
  <2>1. Unended(jit[s])  BY <1>1, <1>3, Groups DEF Produced
  <2>2. End \in Chunks \cup {End}  OBVIOUS
  <2>3. /\ Append(jit[s], End) \in Buffers /\ Len(Append(jit[s], End)) = Len(jit[s]) + 1
        /\ Len(jit[s]) \in Nat
    BY <1>1, <2>1, <2>2, AppendBuffer, BufferSeq
  <2>4. jit' = [jit EXCEPT ![s] = Append(@, End)]  BY <1>3 DEF CancelProducer
  <2>5. jit' \in [Streams -> Buffers] /\ \A t \in Streams : t # s => jit'[t] = jit[t]
    BY <1>1, <2>3, <2>4
  <2>6. \A t \in Streams : Len(jit'[t]) <= JitterSize
    BY <1>1, <1>3, <2>3, <2>4, Parameters DEF Room
  <2>. QED  BY <1>2, <2>5, <2>6 DEF BufferTypes
<1>4. CASE ~(prod[s] \in {"get", "put", "end", "file"} /\ Room(s))
  <2>1. jit' = jit  BY <1>4 DEF CancelProducer
  <2>. QED  BY <1>1, <1>2, <2>1 DEF BufferTypes
<1>. QED  BY <1>3, <1>4

LEMMA BargeTyped == ASSUME Typed, NEW b \in Bargers, Barge(b) PROVE Typed'
<1>. USE DEF Barge
<1>0. /\ FeedTypes /\ TaskTypes /\ BufferTypes /\ CallTypes /\ PlayTypes /\ StopTypes
      /\ Unstarted /\ Readers /\ Recorded /\ Cleaned /\ Produced /\ Queued
  BY Groups
<1>1. /\ active # 0 /\ info' = [info EXCEPT ![active].barge = TRUE] /\ CancelProducer(active)
      /\ pacer' = [pacer EXCEPT ![active] = "done"]
      /\ muted' \in {muted, TRUE, FALSE}
      /\ flawed' \subseteq flawed \cup {"mute", "cleanup"}
      /\ keep' = IF keepTask = 0 THEN keep ELSE [keep EXCEPT ![keepTask] = "off"]
      /\ keepTask' = 0
      /\ \/ /\ clean' = [s |-> active, by |-> b, at |-> "grace"]
            /\ barge' = [barge EXCEPT ![b] = "stop"]
            /\ UNCHANGED <<feedQ, tokens>>
         \/ clean' \in {clean, NoClean} /\ FinishBarge(b)
      /\ UNCHANGED <<provider, continuous, fed, open, nq, segActive, ns, reader, rec, held, q,
                     jb, rem, active, ready, outVars>>
  OBVIOUS
<1>. HIDE DEF Barge
<1>2. active \in 1..ns /\ active \in Streams  BY <1>1, Numbers
<1>3. /\ prod' \in [Streams -> {"get", "put", "end", "file", "drain", "clean", "stuck", "done"}]
      /\ prod'[active] \in {"stuck", "done"}
      /\ \A t \in Streams : t # active => prod'[t] = prod[t] /\ jit'[t] = jit[t]
      /\ BufferTypes'
  BY <1>1, <1>2, CancelProducerTyped
<1>4. /\ pacer' \in [Streams -> {"tick", "mute", "unmute", "file", "done"}]
      /\ \A t \in Streams : pacer'[t] = pacer[t] \/ pacer'[t] = "done"
      /\ keep' \in [Streams -> {"on", "file", "off"}]
      /\ \A t \in Streams : keep'[t] = keep[t] \/ keep'[t] = "off"
  BY <1>0, <1>1, <1>2 DEF TaskTypes
<1>5. TaskTypes'  BY <1>0, <1>1, <1>3, <1>4 DEF TaskTypes
<1>6. /\ info' \in [Streams -> [muted : BOOLEAN, first : BOOLEAN, seg : {0, 1}, barge : BOOLEAN]]
      /\ \A t \in Streams : t # active => info'[t] = info[t]
  BY <1>0, <1>1, <1>2 DEF CallTypes
<1>7. /\ feedQ' \in {feedQ, 0} /\ tokens' \in {tokens, {}}
      /\ barge' \in [Bargers -> {"idle", "stop"}] /\ (provider = "pipeline" => feedQ' = feedQ)
  <2>1. CASE FinishBarge(b)  BY <2>1, FinishTyped
  <2>2. CASE barge' = [barge EXCEPT ![b] = "stop"] /\ UNCHANGED <<feedQ, tokens>>
    BY <1>0, <2>2 DEF StopTypes
  <2>. QED  BY <1>1, <2>1, <2>2
<1>8. CallTypes'
  <2>1. muted' \in BOOLEAN  BY <1>0, <1>1 DEF CallTypes
  <2>. QED  BY <1>0, <1>1, <1>6, <1>7, <2>1 DEF CallTypes
<1>9. clean' \in {clean, NoClean, [s |-> active, by |-> b, at |-> "grace"]}  BY <1>1
<1>10. b # "none"  BY StreamingAssumption
<1>11. StopTypes'
  <2>1. clean' \in [s : Streams \cup {0}, by : Bargers \cup {"none", "producer"},
                    at : {"none", "grace", "unmute"}]
    BY <1>0, <1>2, <1>9 DEF StopTypes, NoClean
  <2>. QED  BY <1>0, <1>1, <1>7, <2>1 DEF StopTypes
<1>12. Cleaned'  BY <1>0, <1>1, <1>2, <1>9, <1>10 DEF Cleaned
<1>13. FeedTypes'  BY <1>0, <1>1, <1>7, Numbers DEF FeedTypes
<1>14. Queued'  BY <1>0, <1>1, <1>7 DEF Queued
<1>15. PlayTypes' /\ Readers'  BY <1>0, <1>1 DEF PlayTypes, Readers
<1>16. Recorded'  BY <1>0, <1>1, <1>4 DEF Recorded
<1>17. Unstarted'
  BY <1>0, <1>1, <1>2, <1>3, <1>4, <1>6, Numbers DEF Unstarted, Fresh
<1>18. Produced'  BY <1>0, <1>1, <1>3 DEF Produced
<1>. QED
  BY <1>3, <1>5, <1>8, <1>11, <1>12, <1>13, <1>14, <1>15, <1>16, <1>17, <1>18, GroupsNext

LEMMA BargeIdleTyped == ASSUME Typed, NEW b \in Bargers, BargeIdle(b) PROVE Typed'
<1>. USE DEF BargeIdle
<1>0. /\ FeedTypes /\ TaskTypes /\ BufferTypes /\ CallTypes /\ PlayTypes /\ StopTypes
      /\ Unstarted /\ Readers /\ Recorded /\ Cleaned /\ Produced /\ Queued
  BY Groups
<1>1. /\ feedQ' \in {feedQ, 0} /\ tokens' = {} /\ barge' \in [Bargers -> {"idle", "stop"}]
      /\ provider = "pipeline" => feedQ' = feedQ
  BY FinishTyped
<1>2. FeedTypes'  BY <1>0, <1>1, Numbers DEF FeedTypes
<1>3. Queued'  BY <1>0, <1>1 DEF Queued
<1>4. CallTypes'  BY <1>0, <1>1 DEF CallTypes
<1>5. StopTypes'  BY <1>0, <1>1 DEF StopTypes
<1>6. /\ TaskTypes' /\ BufferTypes' /\ PlayTypes' /\ Unstarted' /\ Readers' /\ Recorded'
      /\ Cleaned' /\ Produced'
  BY <1>0 DEF TaskTypes, BufferTypes, PlayTypes, Unstarted, Fresh, Readers, Recorded, Cleaned,
     Produced
<1>. QED  BY <1>2, <1>3, <1>4, <1>5, <1>6, GroupsNext

LEMMA StutterTyped == ASSUME Typed, UNCHANGED vars PROVE Typed'
BY DEF vars, Typed, TypeOK, Layout, Unstarted, Fresh, Readers, Recorded, Cleaned, Produced, Queued

LEMMA NextTyped == Typed /\ [Next]_vars => Typed'
<1>. SUFFICES ASSUME Typed, [Next]_vars PROVE Typed'  OBVIOUS
<1>1. CASE Feed
  BY <1>1, AgentAudioTyped, AgentAudioDoneTyped, SpeakTyped, SynthesizeTyped DEF Feed
<1>2. ASSUME NEW s \in Streams, Producer(s) PROVE Typed'
  BY <1>2, GetTyped, PutTyped, ChunkTimeoutTyped, ProducerFiledTyped, DrainedTyped DEF Producer
<1>3. ASSUME NEW s \in Streams, Pacer(s) PROVE Typed'
  BY <1>3, EmitTyped, EmitWaitsTyped, EmitFailsTyped, PacerDoneTyped, AnsweredTyped DEF Pacer
<1>4. ASSUME NEW s \in Streams, Keepalive(s) PROVE Typed'
  BY <1>4, KeepaliveTyped DEF Keepalive
<1>5. CASE Cleanup \/ CleanupUnmuted  BY <1>5, CleanupTyped, CleanupUnmutedTyped
<1>6. ASSUME NEW b \in Bargers, Barge(b) \/ BargeIdle(b) PROVE Typed'
  BY <1>6, BargeTyped, BargeIdleTyped
<1>7. CASE UNCHANGED vars  BY <1>7, StutterTyped
<1>. QED  BY <1>1, <1>2, <1>3, <1>4, <1>5, <1>6, <1>7 DEF Next

(* Type correctness, for streams of every kind and number: the buffers hold chunks
   with at most one sentinel, at the end, and never more than jb_chunks
   (_stream_audio_loop, _pacer_loop, _cleanup_stream, stop_streaming_playback). *)
THEOREM TypeCorrect == Spec => []TypeOK
<1>1. Init => Typed  BY InitTyped
<1>2. Typed /\ [Next]_vars => Typed'  BY NextTyped
<1>3. Typed => TypeOK  BY DEF Typed
<1>. QED  BY <1>1, <1>2, <1>3, PTL DEF Spec
-----------------------------------------------------------------------------
(* One stream at a time, as long as no cleanup has removed the stream of another *)

\* Only the call's stream has a producer at work and a pacer, and a pacer has a
\* producer.
OneStream == \A s \in Streams :
  /\ prod[s] \notin {"done", "stuck"} => s = active
  /\ pacer[s] # "done" => s = active /\ prod[s] \notin {"done", "stuck", "clean"}
  /\ pacer[s] \in {"mute", "unmute"} => rec[s] = s

\* A cleanup is the producer's or a barge-in's that awaits it.
Cleaning ==
  /\ \A s \in Streams : prod[s] = "clean" => clean.by = "producer" /\ clean.s = s
  /\ clean.by = "producer" => prod[clean.s] = "clean"
  /\ clean.by \in Bargers => prod[clean.s] \in {"done", "stuck"} /\ barge[clean.by] = "stop"
  /\ jb = active

Tokens ==
  /\ \A s \in tokens \ {Segment} :
       prod[s] \notin {"done", "stuck"} \/ clean.s = s \/ clean.by \in Bargers
  /\ clean.by = "producer" /\ clean.at = "unmute" => clean.s \notin tokens

\* The continuous stream of a provider: its producer only ends with a barge-in, its
\* queue never ends.
Owned == provider # "pipeline" /\ continuous
Lasting == Owned =>
  /\ \A s \in Streams : prod[s] \in {"get", "put", "stuck", "done"}
  /\ \A k \in Queues : \A i \in 1..Len(q[k]) : q[k][i] # End
  /\ active # 0 /\ prod[active] \in {"done", "stuck"} => clean.by \in Bargers
Reading == Owned =>
  /\ feedQ = 0 => active = 0 \/ prod[active] = "done" \/ clean.by \in Bargers
  /\ feedQ # 0 => \/ \E s \in Streams : reader[s] = feedQ /\ prod[s] \in {"get", "put"}
                  \/ clean.by \in Bargers

Tasks == OneStream /\ Cleaning /\ Tokens /\ Lasting /\ Reading
TasksSound == Typed /\ ("orphan" \notin flawed => Tasks)

LEMMA InitTasks == Init => Tasks
BY StreamingAssumption, EmptyBuffer
   DEF Init, Tasks, OneStream, Cleaning, Tokens, Lasting, Owned, Reading,
   NoClean, Streams, Queues

\* A stream is only started when no other has a producer or a pacer left.
LEMMA StartTasks ==
  ASSUME Typed, Tasks, NEW k \in Queues, k = nq + 1,
         NEW gate \in SUBSET (Streams \cup {Segment}), StartStream(k, gate),
         gate \subseteq {Segment, active},
         active \in gate \ {Segment} => Owned,
         UNCHANGED <<provider, continuous, clean, barge>>
  PROVE  /\ OneStream' /\ Cleaning' /\ Tokens'
         /\ Owned => /\ \A s \in Streams : prod'[s] \in {"get", "put", "stuck", "done"}
                     /\ active' # 0 /\ prod'[active'] \in {"done", "stuck"} => clean'.by \in Bargers
                     /\ \/ IsActive /\ UNCHANGED <<prod, reader, active>>
                        \/ ~IsActive /\ active' \in Streams /\ reader'[active'] = k
                           /\ prod'[active'] = "get"
<1>0. /\ FeedTypes /\ TaskTypes /\ BufferTypes /\ CallTypes /\ PlayTypes /\ StopTypes
      /\ Unstarted /\ Readers /\ Recorded /\ Cleaned /\ Produced /\ Queued
  BY Groups
<1>1. OneStream /\ Cleaning /\ Tokens /\ Lasting  BY DEF Tasks
<1>2. CASE IsActive
  <2>1. /\ UNCHANGED <<ns, reader, prod, held, pacer, rec, keep, keepTask, jit, jb, active,
                       info, ready>>
        /\ tokens' = tokens \cup gate
    BY <1>2 DEF StartStream
  <2>2. OneStream' /\ Cleaning'  BY <1>1, <2>1 DEF OneStream, Cleaning
  <2>3. Tokens'
    <3>1. ASSUME active \in gate \ {Segment}
          PROVE  prod[active] \notin {"done", "stuck"} \/ clean.by \in Bargers
      BY <1>1, <3>1 DEF Lasting, Segment
    <3>2. clean.by = "producer" => prod[clean.s] = "clean" /\ clean.by \notin Bargers
      BY <1>1, StreamingAssumption DEF Cleaning
    <3>3. clean.by = "producer" => ~Owned \/ clean.s \notin Streams
      BY <1>1, <3>2 DEF Lasting
    <3>4. clean.by = "producer" => clean.s \in Streams  BY <1>0, Numbers DEF Cleaned, NoClean
    <3>5. clean.by = "producer" => clean.s \notin gate
      <4>1. SUFFICES ASSUME clean.by = "producer", clean.s \in gate PROVE FALSE  OBVIOUS
      <4>2. clean.s # Segment  BY <3>4, <4>1 DEF Streams, Segment
      <4>. QED  BY <3>3, <3>4, <4>1, <4>2
    <3>6. \A s \in gate \ {Segment} : s = active  OBVIOUS
    <3>7. \A s \in tokens' \ {Segment} :
            prod'[s] \notin {"done", "stuck"} \/ clean'.s = s \/ clean'.by \in Bargers
      BY <1>1, <2>1, <3>1, <3>6 DEF Tokens
    <3>8. clean'.by = "producer" /\ clean'.at = "unmute" => clean'.s \notin tokens'
      BY <1>1, <2>1, <3>5 DEF Tokens
    <3>. QED  BY <3>7, <3>8 DEF Tokens
  <2>. QED  BY <1>1, <1>2, <2>1, <2>2, <2>3 DEF Lasting
<1>3. CASE ~IsActive
  <2>. DEFINE t == ns + 1
  <2>1. t \in Streams /\ t > ns /\ Fresh(t) /\ t # 0
    BY <1>0, Numbers, Parameters DEF Queues, Streams, Unstarted
  <2>2. /\ reader' = [reader EXCEPT ![t] = k]
        /\ prod' = [prod EXCEPT ![t] = "get"] /\ pacer' = [pacer EXCEPT ![t] = "tick"]
        /\ jb' = t /\ active' = t
        /\ tokens' \subseteq tokens \cup gate \cup {t}
        /\ UNCHANGED <<rec, jit, info>>
    BY <1>3 DEF StartStream
  <2>. HIDE DEF t
  <2>3. /\ prod'[t] = "get" /\ pacer'[t] = "tick" /\ reader'[t] = k
        /\ \A s \in Streams : s # t => prod'[s] = prod[s] /\ pacer'[s] = pacer[s]
    BY <1>0, <2>1, <2>2 DEF TaskTypes
  <2>4. \A s \in Streams : prod[s] \in {"done", "stuck"} /\ pacer[s] = "done"
    <3>. SUFFICES ASSUME NEW s \in Streams
                  PROVE  prod[s] \in {"done", "stuck"} /\ pacer[s] = "done"
      OBVIOUS
    <3>1. CASE s = active
      <4>1. s # 0  BY DEF Streams
      <4>2. prod[s] = "done"  BY <1>3, <3>1, <4>1 DEF IsActive
      <4>. QED  BY <1>1, <4>2 DEF OneStream
    <3>2. CASE s # active  BY <1>1, <3>2 DEF OneStream
    <3>. QED  BY <3>1, <3>2
  <2>5. OneStream'  BY <2>2, <2>3, <2>4 DEF OneStream
  <2>6. clean = NoClean \/ (clean.s \in Streams /\ clean.s # t)
    BY <1>0, <2>1, Numbers DEF Cleaned
  <2>7. clean.by # "producer"
    BY <1>1, <2>4, <2>6 DEF Cleaning, NoClean
  <2>8. clean.by \in Bargers => prod'[clean.s] \in {"done", "stuck"} /\ barge[clean.by] = "stop"
    BY <1>1, <2>3, <2>6, StreamingAssumption DEF Cleaning, NoClean
  <2>9. Cleaning'  BY <2>2, <2>3, <2>4, <2>7, <2>8 DEF Cleaning
  <2>10. Tokens'
    <3>1. ASSUME active \in gate \ {Segment} PROVE clean.by \in Bargers
      <4>1. active # 0 /\ active \in Streams  BY <1>0, <3>1 DEF CallTypes, Segment
      <4>. QED  BY <1>1, <2>4, <3>1, <4>1 DEF Lasting
    <3>2. ASSUME NEW s \in tokens' \ {Segment}
          PROVE  prod'[s] \notin {"done", "stuck"} \/ clean'.s = s \/ clean'.by \in Bargers
      <4>1. CASE s = t  BY <2>3, <4>1
      <4>2. CASE s \in gate  BY <3>1, <4>2
      <4>3. CASE s \in tokens
        <5>1. s \in Streams  BY <1>0, <3>2, <4>3 DEF CallTypes
        <5>. QED  BY <1>1, <2>4, <3>2, <4>3, <5>1 DEF Tokens
      <4>. QED  BY <2>2, <3>2, <4>1, <4>2, <4>3
    <3>. QED  BY <2>7, <3>2 DEF Tokens
  <2>11. Owned => \A s \in Streams : prod'[s] \in {"get", "put", "stuck", "done"}
    BY <2>3, <2>4
  <2>. QED  BY <1>3, <2>1, <2>2, <2>3, <2>5, <2>9, <2>10, <2>11
<1>. QED  BY <1>2, <1>3

LEMMA AgentAudioTasks == ASSUME Typed, Tasks, AgentAudio PROVE Tasks'
<1>. USE DEF AgentAudio
<1>. DEFINE gate == IF ~continuous \/ segActive THEN {}
                    ELSE IF active # 0 THEN {active}
                    ELSE IF tokens = {} THEN {Segment} ELSE {}
            k == IF feedQ = 0 THEN nq + 1 ELSE feedQ
            x == fed + 1
<1>0. /\ FeedTypes /\ TaskTypes /\ CallTypes /\ StopTypes /\ Queued
      /\ OneStream /\ Cleaning /\ Tokens /\ Lasting /\ Reading
  BY Groups DEF Tasks
<1>1. /\ provider # "pipeline" /\ feedQ' = k
      /\ q' = IF Len(q[k]) < QueueSize THEN [q EXCEPT ![k] = Append(@, x)] ELSE q
      /\ UNCHANGED <<provider, continuous, clean, barge>>
      /\ feedQ = 0 => nq < MaxQueues /\ nq' = k /\ StartStream(k, gate)
      /\ feedQ # 0 => /\ tokens' = tokens \cup gate
                      /\ UNCHANGED <<nq, taskVars, jit, jb, active, info, ready>>
  OBVIOUS
<1>2. /\ gate \in SUBSET (Streams \cup {Segment}) /\ gate \subseteq {Segment, active}
      /\ active \in gate \ {Segment} => Owned
  BY <1>0, <1>1 DEF CallTypes, Segment, Owned
<1>3. k \in Queues /\ k # 0 /\ x # End /\ x \in Chunks
  BY <1>1, Numbers, Parameters DEF Queues, End, Chunks
<1>. HIDE DEF AgentAudio, gate, x
<1>4. Owned => \A j \in Queues : \A i \in 1..Len(q'[j]) : q'[j][i] # End
  <2>1. SUFFICES ASSUME Owned, NEW j \in Queues, NEW i \in 1..Len(q'[j]) PROVE q'[j][i] # End
    OBVIOUS
  <2>2. CASE q'[j] = q[j]  BY <1>0, <2>1, <2>2 DEF Lasting
  <2>3. CASE q'[j] = Append(q[j], x)
    <3>1. q[j] \in Seq(Chunks \cup {End}) /\ Len(q[j]) \in Nat
      BY <1>0, BufferSeq DEF FeedTypes
    <3>2. /\ Len(q'[j]) = Len(q[j]) + 1
          /\ \A m \in 1..Len(q[j]) : q'[j][m] = q[j][m]
          /\ q'[j][Len(q[j]) + 1] = x
      BY <1>3, <2>3, <3>1, AppendProperties
    <3>. QED  BY <1>0, <1>3, <2>1, <3>1, <3>2 DEF Lasting
  <2>. QED  BY <1>0, <1>1, <1>3, <2>2, <2>3 DEF FeedTypes
<1>5. CASE feedQ = 0
  <2>1. k = nq + 1 /\ StartStream(k, gate)  BY <1>1, <1>5
  <2>. HIDE DEF k
  <2>2. /\ OneStream' /\ Cleaning' /\ Tokens'
        /\ Owned => /\ \A s \in Streams : prod'[s] \in {"get", "put", "stuck", "done"}
                    /\ active' # 0 /\ prod'[active'] \in {"done", "stuck"} => clean'.by \in Bargers
                    /\ \/ IsActive /\ UNCHANGED <<prod, reader, active>>
                       \/ ~IsActive /\ active' \in Streams /\ reader'[active'] = k
                          /\ prod'[active'] = "get"
    BY <1>1, <1>2, <1>3, <2>1, StartTasks
  <2>3. Owned' = Owned  BY <1>1 DEF Owned
  <2>4. Lasting'  BY <1>4, <2>2, <2>3 DEF Lasting
  <2>5. Reading'
    <3>1. SUFFICES ASSUME Owned
                   PROVE  \/ \E s \in Streams : reader'[s] = k /\ prod'[s] \in {"get", "put"}
                          \/ clean.by \in Bargers
      BY <1>1, <1>3, <2>3 DEF Reading
    <3>2. CASE IsActive  BY <1>0, <1>5, <3>1, <3>2 DEF Reading, IsActive
    <3>3. CASE ~IsActive  BY <2>2, <3>1, <3>3
    <3>. QED  BY <3>2, <3>3
  <2>. QED  BY <2>2, <2>4, <2>5 DEF Tasks
<1>6. CASE feedQ # 0
  <2>1. /\ tokens' = tokens \cup gate /\ feedQ' = feedQ
        /\ UNCHANGED <<nq, ns, reader, prod, held, pacer, rec, keep, keepTask, jit, jb, active,
                       info, ready>>
    BY <1>1, <1>6
  <2>2. OneStream' /\ Cleaning'  BY <1>0, <1>1, <2>1 DEF OneStream, Cleaning
  <2>3. Lasting' /\ Reading'  BY <1>0, <1>1, <1>4, <2>1 DEF Lasting, Reading, Owned
  <2>4. \A s \in tokens' \ {Segment} :
          prod'[s] \notin {"done", "stuck"} \/ clean'.s = s \/ clean'.by \in Bargers
    <3>1. active \in gate \ {Segment} => prod[active] \notin {"done", "stuck"} \/ clean.by \in Bargers
      BY <1>0, <1>2 DEF Lasting, Segment
    <3>. QED  BY <1>0, <1>1, <1>2, <2>1, <3>1 DEF Tokens
  <2>5. clean.by = "producer" /\ clean.at = "unmute" => clean.s \notin tokens'
    <3>1. SUFFICES ASSUME clean.by = "producer", clean.s \in gate PROVE FALSE
      BY <1>0, <2>1 DEF Tokens
    <3>2. clean.s \in Streams /\ clean.s # Segment
      BY <3>1, Groups, Numbers DEF Cleaned, NoClean, Streams, Segment
    <3>3. Owned /\ prod[clean.s] = "clean"  BY <1>0, <1>2, <3>1, <3>2 DEF Cleaning
    <3>. QED  BY <1>0, <3>2, <3>3 DEF Lasting
  <2>6. Tokens'  BY <1>1, <2>4, <2>5 DEF Tokens
  <2>. QED  BY <2>2, <2>3, <2>6 DEF Tasks
<1>. QED  BY <1>5, <1>6

LEMMA AgentAudioDoneTasks == ASSUME Typed, Tasks, AgentAudioDone PROVE Tasks'
<1>. USE DEF AgentAudioDone
<1>0. OneStream /\ Cleaning /\ Tokens /\ Lasting /\ Reading  BY DEF Tasks
<1>1. /\ tokens' \subseteq tokens
      /\ UNCHANGED <<provider, continuous, reader, prod, pacer, rec, active, jb, clean, barge>>
      /\ continuous => q' = q /\ feedQ' = feedQ
  BY DEF BoundaryTokens
<1>. HIDE DEF AgentAudioDone
<1>2. OneStream' /\ Cleaning' /\ Tokens'  BY <1>0, <1>1 DEF OneStream, Cleaning, Tokens
<1>3. Lasting' /\ Reading'  BY <1>0, <1>1 DEF Lasting, Reading, Owned
<1>. QED  BY <1>2, <1>3 DEF Tasks

LEMMA PipelineTasks == ASSUME Typed, Tasks, Speak \/ Synthesize \/ Spoken PROVE Tasks'
<1>. USE DEF Speak, Synthesize, Spoken
<1>0. OneStream /\ Cleaning /\ Tokens /\ Lasting /\ Reading  BY DEF Tasks
<1>1. provider = "pipeline" /\ UNCHANGED <<provider, continuous, clean, barge>>  OBVIOUS
<1>2. Lasting' /\ Reading'  BY <1>1 DEF Lasting, Reading, Owned
<1>3. CASE Speak
  <2>1. nq + 1 \in Queues  BY <1>3, Numbers, Parameters DEF Queues
  <2>2. {} \in SUBSET (Streams \cup {Segment}) /\ StartStream(nq + 1, {})  BY <1>3
  <2>. HIDE DEF Speak, Synthesize, Spoken
  <2>3. {} \subseteq {Segment, active} /\ active \notin {} \ {Segment}  OBVIOUS
  <2>4. OneStream' /\ Cleaning' /\ Tokens'
    <3>1. PICK k \in Queues : k = nq + 1  BY <2>1
    <3>2. PICK gate \in SUBSET (Streams \cup {Segment}) : gate = {}  BY <2>2
    <3>3. StartStream(k, gate) /\ gate \subseteq {Segment, active}
          /\ (active \in gate \ {Segment} => Owned)
      BY <2>2, <2>3, <3>1, <3>2
    <3>. QED  BY <1>1, <3>1, <3>3, StartTasks
  <2>. QED  BY <1>2, <2>4 DEF Tasks
<1>4. CASE Synthesize \/ Spoken
  <2>1. UNCHANGED <<reader, prod, pacer, rec, active, jb, tokens, clean, barge>>  BY <1>4
  <2>2. OneStream' /\ Cleaning' /\ Tokens'  BY <1>0, <2>1 DEF OneStream, Cleaning, Tokens
  <2>. QED  BY <1>2, <2>2 DEF Tasks
<1>. QED  BY <1>3, <1>4

\* Steps of a producer that has not reached its end.
LEMMA ProducerTasks ==
  ASSUME Typed, Tasks, NEW s \in Streams, Get(s) \/ Put(s) \/ ChunkTimeout(s) \/ ProducerFiled(s)
  PROVE  Tasks'
<1>. USE DEF Get, Put, ChunkTimeout, ProducerFiled
<1>0. /\ FeedTypes /\ TaskTypes
      /\ OneStream /\ Cleaning /\ Tokens /\ Lasting /\ Reading
  BY Groups DEF Tasks
<1>1. /\ prod[s] \in {"get", "put", "end", "file"}
      /\ prod' \in {[prod EXCEPT ![s] = x] : x \in {"get", "put", "end", "file", "drain"}}
      /\ UNCHANGED <<provider, continuous, feedQ, reader, pacer, rec, active, jb, tokens, clean, barge>>
  BY DEF TakeBuffered
<1>2. /\ prod'[s] \in {"get", "put", "end", "file", "drain"}
      /\ \A t \in Streams : t # s => prod'[t] = prod[t]
      /\ \A t \in Streams : prod'[t] = prod[t]
                            \/ (t = s /\ prod[t] \notin {"done", "stuck", "clean"}
                                      /\ prod'[t] \notin {"done", "stuck", "clean"})
  BY <1>0, <1>1 DEF TaskTypes
<1>3. Owned => /\ prod'[s] \in {"get", "put"}
               /\ \A j \in Queues : \A i \in 1..Len(q'[j]) : q'[j][i] # End
  <2>1. SUFFICES ASSUME Owned PROVE /\ prod'[s] \in {"get", "put"}
                                    /\ \A j \in Queues : \A i \in 1..Len(q'[j]) : q'[j][i] # End
    OBVIOUS
  <2>2. prod[s] \in {"get", "put"} /\ continuous  BY <1>0, <1>1, <2>1 DEF Lasting, Owned
  <2>3. CASE Get(s)
    <3>. DEFINE k == reader[s]
    <3>1. k \in Queues  BY <2>3, Started
    <3>2. q[k] \in Buffers /\ q[k] # <<>>  BY <1>0, <2>3, <3>1 DEF FeedTypes
    <3>3. /\ Len(q[k]) \in Nat \ {0} /\ Head(q[k]) = q[k][1]
          /\ Len(Tail(q[k])) = Len(q[k]) - 1
          /\ \A i \in 1..(Len(q[k]) - 1) : Tail(q[k])[i] = q[k][i + 1]
      BY <3>2, TailBuffer
    <3>4. \A j \in Queues : \A i \in 1..Len(q[j]) : q[j][i] # End  BY <1>0, <2>1 DEF Lasting
    <3>5. Head(q[k]) # End  BY <3>1, <3>3, <3>4
    <3>6. prod'[s] \in {"get", "put"}  BY <1>0, <2>3, <3>5 DEF TaskTypes
    <3>7. q'[k] = Tail(q[k]) /\ \A j \in Queues : j # k => q'[j] = q[j]
      BY <1>0, <2>3, <3>1 DEF FeedTypes
    <3>8. \A i \in 1..Len(Tail(q[k])) : i + 1 \in 1..Len(q[k]) /\ i \in 1..(Len(q[k]) - 1)  BY <3>3
    <3>. HIDE DEF k
    <3>9. \A i \in 1..Len(q'[k]) : q'[k][i] # End  BY <3>1, <3>3, <3>4, <3>7, <3>8
    <3>. QED  BY <3>4, <3>6, <3>7, <3>9
  <2>4. CASE Put(s)
    <3>1. q' = q /\ prod'[s] = "get"  BY <1>0, <2>2, <2>4 DEF TaskTypes
    <3>. QED  BY <1>0, <2>1, <3>1 DEF Lasting
  <2>5. ~ChunkTimeout(s) /\ ~ProducerFiled(s)  BY <2>2
  <2>. QED  BY <2>3, <2>4, <2>5
<1>. HIDE DEF Get, Put, ChunkTimeout, ProducerFiled
<1>4. OneStream'  BY <1>0, <1>1, <1>2 DEF OneStream
<1>5. Cleaning'
  <2>1. clean.by \in Bargers \cup {"producer"} => clean.s \in Streams
    BY Groups, Numbers, StreamingAssumption DEF Cleaned, NoClean
  <2>. QED  BY <1>0, <1>1, <1>2, <2>1 DEF Cleaning
<1>6. Tokens'
  <2>1. \A t \in tokens \ {Segment} : t \in Streams  BY Groups DEF CallTypes
  <2>. QED  BY <1>0, <1>1, <1>2, <2>1 DEF Tokens
<1>7. Owned' = Owned  BY <1>1 DEF Owned
<1>8. Lasting'
  <2>1. active # 0 => active \in Streams  BY Numbers
  <2>. QED  BY <1>0, <1>1, <1>2, <1>3, <1>7, <2>1 DEF Lasting
<1>9. Reading'
  <2>1. active # 0 => active \in Streams  BY Numbers
  <2>2. SUFFICES ASSUME Owned
        PROVE  /\ feedQ = 0 => active = 0 \/ prod'[active] = "done" \/ clean.by \in Bargers
               /\ feedQ # 0 => \/ \E t \in Streams : reader[t] = feedQ /\ prod'[t] \in {"get", "put"}
                               \/ clean.by \in Bargers
    BY <1>1, <1>7 DEF Reading
  <2>3. feedQ = 0 => active = 0 \/ prod'[active] = "done" \/ clean.by \in Bargers
    BY <1>0, <1>2, <2>1, <2>2 DEF Reading
  <2>4. ASSUME NEW t \in Streams, reader[t] = feedQ, prod[t] \in {"get", "put"}
        PROVE  prod'[t] \in {"get", "put"}
    BY <1>2, <1>3, <2>2, <2>4
  <2>. QED  BY <1>0, <2>2, <2>3, <2>4 DEF Reading
<1>. QED  BY <1>4, <1>5, <1>6, <1>8, <1>9 DEF Tasks

LEMMA DrainedTasks == ASSUME Typed, Tasks, NEW s \in Streams, Drained(s) PROVE Tasks'
<1>. USE DEF Drained
<1>0. TaskTypes /\ OneStream /\ Cleaning /\ Tokens /\ Lasting /\ Reading  BY Groups DEF Tasks
<1>1. /\ prod[s] = "drain"
      /\ \/ /\ clean = NoClean /\ clean' = [s |-> s, by |-> "producer", at |-> "grace"]
            /\ prod' = [prod EXCEPT ![s] = "clean"]
         \/ clean # NoClean /\ prod' = [prod EXCEPT ![s] = "done"] /\ clean' = clean
      /\ UNCHANGED <<provider, continuous, feedQ, reader, rec, q, active, jb, tokens, barge>>
      /\ active # 0 => CancelPacer(active)
  OBVIOUS
<1>. HIDE DEF Drained
<1>2. s = active /\ s # 0  BY <1>0, <1>1 DEF OneStream, Streams
<1>3. pacer' = [pacer EXCEPT ![s] = "done"]  BY <1>1, <1>2 DEF CancelPacer
<1>4. /\ pacer'[s] = "done" /\ prod'[s] \in {"clean", "done"}
      /\ \A t \in Streams : t # s => /\ pacer'[t] = pacer[t] /\ prod'[t] = prod[t]
                                     /\ prod[t] \in {"done", "stuck"} /\ pacer[t] = "done"
  BY <1>0, <1>1, <1>2, <1>3 DEF TaskTypes, OneStream
<1>5. OneStream'  BY <1>1, <1>2, <1>4 DEF OneStream
<1>6. "producer" \notin Bargers /\ "none" \notin Bargers  BY StreamingAssumption
<1>7. clean # NoClean => clean.by \in Bargers /\ clean.s \in Streams
  BY <1>0, <1>1, <1>4, Groups, Numbers DEF Cleaned, StopTypes, Cleaning
<1>8. Cleaning' /\ Tokens'
  <2>1. CASE clean = NoClean
    <3>1. /\ clean' = [s |-> s, by |-> "producer", at |-> "grace"] /\ prod'[s] = "clean"
      BY <1>0, <1>1, <2>1 DEF TaskTypes
    <3>2. /\ clean'.by = "producer" /\ clean'.s = s /\ clean'.at = "grace"  BY <3>1
    <3>3. Cleaning'  BY <1>0, <1>1, <1>4, <1>6, <3>1, <3>2 DEF Cleaning
    <3>4. \A t \in tokens \ {Segment} : t \in Streams  BY Groups DEF CallTypes
    <3>5. \A t \in tokens \ {Segment} : t = s
      BY <1>0, <1>4, <1>6, <2>1, <3>4, <1>1 DEF Tokens, NoClean, Streams
    <3>. QED  BY <1>1, <3>2, <3>3, <3>5 DEF Tokens
  <2>2. CASE clean # NoClean
    <3>1. clean' = clean /\ prod'[s] = "done"  BY <1>0, <1>1, <2>2 DEF TaskTypes
    <3>2. prod[clean.s] \in {"done", "stuck"} /\ barge[clean.by] = "stop"
      BY <1>0, <1>7, <2>2 DEF Cleaning
    <3>3. Cleaning'  BY <1>0, <1>1, <1>4, <1>6, <1>7, <2>2, <3>1, <3>2 DEF Cleaning
    <3>. QED  BY <1>0, <1>1, <1>6, <1>7, <2>2, <3>1, <3>3 DEF Tokens
  <2>. QED  BY <2>1, <2>2
<1>9. ~Owned /\ Owned' = Owned  BY <1>0, <1>1 DEF Lasting, Owned
<1>10. Lasting' /\ Reading'  BY <1>9 DEF Lasting, Reading
<1>. QED  BY <1>5, <1>8, <1>10 DEF Tasks

LEMMA PacerTasks ==
  ASSUME Typed, Tasks, NEW s \in Streams, Pacer(s) \/ Keepalive(s)
  PROVE  Tasks'
<1>. USE DEF Pacer, Keepalive, Emit, EmitWaits, EmitFails, PacerDone, MuteAnswered, Idle, UnmuteAnswered,
             KeepaliveTimeout, KeepaliveDone, Ticking
<1>0. TaskTypes /\ OneStream /\ Cleaning /\ Tokens /\ Lasting /\ Reading  BY Groups DEF Tasks
<1>1. /\ \/ UNCHANGED <<pacer, rec, active>>
         \/ /\ pacer[s] # "done" /\ active' = active /\ rec' = rec
            /\ \/ pacer' = [pacer EXCEPT ![s] = "done"]
               \/ pacer' = [pacer EXCEPT ![s] = "file"]
         \/ /\ pacer[s] # "done" /\ active' = active /\ rec' = [rec EXCEPT ![s] = active]
            /\ \/ pacer' = [pacer EXCEPT ![s] = "mute"]
               \/ pacer' = [pacer EXCEPT ![s] = "unmute"]
         \/ /\ pacer[s] \in {"mute", "unmute"} /\ active' \in {active, rec[s]} /\ rec' = rec
            /\ pacer' = [pacer EXCEPT ![s] = "tick"]
      /\ UNCHANGED <<provider, continuous, feedQ, q, reader, prod, jb, tokens, clean, barge>>
  <2>1. CASE Emit(s) \/ EmitWaits(s) \/ EmitFails(s)  BY <2>1
  <2>2. CASE PacerDone(s) \/ Idle(s)  BY <2>2
  <2>3. CASE MuteAnswered(s) \/ UnmuteAnswered(s)  BY <2>3
  <2>4. CASE KeepaliveTimeout(s) \/ KeepaliveDone(s)  BY <2>4 DEF TakeBuffered
  <2>. QED  BY <2>1, <2>2, <2>3, <2>4
<1>. HIDE DEF Pacer, Keepalive, Emit, EmitWaits, EmitFails, PacerDone, MuteAnswered, Idle,
              UnmuteAnswered, KeepaliveTimeout, KeepaliveDone, Ticking
<1>2. active' = active
  BY <1>0, <1>1 DEF OneStream
<1>3. OneStream'
  <2>1. CASE UNCHANGED <<pacer, rec, active>>  BY <1>0, <1>1, <2>1 DEF OneStream
  <2>2. CASE pacer[s] # "done"
    <3>1. s = active /\ prod[s] \notin {"done", "stuck", "clean"}  BY <1>0, <2>2 DEF OneStream
    <3>2. \A t \in Streams : t # s => pacer'[t] = pacer[t] /\ rec'[t] = rec[t]
      BY <1>0, <1>1 DEF TaskTypes
    <3>3. pacer'[s] \in {"mute", "unmute"} => rec'[s] = s
      BY <1>0, <1>1, <3>1 DEF TaskTypes, OneStream
    <3>. QED  BY <1>0, <1>1, <1>2, <3>1, <3>2, <3>3 DEF OneStream
  <2>. QED  BY <1>1, <2>1, <2>2
<1>4. Cleaning' /\ Tokens'  BY <1>0, <1>1, <1>2 DEF Cleaning, Tokens
<1>5. Lasting' /\ Reading'  BY <1>0, <1>1, <1>2 DEF Lasting, Reading, Owned
<1>. QED  BY <1>3, <1>4, <1>5 DEF Tasks

\* The cleanup removes the stream it is for, or says so.
LEMMA RemoveTasks ==
  ASSUME Typed, Tasks, RemoveStream, clean # NoClean, active \in {0, clean.s},
         clean.by = "producer" => tokens' \subseteq tokens /\ clean.s \notin tokens',
         UNCHANGED <<provider, continuous, reader, rec, pacer, q>>
  PROVE  Tasks'
<1>0. TaskTypes /\ OneStream /\ Cleaning /\ Tokens /\ Lasting /\ Reading  BY Groups DEF Tasks
<1>1. /\ active' = 0 /\ jb' = 0 /\ clean' = NoClean
      /\ \/ clean.by = "producer" /\ prod' = [prod EXCEPT ![clean.s] = "done"] /\ feedQ' = feedQ
         \/ clean.by \in Bargers /\ tokens' = {} /\ prod' = prod /\ feedQ' = BargedQueue
  BY RemoveTyped DEF RemoveStream, FinishBarge
<1>2. clean.s \in Streams  BY Groups, Numbers DEF Cleaned
<1>3. "producer" \notin Bargers /\ "none" \notin Bargers  BY StreamingAssumption
<1>4. \A t \in Streams : t # clean.s => prod[t] \in {"done", "stuck"} /\ prod'[t] = prod[t]
  <2>1. \A t \in Streams : t # clean.s => t # active  BY DEF Streams
  <2>2. \A t \in Streams : t # clean.s => prod[t] \in {"done", "stuck"}  BY <1>0, <2>1 DEF OneStream
  <2>3. \A t \in Streams : t # clean.s => prod'[t] = prod[t]  BY <1>0, <1>1, <1>2 DEF TaskTypes
  <2>. QED  BY <2>2, <2>3
<1>5. prod'[clean.s] \in {"done", "stuck"}
  BY <1>0, <1>1, <1>2 DEF Cleaning, TaskTypes
<1>6. \A t \in Streams : pacer[t] = "done"
  <2>1. SUFFICES ASSUME NEW t \in Streams, pacer[t] # "done" PROVE FALSE  OBVIOUS
  <2>2. t = active /\ prod[t] \notin {"done", "stuck", "clean"}  BY <1>0, <2>1 DEF OneStream
  <2>3. t = clean.s  BY <1>4, <2>2
  <2>. QED  BY <1>0, <1>1, <2>2, <2>3 DEF Cleaning
<1>7. OneStream'  BY <1>4, <1>5, <1>6 DEF OneStream
<1>8. NoClean.by = "none"  BY DEF NoClean
<1>9. Cleaning'  BY <1>1, <1>3, <1>4, <1>5, <1>8 DEF Cleaning
<1>10. Tokens'
  <2>1. CASE clean.by \in Bargers  BY <1>1, <1>3, <1>8, <2>1 DEF Tokens
  <2>2. CASE clean.by = "producer"
    <3>1. \A t \in tokens \ {Segment} : t \in Streams  BY Groups DEF CallTypes
    <3>2. tokens' \subseteq {Segment}
      BY <1>0, <1>3, <1>4, <2>2, <3>1 DEF Tokens
    <3>. QED  BY <1>1, <1>8, <3>2 DEF Tokens
  <2>. QED  BY <1>1, <2>1, <2>2
<1>11. Owned' = Owned  BY DEF Owned
<1>12. Owned => clean.by \in Bargers /\ feedQ' = 0
  BY <1>0, <1>1, <1>2 DEF Lasting, Cleaning, BargedQueue, Owned
<1>13. Lasting'  BY <1>0, <1>1, <1>4, <1>5, <1>11, <1>12 DEF Lasting
<1>14. Reading'  BY <1>1, <1>11, <1>12 DEF Reading
<1>. QED  BY <1>7, <1>9, <1>10, <1>13, <1>14 DEF Tasks

LEMMA CleanupTasks ==
  ASSUME Typed, Tasks, Cleanup \/ CleanupUnmuted, "orphan" \notin flawed'
  PROVE  Tasks'
<1>0. TaskTypes /\ OneStream /\ Cleaning /\ Tokens /\ Lasting /\ Reading  BY Groups DEF Tasks
<1>1. clean # NoClean  BY DEF Cleanup, CleanupUnmuted, NoClean
<1>2. active \in {0, clean.s}  BY DEF Cleanup, CleanupUnmuted, NoteOrphan
<1>3. UNCHANGED <<provider, continuous, reader, rec, pacer, q>>  BY DEF Cleanup, CleanupUnmuted
<1>4. CASE Cleanup /\ RemoveStream
  <2>1. clean.by = "producer" => tokens' = tokens \ {clean.s}
    <3>1. CASE active # 0 /\ info[active].muted
      <4>1. clean' = [clean EXCEPT !.at = "unmute"]  BY <1>4, <3>1 DEF Cleanup
      <4>2. clean' = NoClean /\ clean \in [s : Streams \cup {0}, by : Bargers \cup {"none", "producer"},
                                           at : {"none", "grace", "unmute"}]
        BY <1>4, Groups DEF RemoveStream, StopTypes
      <4>. QED  BY <4>1, <4>2 DEF NoClean
    <3>2. CASE ~(active # 0 /\ info[active].muted)
      BY <1>4, <3>2 DEF Cleanup, CleanedTokens
    <3>. QED  BY <3>1, <3>2
  <2>. QED  BY <1>1, <1>2, <1>3, <1>4, <2>1, RemoveTasks
<1>5. CASE CleanupUnmuted
  <2>1. RemoveStream /\ clean.at = "unmute" /\ (clean.by = "producer" => tokens' = tokens)
    BY <1>5 DEF CleanupUnmuted
  <2>. QED  BY <1>0, <1>1, <1>2, <1>3, <2>1, RemoveTasks DEF Tokens
<1>6. CASE Cleanup /\ ~RemoveStream
  <2>1. /\ clean' = [clean EXCEPT !.at = "unmute"] /\ tokens' = tokens \ {clean.s}
        /\ UNCHANGED <<active, jb, prod, feedQ, barge>>
    BY <1>6 DEF Cleanup, CleanedTokens
  <2>2. clean'.by = clean.by /\ clean'.s = clean.s
    BY <2>1, Groups DEF StopTypes
  <2>3. OneStream' /\ Cleaning'  BY <1>0, <1>3, <2>1, <2>2 DEF OneStream, Cleaning
  <2>4. Tokens'  BY <1>0, <2>1, <2>2 DEF Tokens
  <2>5. Lasting' /\ Reading'  BY <1>0, <1>3, <2>1, <2>2 DEF Lasting, Reading, Owned
  <2>. QED  BY <2>3, <2>4, <2>5 DEF Tasks
<1>. QED  BY <1>4, <1>5, <1>6

LEMMA BargeTasks == ASSUME Typed, Tasks, NEW b \in Bargers, Barge(b) PROVE Tasks'
<1>. USE DEF Barge
<1>0. TaskTypes /\ OneStream /\ Cleaning /\ Tokens /\ Lasting /\ Reading  BY Groups DEF Tasks
<1>1. /\ active # 0 /\ CancelProducer(active) /\ barge[b] = "idle"
      /\ pacer' = [pacer EXCEPT ![active] = "done"]
      /\ \/ /\ clean = NoClean
            /\ clean' = [s |-> active, by |-> b, at |-> "grace"]
            /\ barge' = [barge EXCEPT ![b] = "stop"]
            /\ UNCHANGED <<feedQ, tokens>>
         \/ /\ clean # NoClean
            /\ clean' = IF clean.by = "producer" /\ prod[active] = "clean" THEN NoClean ELSE clean
            /\ FinishBarge(b)
      /\ UNCHANGED <<provider, continuous, reader, rec, q, jb, active>>
  OBVIOUS
<1>. HIDE DEF Barge
<1>2. active \in 1..ns /\ active \in Streams  BY <1>1, Numbers
<1>3. /\ prod'[active] \in {"stuck", "done"}
      /\ \A t \in Streams : t # active => prod'[t] = prod[t] /\ prod[t] \in {"done", "stuck"}
  BY <1>0, <1>1, <1>2, CancelProducerTyped DEF OneStream
<1>4. \A t \in Streams : pacer'[t] = "done"
  BY <1>0, <1>1, <1>2 DEF OneStream, TaskTypes
<1>5. \A t \in Streams : prod'[t] \in {"done", "stuck"}  BY <1>3
<1>6. OneStream'  BY <1>1, <1>4, <1>5 DEF OneStream
<1>7. "producer" \notin Bargers /\ "none" \notin Bargers  BY StreamingAssumption
<1>8. Owned' = Owned /\ (Owned => provider # "pipeline")  BY <1>1 DEF Owned
<1>9. barge \in [Bargers -> {"idle", "stop"}]  BY Groups DEF StopTypes
<1>10. \A t \in tokens \ {Segment} : t \in Streams  BY Groups DEF CallTypes
<1>11. CASE clean = NoClean
  <2>1. /\ clean' = [s |-> active, by |-> b, at |-> "grace"]
        /\ barge' = [barge EXCEPT ![b] = "stop"] /\ UNCHANGED <<feedQ, tokens>>
    BY <1>1, <1>11
  <2>2. clean'.by = b /\ clean'.s = active  BY <2>1
  <2>3. b # "producer" /\ barge'[b] = "stop"  BY <1>7, <1>9, <2>1
  <2>4. Cleaning'  BY <1>0, <1>1, <1>2, <1>5, <2>2, <2>3 DEF Cleaning
  <2>5. Tokens'  BY <2>2, <2>3 DEF Tokens
  <2>6. Lasting' /\ Reading'  BY <1>0, <1>1, <1>5, <1>8, <2>2 DEF Lasting, Reading
  <2>. QED  BY <1>6, <2>4, <2>5, <2>6 DEF Tasks
<1>12. CASE clean # NoClean
  <2>1. /\ clean' = IF clean.by = "producer" /\ prod[active] = "clean" THEN NoClean ELSE clean
        /\ FinishBarge(b)
    BY <1>1, <1>12
  <2>2. clean.s \in Streams /\ clean.by \in Bargers \cup {"producer"}
    BY <1>12, Groups, Numbers DEF Cleaned, StopTypes
  <2>3. clean.by = "producer" => prod[active] = "clean"
    <3>1. SUFFICES ASSUME clean.by = "producer" PROVE prod[active] = "clean"  OBVIOUS
    <3>2. prod[clean.s] = "clean"  BY <1>0, <3>1 DEF Cleaning
    <3>3. clean.s = active  BY <1>0, <2>2, <3>2 DEF OneStream
    <3>. QED  BY <3>2, <3>3
  <2>4. /\ feedQ' = BargedQueue /\ tokens' = {} /\ barge' = [barge EXCEPT ![b] = "idle"]
    BY <2>1 DEF FinishBarge
  <2>5. NoClean.by = "none"  BY DEF NoClean
  <2>6. clean'.by # "producer" /\ (clean.by \in Bargers => clean' = clean)
    BY <1>7, <2>1, <2>2, <2>3, <2>5
  <2>7. clean'.by \in Bargers => clean' = clean /\ clean.by # b
    BY <1>0, <1>1, <1>7, <2>1, <2>5, <2>6 DEF Cleaning
  <2>8. Cleaning'
    BY <1>0, <1>1, <1>5, <1>9, <2>2, <2>4, <2>6, <2>7 DEF Cleaning
  <2>9. Tokens'  BY <2>4, <2>6 DEF Tokens
  <2>10. Owned => clean'.by \in Bargers
    BY <1>0, <1>2, <2>2, <2>3, <2>6 DEF Lasting
  <2>11. Lasting'  BY <1>0, <1>1, <1>5, <1>8, <2>10 DEF Lasting
  <2>12. Reading'  BY <1>8, <2>10 DEF Reading
  <2>. QED  BY <1>6, <2>8, <2>9, <2>11, <2>12 DEF Tasks
<1>. QED  BY <1>11, <1>12

LEMMA BargeIdleTasks == ASSUME Typed, Tasks, NEW b \in Bargers, BargeIdle(b) PROVE Tasks'
<1>. USE DEF BargeIdle
<1>0. TaskTypes /\ OneStream /\ Cleaning /\ Tokens /\ Lasting /\ Reading  BY Groups DEF Tasks
<1>1. /\ active = 0 /\ barge[b] = "idle"
      /\ feedQ' = BargedQueue /\ tokens' = {} /\ barge' = [barge EXCEPT ![b] = "idle"]
      /\ UNCHANGED <<provider, continuous, reader, rec, prod, pacer, q, jb, active, clean>>
  BY DEF FinishBarge
<1>. HIDE DEF BargeIdle
<1>2. barge' = barge  BY <1>1, Groups DEF StopTypes
<1>3. OneStream' /\ Cleaning'  BY <1>0, <1>1, <1>2 DEF OneStream, Cleaning
<1>4. Tokens'  BY <1>1 DEF Tokens
<1>5. Owned => feedQ' = 0  BY <1>1 DEF Owned, BargedQueue
<1>6. Lasting' /\ Reading'  BY <1>0, <1>1, <1>5 DEF Lasting, Reading, Owned
<1>. QED  BY <1>3, <1>4, <1>6 DEF Tasks

\* What has been noted is not forgotten.
LEMMA FlawedGrows == [Next]_vars => flawed \subseteq flawed'
<1>. SUFFICES ASSUME [Next]_vars PROVE flawed \subseteq flawed'  OBVIOUS
<1>1. CASE Feed
  BY <1>1 DEF Feed, AgentAudio, AgentAudioDone, Speak, Synthesize, Spoken
<1>2. ASSUME NEW s \in Streams, Producer(s) PROVE flawed \subseteq flawed'
  BY <1>2 DEF Producer, Get, Put, ChunkTimeout, ProducerFiled, Drained, CancelPacer
<1>3. ASSUME NEW s \in Streams, Pacer(s) PROVE flawed \subseteq flawed'
  BY <1>3 DEF Pacer, Emit, EmitWaits, EmitFails, PacerDone, MuteAnswered, Idle, UnmuteAnswered,
     NoteOrder
<1>4. ASSUME NEW s \in Streams, Keepalive(s) PROVE flawed \subseteq flawed'
  BY <1>4 DEF Keepalive, KeepaliveTimeout, KeepaliveDone
<1>5. CASE Cleanup \/ CleanupUnmuted  BY <1>5 DEF Cleanup, CleanupUnmuted
<1>6. ASSUME NEW b \in Bargers, Barge(b) \/ BargeIdle(b) PROVE flawed \subseteq flawed'
  BY <1>6 DEF Barge, BargeIdle
<1>7. CASE UNCHANGED vars  BY <1>7 DEF vars
<1>. QED  BY <1>1, <1>2, <1>3, <1>4, <1>5, <1>6, <1>7 DEF Next

LEMMA NextTasks == TasksSound /\ [Next]_vars => TasksSound'
<1>. SUFFICES ASSUME TasksSound, [Next]_vars PROVE TasksSound'  OBVIOUS
<1>1. Typed /\ Typed'  BY NextTyped DEF TasksSound
<1>2. SUFFICES ASSUME "orphan" \notin flawed' PROVE Tasks'  BY <1>1 DEF TasksSound
<1>3. Tasks  BY <1>2, FlawedGrows DEF TasksSound
<1>4. CASE Feed
  BY <1>1, <1>3, <1>4, AgentAudioTasks, AgentAudioDoneTasks, PipelineTasks DEF Feed
<1>5. ASSUME NEW s \in Streams, Producer(s) PROVE Tasks'
  BY <1>1, <1>3, <1>5, ProducerTasks, DrainedTasks DEF Producer
<1>6. ASSUME NEW s \in Streams, Pacer(s) \/ Keepalive(s) PROVE Tasks'
  BY <1>1, <1>3, <1>6, PacerTasks
<1>7. CASE Cleanup \/ CleanupUnmuted  BY <1>1, <1>2, <1>3, <1>7, CleanupTasks
<1>8. ASSUME NEW b \in Bargers, Barge(b) \/ BargeIdle(b) PROVE Tasks'
  BY <1>1, <1>3, <1>8, BargeTasks, BargeIdleTasks
<1>9. CASE UNCHANGED vars
  BY <1>3, <1>9 DEF vars, Tasks, OneStream, Cleaning, Tokens, Lasting, Reading, Owned
<1>. QED  BY <1>4, <1>5, <1>6, <1>7, <1>8, <1>9 DEF Next

LEMMA SpecTasks == Spec => []TasksSound
<1>1. Init => TasksSound  BY InitTyped, InitTasks DEF TasksSound
<1>. QED  BY <1>1, NextTasks, PTL DEF Spec

(* Whatever a barge-in, a response and a cleanup interleave to, two pacers never
   send to the caller at once: a stream is only started when the task of the one
   before is done, and then its pacer is too (is_stream_active,
   start_streaming_playback), unless a cleanup has removed the stream of another
   (_cleanup_stream, "orphan").                                               *)
THEOREM OnePacerHolds == Spec => []OnePacer
<1>1. TasksSound => OnePacer
  BY DEF TasksSound, Tasks, OneStream, OnePacer, Ticking
<1>. QED  BY <1>1, SpecTasks, PTL

(* A gating token is always the token of a stream whose producer, cleanup or
   barge-in will clear it, and the queue a provider's continuous answer goes to
   always has a reader or a barge-in about to drop it (_cleanup_stream,
   _apply_barge_in_action, "AgentAudio").                                     *)
THEOREM NothingLeftBehindHolds == Spec => []NothingLeftBehind
<1>1. TasksSound => TokenHasOwner
  BY DEF TasksSound, Tasks, Cleaning, Tokens, TokenHasOwner, Barged
<1>2. TasksSound => QueueIsRead
  BY DEF TasksSound, Tasks, Cleaning, Reading, Owned, QueueIsRead, Barged
<1>3. TasksSound => NothingLeftBehind  BY <1>1, <1>2 DEF NothingLeftBehind
<1>. QED  BY <1>3, SpecTasks, PTL
-----------------------------------------------------------------------------
(* Every frame once, and in order *)

\* The chunks of a buffer.
Items(b) == {b[i] : i \in 1..Len(b)} \ {End}

\* Frame x is older than chunk c.
Before(x, c) == x <= (c - 1) * FramesPerChunk

\* What has been played, or is about to be.
Heard == Elems(sent) \cup Elems(filed) \cup Elems(rem)

\* A muted channel has been warm.  When the call's pacer has stopped, nothing of a
\* chunk is left, so that the cleanup that unmutes has nothing to flush.
Muting ==
  /\ \A s \in Streams : pacer[s] = "mute" => ready /\ ~info[s].muted
  /\ \A s \in Streams : pacer[s] \in {"unmute", "file"} => rem = <<>>
  /\ active # 0 =>
       /\ info[active].muted => ready
       /\ pacer[active] = "done" /\ prod[active] \notin {"clean", "done", "stuck"} => rem = <<>>
       /\ prod[active] = "clean" /\ info[active].muted => rem = <<>>
  /\ clean.by \in Bargers => info[clean.s].barge

\* What is buffered is newer than what has been played: the buffer, then the chunk
\* the producer holds, then the queue it reads.
Behind == active # 0 =>
  LET s == active IN
  /\ Rising(jit[s])
  /\ \A c \in Items(jit[s]) : c <= fed /\ \A x \in Heard : Before(x, c)
  /\ prod[s] = "put" =>
       held[s] <= fed /\ (\A b \in Items(jit[s]) : b < held[s]) /\ \A x \in Heard : Before(x, held[s])
  /\ prod[s] \in {"get", "put"} => \A c \in Items(q[reader[s]]) :
       /\ \A b \in Items(jit[s]) : b < c
       /\ prod[s] = "put" => held[s] < c
       /\ \A x \in Heard : Before(x, c)
Flow ==
  /\ \A k \in Queues : Rising(q[k]) /\ \A c \in Items(q[k]) : c <= fed
  /\ \A x \in Heard : Before(x, fed + 1)
  /\ Behind

Distinct(f) == \A i, j \in DOMAIN f : i # j => f[i] # f[j]
Once ==
  /\ Distinct(sent) /\ Distinct(filed) /\ Distinct(rem)
  /\ Elems(sent) \cap Elems(filed) = {} /\ Elems(sent) \cap Elems(rem) = {}
  /\ Elems(filed) \cap Elems(rem) = {}

Order == "order" \notin flawed =>
  Ascending(sent) /\ Ascending(rem) /\ \A x \in Elems(sent), y \in Elems(rem) : x < y

Playing == Muting /\ Flow /\ Once /\ Order
PlayingSound == TasksSound /\ ("orphan" \notin flawed => Playing)
-----------------------------------------------------------------------------
(* Sequences of frames *)

LEMMA ElemsIndex ==
  ASSUME NEW f \in Seq(Frames)
  PROVE  /\ DOMAIN f = 1..Len(f) /\ Len(f) \in Nat
         /\ \A i \in 1..Len(f) : f[i] \in Elems(f)
         /\ \A x \in Elems(f) : \E i \in 1..Len(f) : f[i] = x
         /\ Elems(f) \subseteq Frames /\ Frames \subseteq Int
         /\ f = <<>> => Elems(f) = {}
<1>1. DOMAIN f = 1..Len(f) /\ Len(f) \in Nat  BY LenProperties
<1>2. \A i \in 1..Len(f) : f[i] \in Frames  BY ElementOfSeq
<1>3. f = <<>> => Len(f) = 0  BY EmptySeq
<1>4. Frames \subseteq Int  BY DEF Frames
<1>. QED  BY <1>1, <1>2, <1>3, <1>4 DEF Elems

LEMMA AppendElems ==
  ASSUME NEW f \in Seq(Frames), NEW x \in Frames
  PROVE  /\ Append(f, x) \in Seq(Frames)
         /\ Elems(Append(f, x)) = Elems(f) \cup {x}
         /\ Distinct(f) /\ x \notin Elems(f) => Distinct(Append(f, x))
         /\ Ascending(f) /\ (\A y \in Elems(f) : y < x) => Ascending(Append(f, x))
<1>. DEFINE g == Append(f, x)
            n == Len(f)
<1>1. /\ g \in Seq(Frames) /\ Len(g) = n + 1 /\ n \in Nat
      /\ \A i \in 1..n : g[i] = f[i]
      /\ g[n + 1] = x
  BY AppendProperties, LenProperties
<1>2. DOMAIN g = 1..(n + 1) /\ DOMAIN f = 1..n  BY <1>1, ElemsIndex
<1>. HIDE DEF g, n
<1>3. \A i \in 1..(n + 1) : i \in 1..n \/ i = n + 1  BY <1>1
<1>4. \A i \in 1..n : f[i] \in Elems(f)  BY <1>2 DEF Elems
<1>5. Elems(g) = Elems(f) \cup {x}
  <2>1. \A i \in 1..(n + 1) : g[i] \in Elems(f) \cup {x}  BY <1>1, <1>3, <1>4
  <2>2. 1..n \subseteq 1..(n + 1) /\ n + 1 \in 1..(n + 1)  BY <1>1
  <2>3. \A y \in Elems(f) : \E i \in 1..(n + 1) : g[i] = y
    BY <1>1, <1>2, <2>2 DEF Elems
  <2>. QED  BY <1>1, <1>2, <2>1, <2>2, <2>3 DEF Elems
<1>6. Distinct(f) /\ x \notin Elems(f) => Distinct(g)
  BY <1>1, <1>2, <1>3, <1>4 DEF Distinct
<1>7. Ascending(f) /\ (\A y \in Elems(f) : y < x) => Ascending(g)
  <2>1. SUFFICES ASSUME Ascending(f), \A y \in Elems(f) : y < x,
                        NEW i \in 1..(n + 1), NEW j \in 1..(n + 1), i < j
                 PROVE  g[i] < g[j]
    BY <1>2 DEF Ascending
  <2>2. i \in 1..n  BY <1>1, <2>1
  <2>3. CASE j \in 1..n  BY <1>1, <1>2, <2>1, <2>2, <2>3 DEF Ascending
  <2>4. CASE j = n + 1  BY <1>1, <1>4, <2>1, <2>2, <2>4
  <2>. QED  BY <1>3, <2>3, <2>4
<1>. QED  BY <1>1, <1>5, <1>6, <1>7 DEF g

LEMMA TailElems ==
  ASSUME NEW f \in Seq(Frames), f # <<>>
  PROVE  /\ Head(f) \in Frames /\ Tail(f) \in Seq(Frames)
         /\ Elems(f) = Elems(Tail(f)) \cup {Head(f)}
         /\ Distinct(f) => Distinct(Tail(f)) /\ Head(f) \notin Elems(Tail(f))
         /\ Ascending(f) => Ascending(Tail(f)) /\ \A y \in Elems(Tail(f)) : Head(f) < y
         /\ Len(f) <= 1 => Tail(f) = <<>>
<1>. DEFINE t == Tail(f)
            n == Len(f)
<1>1. n \in Nat \ {0} /\ DOMAIN f = 1..n  BY EmptySeq, LenProperties
<1>2. /\ Head(f) \in Frames /\ t \in Seq(Frames) /\ Len(t) = n - 1 /\ Head(f) = f[1]
      /\ \A i \in 1..(n - 1) : t[i] = f[i + 1]
  BY HeadTailProperties
<1>3. DOMAIN t = 1..(n - 1)  BY <1>2, LenProperties
<1>4. Len(f) <= 1 => t = <<>>
  <2>1. t # <<>> => Len(t) \in Nat \ {0}  BY <1>2, EmptySeq
  <2>. QED  BY <1>1, <1>2, <2>1
<1>. HIDE DEF t, n
<1>5. \A i \in 1..(n - 1) : i + 1 \in 1..n /\ i + 1 # 1  BY <1>1
<1>6. \A i \in 1..n : i = 1 \/ (i - 1 \in 1..(n - 1) /\ (i - 1) + 1 = i)  BY <1>1
<1>7. 1 \in 1..n  BY <1>1
<1>8. Elems(f) = Elems(t) \cup {Head(f)}
  <2>1. \A i \in 1..(n - 1) : t[i] \in Elems(f)  BY <1>1, <1>2, <1>5 DEF Elems
  <2>2. \A i \in 1..n : f[i] \in Elems(t) \cup {Head(f)}
    <3>1. ASSUME NEW i \in 1..n, i # 1 PROVE f[i] \in Elems(t)
      <4>1. i - 1 \in 1..(n - 1) /\ t[i - 1] = f[i]  BY <1>2, <1>6, <3>1
      <4>. QED  BY <1>3, <4>1 DEF Elems
    <3>. QED  BY <1>2, <3>1
  <2>3. Head(f) \in Elems(f)  BY <1>1, <1>2, <1>7 DEF Elems
  <2>. QED  BY <1>1, <1>3, <2>1, <2>2, <2>3 DEF Elems
<1>9. Distinct(f) => Distinct(t) /\ Head(f) \notin Elems(t)
  <2>1. SUFFICES ASSUME Distinct(f) PROVE Distinct(t) /\ Head(f) \notin Elems(t)  OBVIOUS
  <2>2. Distinct(t)
    <3>1. SUFFICES ASSUME NEW i \in 1..(n - 1), NEW j \in 1..(n - 1), i # j PROVE t[i] # t[j]
      BY <1>3 DEF Distinct
    <3>2. i + 1 # j + 1  BY <3>1
    <3>3. i + 1 \in DOMAIN f /\ j + 1 \in DOMAIN f  BY <1>1, <1>5
    <3>4. f[i + 1] # f[j + 1]  BY <2>1, <3>2, <3>3 DEF Distinct
    <3>5. t[i] = f[i + 1] /\ t[j] = f[j + 1]  BY <1>2
    <3>. QED  BY <3>4, <3>5
  <2>3. \A i \in 1..(n - 1) : t[i] # Head(f)
    <3>1. SUFFICES ASSUME NEW i \in 1..(n - 1) PROVE t[i] # Head(f)  OBVIOUS
    <3>2. i + 1 \in DOMAIN f /\ 1 \in DOMAIN f /\ i + 1 # 1  BY <1>1, <1>5, <1>7
    <3>3. f[i + 1] # f[1]  BY <2>1, <3>2 DEF Distinct
    <3>4. t[i] = f[i + 1] /\ Head(f) = f[1]  BY <1>2
    <3>. QED  BY <3>3, <3>4
  <2>. QED  BY <1>3, <2>2, <2>3 DEF Elems
<1>10. Ascending(f) => Ascending(t) /\ \A y \in Elems(t) : Head(f) < y
  <2>1. SUFFICES ASSUME Ascending(f) PROVE Ascending(t) /\ \A y \in Elems(t) : Head(f) < y
    OBVIOUS
  <2>2. Ascending(t)
    <3>1. SUFFICES ASSUME NEW i \in 1..(n - 1), NEW j \in 1..(n - 1), i < j PROVE t[i] < t[j]
      BY <1>3 DEF Ascending
    <3>2. i + 1 < j + 1  BY <3>1
    <3>3. i + 1 \in DOMAIN f /\ j + 1 \in DOMAIN f  BY <1>1, <1>5
    <3>4. f[i + 1] < f[j + 1]  BY <2>1, <3>2, <3>3 DEF Ascending
    <3>5. t[i] = f[i + 1] /\ t[j] = f[j + 1]  BY <1>2
    <3>. QED  BY <3>4, <3>5
  <2>3. \A i \in 1..(n - 1) : Head(f) < t[i]
    <3>1. SUFFICES ASSUME NEW i \in 1..(n - 1) PROVE Head(f) < t[i]  OBVIOUS
    <3>2. i + 1 \in DOMAIN f /\ 1 \in DOMAIN f /\ 1 < i + 1  BY <1>1, <1>5, <1>7
    <3>3. f[1] < f[i + 1]  BY <2>1, <3>2 DEF Ascending
    <3>4. t[i] = f[i + 1] /\ Head(f) = f[1]  BY <1>2
    <3>. QED  BY <3>3, <3>4
  <2>. QED  BY <1>3, <2>2, <2>3 DEF Elems
<1>. QED  BY <1>2, <1>4, <1>8, <1>9, <1>10 DEF t, n

LEMMA ConcatElems ==
  ASSUME NEW f \in Seq(Frames), NEW g \in Seq(Frames)
  PROVE  /\ f \o g \in Seq(Frames)
         /\ Elems(f \o g) = Elems(f) \cup Elems(g)
         /\ Distinct(f) /\ Distinct(g) /\ Elems(f) \cap Elems(g) = {} => Distinct(f \o g)
<1>. DEFINE h == f \o g
            m == Len(f)
            n == Len(g)
<1>1. /\ h \in Seq(Frames) /\ Len(h) = m + n
      /\ \A i \in 1..(m + n) : h[i] = IF i <= m THEN f[i] ELSE g[i - m]
  BY ConcatProperties
<1>2. /\ DOMAIN h = 1..(m + n) /\ DOMAIN f = 1..m /\ DOMAIN g = 1..n /\ m \in Nat /\ n \in Nat
      /\ \A i \in 1..m : f[i] \in Elems(f)
      /\ \A i \in 1..n : g[i] \in Elems(g)
  BY <1>1, ElemsIndex
<1>. HIDE DEF h, m, n
<1>3. \A i \in 1..(m + n) : \/ i \in 1..m /\ h[i] = f[i]
                            \/ i - m \in 1..n /\ h[i] = g[i - m] /\ i > m
  BY <1>1, <1>2
<1>4. \A i \in 1..m : i \in 1..(m + n) /\ h[i] = f[i]  BY <1>1, <1>2
<1>5. \A i \in 1..n : i + m \in 1..(m + n) /\ h[i + m] = g[i]
  <2>1. \A i \in 1..n : i + m \in 1..(m + n) /\ ~(i + m <= m) /\ (i + m) - m = i  BY <1>2
  <2>. QED  BY <1>1, <2>1
<1>6. Elems(h) = Elems(f) \cup Elems(g)
  <2>1. \A i \in 1..(m + n) : h[i] \in Elems(f) \cup Elems(g)  BY <1>2, <1>3
  <2>2. \A x \in Elems(f) : x \in Elems(h)  BY <1>2, <1>4 DEF Elems
  <2>3. \A x \in Elems(g) : x \in Elems(h)  BY <1>2, <1>5 DEF Elems
  <2>. QED  BY <1>2, <2>1, <2>2, <2>3 DEF Elems
<1>7. Distinct(f) /\ Distinct(g) /\ Elems(f) \cap Elems(g) = {} => Distinct(h)
  <2>1. SUFFICES ASSUME Distinct(f), Distinct(g), Elems(f) \cap Elems(g) = {},
                        NEW i \in 1..(m + n), NEW j \in 1..(m + n), i # j
                 PROVE  h[i] # h[j]
    BY <1>2 DEF Distinct
  <2>2. CASE i \in 1..m /\ h[i] = f[i] /\ j \in 1..m /\ h[j] = f[j]
    BY <1>2, <2>1, <2>2 DEF Distinct
  <2>3. CASE i - m \in 1..n /\ h[i] = g[i - m] /\ j - m \in 1..n /\ h[j] = g[j - m]
    <3>1. i - m # j - m  BY <1>2, <2>1
    <3>. QED  BY <1>2, <2>1, <2>3, <3>1 DEF Distinct
  <2>4. CASE i \in 1..m /\ h[i] = f[i] /\ j - m \in 1..n /\ h[j] = g[j - m]
    BY <1>2, <2>1, <2>4
  <2>5. CASE i - m \in 1..n /\ h[i] = g[i - m] /\ j \in 1..m /\ h[j] = f[j]
    BY <1>2, <2>1, <2>5
  <2>. QED  BY <1>3, <2>2, <2>3, <2>4, <2>5
<1>. QED  BY <1>1, <1>6, <1>7 DEF h

LEMMA AscendingDistinct == ASSUME NEW f \in Seq(Frames), Ascending(f) PROVE Distinct(f)
<1>1. SUFFICES ASSUME NEW i \in 1..Len(f), NEW j \in 1..Len(f), i # j PROVE f[i] # f[j]
  BY ElemsIndex DEF Distinct
<1>2. f[i] \in Int /\ f[j] \in Int /\ (i < j \/ j < i)  BY <1>1, ElemsIndex
<1>3. i \in DOMAIN f /\ j \in DOMAIN f  BY ElemsIndex
<1>4. CASE i < j
  <2>1. f[i] < f[j]  BY <1>3, <1>4 DEF Ascending
  <2>. QED  BY <1>2, <2>1
<1>5. CASE j < i
  <2>1. f[j] < f[i]  BY <1>3, <1>5 DEF Ascending
  <2>. QED  BY <1>2, <2>1
<1>. QED  BY <1>2, <1>4, <1>5

LEMMA EmptyElems == Elems(<<>>) = {} /\ Distinct(<<>>) /\ Ascending(<<>>) /\ <<>> \in Seq(Frames)
<1>1. <<>> \in Seq(Frames) /\ DOMAIN <<>> = {}  BY EmptySeq
<1>. QED  BY <1>1 DEF Elems, Distinct, Ascending

\* Without a frame that comes twice, there are as many as the sequence is long.
LEMMA DistinctCount ==
  ASSUME NEW f \in Seq(Frames), Distinct(f)
  PROVE  Cardinality(Elems(f)) = Len(f)
<1>1. DOMAIN f = 1..Len(f) /\ Len(f) \in Nat /\ f \in [1..Len(f) -> Frames]  BY LenProperties
<1>2. f \in [1..Len(f) -> Elems(f)]  BY <1>1 DEF Elems
<1>3. \A a, b \in DOMAIN f : f[a] = f[b] => a = b  BY DEF Distinct
<1>4. f \in Bijection(1..Len(f), Elems(f))
  BY <1>1, <1>2, <1>3 DEF Bijection, Injection, Surjection, IsInjective, Elems
<1>5. ExistsBijection(1..Len(f), Elems(f))  BY <1>4 DEF ExistsBijection
<1>. QED  BY <1>1, <1>5, FS_CountingElements

LEMMA PlayedInOrderFollows == Typed /\ Once /\ Order => InOrder /\ PlayedOnce
<1>. SUFFICES ASSUME Typed, Once, Order PROVE InOrder /\ PlayedOnce  OBVIOUS
<1>1. sent \in Seq(Frames) /\ filed \in Seq(Frames)  BY Groups DEF PlayTypes
<1>2. PlayedOnce  BY <1>1, DistinctCount DEF Once, PlayedOnce
<1>3. InOrder  BY DEF Order, InOrder
<1>. QED  BY <1>2, <1>3
-----------------------------------------------------------------------------
(* The chunks of a buffer *)

LEMMA ItemsIndex ==
  ASSUME NEW b \in Buffers
  PROVE  /\ Items(b) \subseteq Chunks /\ Items(b) \subseteq Int
         /\ \A i \in 1..Len(b) : b[i] \in Chunks /\ b[i] # End => b[i] \in Items(b)
         /\ \A c \in Items(b) : \E i \in 1..Len(b) : b[i] = c
         /\ b = <<>> => Items(b) = {} /\ Rising(b)
<1>1. b \in Seq(Chunks \cup {End}) /\ Len(b) \in Nat  BY BufferSeq
<1>2. \A i \in 1..Len(b) : b[i] \in Chunks \cup {End}  BY <1>1, ElementOfSeq
<1>3. b = <<>> => Len(b) = 0  BY EmptySeq
<1>4. Chunks \subseteq Nat \ {0}  BY DEF Chunks
<1>5. Items(b) \subseteq Chunks  BY <1>2 DEF Items
<1>6. Items(b) \subseteq Int  BY <1>5 DEF Chunks
<1>. QED  BY <1>1, <1>2, <1>3, <1>4, <1>5, <1>6 DEF Items, Rising

LEMMA AppendItems ==
  ASSUME NEW b \in Buffers, Unended(b), NEW x \in Chunks \cup {End}, Rising(b),
         \A c \in Items(b) : c < x \/ x = End
  PROVE  Items(Append(b, x)) \subseteq Items(b) \cup ({x} \ {End}) /\ Rising(Append(b, x))
<1>. DEFINE a == Append(b, x)
            n == Len(b)
<1>1. b \in Seq(Chunks \cup {End}) /\ n \in Nat  BY BufferSeq
<1>2. /\ Len(a) = n + 1 /\ \A i \in 1..n : a[i] = b[i]
      /\ a[n + 1] = x
  BY <1>1, AppendProperties
<1>. HIDE DEF a, n
<1>3. \A i \in 1..(n + 1) : i \in 1..n \/ i = n + 1  BY <1>1
<1>4. \A i \in 1..n : b[i] # End /\ b[i] \in Items(b)
  <2>1. SUFFICES ASSUME NEW i \in 1..n PROVE b[i] # End
    BY DEF Items, n
  <2>2. b # <<>>  BY <1>1, <2>1, EmptySeq DEF n
  <2>3. CASE i = n  BY <2>2, <2>3 DEF Unended, n
  <2>4. CASE i \in 1..(n - 1)  BY <2>4 DEF Buffers, n
  <2>. QED  BY <1>1, <2>3, <2>4
<1>5. Items(a) \subseteq Items(b) \cup ({x} \ {End})
  BY <1>2, <1>3, <1>4 DEF Items
<1>6. Rising(a)
  <2>1. SUFFICES ASSUME NEW i \in 1..(n + 1), NEW j \in 1..(n + 1), i < j, a[j] # End
                 PROVE  a[i] < a[j]
    BY <1>2 DEF Rising
  <2>2. i \in 1..n  BY <1>1, <2>1
  <2>3. CASE j \in 1..n  BY <1>2, <2>1, <2>2, <2>3 DEF Rising, n
  <2>4. CASE j = n + 1  BY <1>2, <1>4, <2>1, <2>2, <2>4
  <2>. QED  BY <1>3, <2>3, <2>4
<1>. QED  BY <1>5, <1>6 DEF a

LEMMA TailItems ==
  ASSUME NEW b \in Buffers, b # <<>>, Rising(b)
  PROVE  /\ Items(Tail(b)) \subseteq Items(b) /\ Rising(Tail(b))
         /\ \A c \in Items(Tail(b)) : Head(b) < c
         /\ Head(b) # End => Head(b) \in Items(b)
<1>. DEFINE t == Tail(b)
            n == Len(b)
<1>1. /\ n \in Nat \ {0} /\ Head(b) = b[1] /\ Head(b) \in Chunks \cup {End}
      /\ t \in Buffers /\ Len(t) = n - 1
      /\ \A i \in 1..(n - 1) : t[i] = b[i + 1]
  BY TailBuffer
<1>. HIDE DEF t
<1>2. \A i \in 1..(n - 1) : i + 1 \in 1..n /\ 1 < i + 1 /\ 1 \in 1..n  BY <1>1
<1>3. Items(t) \subseteq Items(b)  BY <1>1, <1>2 DEF Items
<1>4. Rising(t)
  <2>1. SUFFICES ASSUME NEW i \in 1..(n - 1), NEW j \in 1..(n - 1), i < j, t[j] # End
                 PROVE  t[i] < t[j]
    BY <1>1 DEF Rising
  <2>2. i + 1 < j + 1  BY <2>1
  <2>. QED  BY <1>1, <1>2, <2>1, <2>2 DEF Rising
<1>5. \A c \in Items(t) : Head(b) < c
  <2>1. SUFFICES ASSUME NEW i \in 1..(n - 1), t[i] # End PROVE b[1] < t[i]
    BY <1>1 DEF Items
  <2>. QED  BY <1>1, <1>2, <2>1 DEF Rising
<1>6. Head(b) # End => Head(b) \in Items(b)
  <2>1. 1 \in 1..n  BY <1>1
  <2>. QED  BY <1>1, <2>1 DEF Items
<1>. QED  BY <1>3, <1>4, <1>5, <1>6 DEF t
-----------------------------------------------------------------------------
(* Frames and chunks in order *)

LEMMA BeforeLater ==
  ASSUME NEW x \in Int, NEW c \in Int, NEW d \in Int, Before(x, c), c <= d
  PROVE  Before(x, d)
<1>1. (c - 1) * FramesPerChunk <= (d - 1) * FramesPerChunk  BY Products
<1>2. (c - 1) * FramesPerChunk \in Int /\ (d - 1) * FramesPerChunk \in Int  BY Products
<1>. QED  BY <1>1, <1>2 DEF Before

LEMMA WithinLess ==
  ASSUME NEW x \in Int, NEW f \in Int, NEW c \in Int, Before(x, c), Within(f, c)
  PROVE  x < f
<1>1. (c - 1) * FramesPerChunk \in Int  BY Products
<1>. QED  BY <1>1 DEF Before, Within

LEMMA WithinBefore ==
  ASSUME NEW f \in Int, NEW b \in Int, NEW c \in Int, Within(f, b), b < c
  PROVE  Before(f, c)
BY WithinOrder DEF Before

LEMMA HeardFrames ==
  Typed => Heard \subseteq Frames /\ Heard \subseteq Int
<1>. SUFFICES ASSUME Typed PROVE Heard \subseteq Frames /\ Heard \subseteq Int  OBVIOUS
<1>1. rem \in Seq(Frames) /\ sent \in Seq(Frames) /\ filed \in Seq(Frames)
  BY Groups DEF PlayTypes
<1>. QED  BY <1>1, ElemsIndex DEF Heard

LEMMA HeardFramesNext == (Typed => Heard \subseteq Frames /\ Heard \subseteq Int)'
BY HeardFrames, PTL

\* The frames of a buffer whose chunks are newer than what has been played.
LEMMA UnpackNew ==
  ASSUME NEW b \in Buffers, Rising(b), NEW H \in SUBSET Int,
         \A c \in Items(b) : \A x \in H : Before(x, c)
  PROVE  /\ Unpack(b) \in Seq(Frames) /\ Ascending(Unpack(b)) /\ Distinct(Unpack(b))
         /\ \A y \in Elems(Unpack(b)) : \E c \in Items(b) : Within(y, c)
         /\ \A y \in Elems(Unpack(b)) : \A x \in H : x < y
         /\ Elems(Unpack(b)) \cap H = {}
<1>1. /\ Unpack(b) \in Seq(Frames) /\ Ascending(Unpack(b))
      /\ \A k \in DOMAIN Unpack(b) :
           \E i \in 1..Len(b) : b[i] \in Chunks /\ Within(Unpack(b)[k], b[i])
  BY UnpackProperties
<1>2. Distinct(Unpack(b))  BY <1>1, AscendingDistinct
<1>3. Items(b) \subseteq Int /\ Elems(Unpack(b)) \subseteq Int
  <2>1. Elems(Unpack(b)) \subseteq Frames /\ Frames \subseteq Int  BY <1>1, ElemsIndex
  <2>. QED  BY <2>1, ItemsIndex
<1>4. \A y \in Elems(Unpack(b)) : \E c \in Items(b) : Within(y, c)
  <2>1. SUFFICES ASSUME NEW k \in DOMAIN Unpack(b)
                 PROVE  \E c \in Items(b) : Within(Unpack(b)[k], c)
    BY DEF Elems
  <2>2. PICK i \in 1..Len(b) : b[i] \in Chunks /\ Within(Unpack(b)[k], b[i])  BY <1>1
  <2>3. b[i] \in Items(b)  BY <2>2 DEF Items, End, Chunks
  <2>. QED  BY <2>2, <2>3
<1>5. \A y \in Elems(Unpack(b)) : \A x \in H : x < y
  <2>1. SUFFICES ASSUME NEW y \in Elems(Unpack(b)), NEW x \in H PROVE x < y  OBVIOUS
  <2>2. PICK c \in Items(b) : Within(y, c)  BY <1>4
  <2>3. c \in Int /\ y \in Int /\ x \in Int  BY <1>3, <2>2
  <2>. QED  BY <2>2, <2>3, WithinLess
<1>6. \A y \in Elems(Unpack(b)) : y \in Int  BY <1>3
<1>7. Elems(Unpack(b)) \cap H = {}  BY <1>5, <1>6
<1>. QED  BY <1>1, <1>2, <1>4, <1>5, <1>7

\* Chunks leave the buffer of the call's stream for the caller, the oldest first.
LEMMA FlowMoves ==
  ASSUME Typed, Typed', Flow, active # 0, active' = active, fed' = fed, q' = q,
         reader' = reader,
         (prod'[active] = prod[active] /\ held' = held) \/ prod'[active] \notin {"get", "put"},
         Rising(jit'[active]), Items(jit'[active]) \subseteq Items(jit[active]),
         \A x \in Heard' : \/ x \in Heard
                           \/ \E b \in Items(jit[active]) :
                                Within(x, b) /\ \A c \in Items(jit'[active]) : b < c
  PROVE  Flow'
<1>. DEFINE s == active
<1>1. s \in Streams /\ s <= ns  BY Numbers
<1>2. jit[s] \in Buffers /\ Items(jit[s]) \subseteq Int
  BY <1>1, Groups, ItemsIndex DEF BufferTypes
<1>3. fed \in Nat /\ held[s] \in Int /\ Heard' \subseteq Int /\ Heard \subseteq Int
  <2>1. held[s] \in Chunks \cup {End}  BY <1>1, Groups DEF TaskTypes
  <2>2. held[s] \in Int  BY <2>1 DEF Chunks, End
  <2>. QED  BY <2>2, HeardFrames, HeardFramesNext, Numbers
<1>4. reader[s] \in Queues /\ q[reader[s]] \in Buffers
  BY <1>1, Numbers, Groups DEF FeedTypes
<1>5. Items(q[reader[s]]) \subseteq Int  BY <1>4, ItemsIndex
<1>6. \A k \in Queues : Rising(q'[k]) /\ \A c \in Items(q'[k]) : c <= fed'
  BY DEF Flow
<1>7. /\ Rising(jit[s])
      /\ \A c \in Items(jit[s]) : c <= fed /\ \A x \in Heard : Before(x, c)
      /\ prod[s] = "put" =>
           held[s] <= fed /\ (\A b \in Items(jit[s]) : b < held[s]) /\ \A x \in Heard : Before(x, held[s])
      /\ prod[s] \in {"get", "put"} => \A c \in Items(q[reader[s]]) :
           /\ \A b \in Items(jit[s]) : b < c
           /\ prod[s] = "put" => held[s] < c
           /\ \A x \in Heard : Before(x, c)
      /\ \A x \in Heard : Before(x, fed + 1)
  BY DEF Flow, Behind
\* A chunk that none of the buffered ones is newer than is behind what is heard.
<1>8. ASSUME NEW c \in Int, \A x \in Heard : Before(x, c),
             \A b \in Items(jit[s]) : b < c \/ c \in Items(jit'[s])
      PROVE  \A x \in Heard' : Before(x, c)
  <2>1. SUFFICES ASSUME NEW x \in Heard' PROVE Before(x, c)  OBVIOUS
  <2>2. CASE x \in Heard  BY <1>8, <2>2
  <2>3. CASE \E b \in Items(jit[s]) : Within(x, b) /\ \A d \in Items(jit'[s]) : b < d
    <3>1. PICK b \in Items(jit[s]) : Within(x, b) /\ \A d \in Items(jit'[s]) : b < d  BY <2>3
    <3>2. b < c  BY <1>8, <3>1
    <3>3. b \in Int /\ x \in Int  BY <1>2, <1>3
    <3>. QED  BY <3>1, <3>2, <3>3, WithinBefore
  <2>. QED  BY <2>2, <2>3
<1>9. \A x \in Heard' : Before(x, fed + 1)
  <2>1. \A b \in Items(jit[s]) : b < fed + 1  BY <1>2, <1>3, <1>7
  <2>2. fed + 1 \in Int  BY <1>3
  <2>. QED  BY <1>7, <1>8, <2>1, <2>2
<1>10. \A c \in Items(jit'[s]) : c <= fed /\ \A x \in Heard' : Before(x, c)
  BY <1>2, <1>7, <1>8
<1>11. prod'[s] = "put" =>
         held[s] <= fed /\ (\A b \in Items(jit'[s]) : b < held[s]) /\ \A x \in Heard' : Before(x, held[s])
  <2>1. SUFFICES ASSUME prod[s] = "put"
                 PROVE  /\ held[s] <= fed /\ (\A b \in Items(jit'[s]) : b < held[s])
                        /\ \A x \in Heard' : Before(x, held[s])
    OBVIOUS
  <2>2. held[s] \in Int  BY <1>3
  <2>. QED  BY <1>7, <1>8, <2>1, <2>2
<1>12. prod'[s] \in {"get", "put"} => \A c \in Items(q[reader[s]]) :
         /\ \A b \in Items(jit'[s]) : b < c
         /\ prod'[s] = "put" => held[s] < c
         /\ \A x \in Heard' : Before(x, c)
  <2>1. SUFFICES ASSUME prod'[s] = prod[s], prod[s] \in {"get", "put"}, NEW c \in Items(q[reader[s]])
                 PROVE  /\ \A b \in Items(jit'[s]) : b < c
                        /\ prod[s] = "put" => held[s] < c
                        /\ \A x \in Heard' : Before(x, c)
    OBVIOUS
  <2>2. c \in Int  BY <1>5
  <2>. QED  BY <1>7, <1>8, <2>1, <2>2
<1>13. prod'[s] = "put" => held' = held  OBVIOUS
<1>14. Behind'  BY <1>7, <1>10, <1>11, <1>12, <1>13 DEF Behind
<1>. QED  BY <1>6, <1>9, <1>14 DEF Flow

\* What the pacer plays next is in its place.
LEMMA PendingNext ==
  ASSUME Typed, Flow, Once, Order, NEW s \in Streams, s = active, HasFrame(s)
  PROVE  LET P == Pending(s) IN
         /\ P \in Seq(Frames) /\ P # <<>> /\ Distinct(P)
         /\ Elems(P) \cap (Elems(sent) \cup Elems(filed)) = {}
         /\ "order" \notin flawed => Ascending(P) /\ \A x \in Elems(sent), y \in Elems(P) : x < y
         /\ Rising(Taken(s)[s]) /\ Items(Taken(s)[s]) \subseteq Items(jit[s])
         /\ \A x \in Elems(P) :
              \/ x \in Heard
              \/ \E b \in Items(jit[s]) : Within(x, b) /\ \A c \in Items(Taken(s)[s]) : b < c
<1>. DEFINE P == Pending(s)
<1>1. P \in Seq(Frames) /\ P # <<>>  BY PendingTyped
<1>2. jit \in [Streams -> Buffers] /\ s # 0  BY Groups DEF BufferTypes, Streams
<1>3. /\ Rising(jit[s])
      /\ \A c \in Items(jit[s]) : \A x \in Heard : Before(x, c)
  BY <1>2 DEF Flow, Behind
<1>4. CASE rem # <<>>
  <2>1. P = rem /\ Taken(s) = jit  BY <1>4 DEF Pending, Taken
  <2>. QED  BY <1>1, <1>3, <2>1 DEF Once, Order, Heard
<1>5. CASE rem = <<>>
  <2>. DEFINE b == jit[s]
              h == Head(b)
              f == SubSeq(b, 1, 1)
  <2>1. b \in Buffers /\ b # <<>> /\ h # End /\ Taken(s)[s] = Tail(b) /\ P = Unpack(f)
    BY <1>2, <1>5 DEF HasFrame, Taken, Pending
  <2>2. f = <<b[1]>> /\ f \in Buffers /\ h = b[1] /\ h \in Chunks
    BY <2>1, FirstBuffer, TailBuffer
  <2>3. /\ Items(Tail(b)) \subseteq Items(b) /\ Rising(Tail(b))
        /\ \A c \in Items(Tail(b)) : h < c
        /\ h \in Items(b)
    BY <1>3, <2>1, TailItems
  <2>4. Len(f) = 1 /\ f[1] = h  BY <2>2
  <2>. HIDE DEF b, h, f
  <2>5. Items(f) = {h}  BY <2>1, <2>4 DEF Items
  <2>6. Rising(f)  BY <2>4 DEF Rising
  <2>7. b = jit[s]  BY DEF b
  <2>8. \A c \in Items(f) : \A x \in Heard : Before(x, c)  BY <1>3, <2>3, <2>5, <2>7
  <2>9. Heard \in SUBSET Int  BY HeardFrames
  <2>. HIDE DEF P
  <2>10. /\ Ascending(Unpack(f)) /\ Distinct(Unpack(f))
         /\ \A y \in Elems(Unpack(f)) : \E c \in Items(f) : Within(y, c)
         /\ \A y \in Elems(Unpack(f)) : \A x \in Heard : x < y
         /\ Elems(Unpack(f)) \cap Heard = {}
    BY <2>2, <2>6, <2>8, <2>9, UnpackNew
  <2>11. /\ Ascending(P) /\ Distinct(P)
         /\ \A y \in Elems(P) : \E c \in Items(f) : Within(y, c)
         /\ \A y \in Elems(P) : \A x \in Heard : x < y
         /\ Elems(P) \cap Heard = {}
    BY <2>1, <2>10
  <2>12. \A x \in Elems(P) :
           \E d \in Items(jit[s]) : Within(x, d) /\ \A c \in Items(Taken(s)[s]) : d < c
    BY <2>1, <2>3, <2>5, <2>7, <2>11
  <2>. QED  BY <1>1, <2>1, <2>3, <2>7, <2>11, <2>12 DEF P, Heard
<1>. QED  BY <1>4, <1>5
-----------------------------------------------------------------------------
(* Every step keeps every frame in its place: the engine's side *)

\* Nobody is at work when the call's stream is over.
LEMMA Quiet ==
  ASSUME Tasks, ~IsActive, NEW s \in Streams
  PROVE  prod[s] \in {"done", "stuck"} /\ pacer[s] = "done"
<1>1. CASE s = active
  <2>1. s # 0  BY DEF Streams
  <2>2. prod[s] = "done"  BY <1>1, <2>1 DEF IsActive
  <2>. QED  BY <2>2 DEF Tasks, OneStream
<1>2. CASE s # active  BY <1>2 DEF Tasks, OneStream
<1>. QED  BY <1>1, <1>2

\* What has been played, and the order of it, when only the buffers change.
LEMMA SameHeard ==
  ASSUME UNCHANGED <<sent, filed, rem>>, flawed \subseteq flawed'
  PROVE  Heard' = Heard /\ (Once => Once') /\ (Order => Order')
BY DEF Heard, Once, Order, Elems, Distinct, Ascending

LEMMA EnqueueFlow ==
  ASSUME Typed, Flow, NEW k \in Queues, Unended(q[k]), NEW x \in Chunks \cup {End},
         \/ x = fed + 1 /\ fed' = fed + 1
         \/ x = End /\ fed' = fed,
         q' = [q EXCEPT ![k] = Append(@, x)] \/ q' = q
  PROVE  /\ \A j \in Queues : Rising(q'[j]) /\ \A c \in Items(q'[j]) : c <= fed'
         /\ \A j \in Queues : \A c \in Items(q'[j]) : c \in Items(q[j]) \/ (c = fed + 1 /\ c = fed')
<1>1. /\ q \in [Queues -> Buffers] /\ fed \in Nat
      /\ \A j \in Queues : Rising(q[j]) /\ \A c \in Items(q[j]) : c <= fed
  BY Groups, Numbers DEF FeedTypes, Flow
<1>2. \A j \in Queues : Items(q[j]) \subseteq Int  BY <1>1, ItemsIndex
<1>3. \A c \in Items(q[k]) : c < x \/ x = End  BY <1>1, <1>2
<1>4. Items(Append(q[k], x)) \subseteq Items(q[k]) \cup ({x} \ {End}) /\ Rising(Append(q[k], x))
  BY <1>1, <1>3, AppendItems
<1>5. fed <= fed' /\ fed' \in Nat  BY <1>1
<1>6. CASE q' = q  BY <1>1, <1>2, <1>5, <1>6
<1>7. CASE q' = [q EXCEPT ![k] = Append(@, x)]
  <2>1. q'[k] = Append(q[k], x) /\ \A j \in Queues : j # k => q'[j] = q[j]  BY <1>1, <1>7
  <2>2. \A c \in Items(q'[k]) : c \in Items(q[k]) \/ (c = fed + 1 /\ c = fed')
    BY <1>4, <2>1
  <2>3. \A c \in Items(q'[k]) : c <= fed'  BY <1>1, <1>2, <1>5, <2>2
  <2>4. \A j \in Queues : \A c \in Items(q'[j]) : c <= fed'
    <3>1. SUFFICES ASSUME NEW j \in Queues, j # k, NEW c \in Items(q[j]) PROVE c <= fed'
      BY <2>1, <2>3
    <3>2. c \in Int /\ c <= fed  BY <1>1, <1>2
    <3>. QED  BY <1>1, <1>5, <3>2
  <2>. QED  BY <1>1, <1>4, <2>1, <2>2, <2>4
<1>. QED  BY <1>6, <1>7

LEMMA KeepBehind ==
  ASSUME Typed, Flow, fed' \in {fed, fed + 1},
         \A j \in Queues : \A c \in Items(q'[j]) : c \in Items(q[j]) \/ c = fed + 1,
         UNCHANGED <<active, jit, prod, held, reader, sent, filed, rem>>
  PROVE  Behind' /\ \A x \in Heard' : Before(x, fed' + 1)
<1>1. Heard' = Heard /\ Heard \subseteq Int /\ fed \in Nat
  BY HeardFrames, Numbers DEF Heard, Elems
<1>2. \A x \in Heard : Before(x, fed + 1)  BY DEF Flow
<1>3. \A x \in Heard' : Before(x, fed' + 1)
  <2>1. CASE fed' = fed  BY <1>1, <1>2, <2>1
  <2>2. CASE fed' = fed + 1
    <3>1. fed + 1 <= fed' + 1 /\ fed + 1 \in Int /\ fed' + 1 \in Int  BY <1>1, <2>2
    <3>. QED  BY <1>1, <1>2, <3>1, BeforeLater
  <2>. QED  BY <2>1, <2>2
<1>4. Behind'
  <2>. DEFINE s == active
  <2>1. CASE s = 0  BY <2>1 DEF Behind
  <2>2. CASE s # 0
    <3>1. s \in Streams /\ reader[s] \in Queues /\ jit[s] \in Buffers
      BY <2>2, Numbers, Groups DEF BufferTypes
    <3>2. Items(jit[s]) \subseteq Int /\ held[s] \in Int
      <4>1. held[s] \in Chunks \cup {End}  BY <3>1, Groups DEF TaskTypes
      <4>2. held[s] \in Int  BY <4>1 DEF Chunks, End
      <4>. QED  BY <3>1, <4>2, ItemsIndex
    <3>3. /\ Rising(jit[s])
          /\ \A c \in Items(jit[s]) : c <= fed /\ \A x \in Heard : Before(x, c)
          /\ prod[s] = "put" =>
               held[s] <= fed /\ (\A b \in Items(jit[s]) : b < held[s]) /\ \A x \in Heard : Before(x, held[s])
          /\ prod[s] \in {"get", "put"} => \A c \in Items(q[reader[s]]) :
               /\ \A b \in Items(jit[s]) : b < c
               /\ prod[s] = "put" => held[s] < c
               /\ \A x \in Heard : Before(x, c)
      BY <2>2 DEF Flow, Behind
    <3>4. prod[s] \in {"get", "put"} => \A c \in Items(q'[reader[s]]) :
               /\ \A b \in Items(jit[s]) : b < c
               /\ prod[s] = "put" => held[s] < c
               /\ \A x \in Heard : Before(x, c)
      <4>1. SUFFICES ASSUME prod[s] \in {"get", "put"}, NEW c \in Items(q'[reader[s]])
                     PROVE  /\ \A b \in Items(jit[s]) : b < c
                            /\ prod[s] = "put" => held[s] < c
                            /\ \A x \in Heard : Before(x, c)
        OBVIOUS
      <4>2. CASE c \in Items(q[reader[s]])  BY <3>3, <4>1, <4>2
      <4>3. CASE c = fed + 1
        <5>1. \A b \in Items(jit[s]) : b < c  BY <1>1, <3>2, <3>3, <4>3
        <5>2. prod[s] = "put" => held[s] < c  BY <1>1, <3>2, <3>3, <4>3
        <5>. QED  BY <1>2, <4>3, <5>1, <5>2
      <4>. QED  BY <3>1, <4>2, <4>3
    <3>5. prod[s] = "put" => held[s] <= fed'  BY <1>1, <3>2, <3>3
    <3>6. \A c \in Items(jit[s]) : c <= fed'  BY <1>1, <3>2, <3>3
    <3>. QED  BY <1>1, <3>3, <3>4, <3>5, <3>6 DEF Behind
  <2>. QED  BY <2>1, <2>2
<1>. QED  BY <1>3, <1>4

\* A new stream has everything before it.
LEMMA NewBehind ==
  ASSUME Typed, Flow, fed' \in {fed, fed + 1}, active' \in Streams, jit'[active'] = <<>>,
         prod'[active'] = "get", \A c \in Items(q'[reader'[active']]) : c = fed + 1,
         UNCHANGED <<sent, filed, rem>>
  PROVE  Behind' /\ \A x \in Heard' : Before(x, fed' + 1)
<1>1. Heard' = Heard /\ Heard \subseteq Int /\ fed \in Nat
  BY HeardFrames, Numbers DEF Heard, Elems
<1>2. \A x \in Heard : Before(x, fed + 1)  BY DEF Flow
<1>3. \A x \in Heard' : Before(x, fed' + 1)
  <2>1. CASE fed' = fed  BY <1>1, <1>2, <2>1
  <2>2. CASE fed' = fed + 1
    <3>1. fed + 1 <= fed' + 1 /\ fed + 1 \in Int /\ fed' + 1 \in Int  BY <1>1, <2>2
    <3>. QED  BY <1>1, <1>2, <3>1, BeforeLater
  <2>. QED  BY <2>1, <2>2
<1>4. Items(<<>>) = {} /\ Rising(<<>>)  BY EmptyBuffer, ItemsIndex
<1>5. Behind'  BY <1>1, <1>2, <1>4 DEF Behind
<1>. QED  BY <1>3, <1>5

LEMMA StartPlaying ==
  ASSUME Typed, Tasks, Muting, NEW k \in Queues, k = nq + 1, NEW gate, StartStream(k, gate),
         UNCHANGED <<rem, clean>>
  PROVE  /\ Muting' /\ jit' = jit
         /\ \/ UNCHANGED <<active, prod, held, reader>>
            \/ active' \in Streams /\ jit'[active'] = <<>> /\ prod'[active'] = "get"
               /\ reader'[active'] = k
<1>1. CASE IsActive
  <2>1. UNCHANGED <<ns, reader, prod, held, pacer, rec, jit, active, info, ready>>
    BY <1>1 DEF StartStream
  <2>. QED  BY <2>1 DEF Muting
<1>2. CASE ~IsActive
  <2>. DEFINE t == ns + 1
  <2>1. t \in Streams /\ t > ns /\ t # 0
    BY Numbers, Parameters DEF Queues, Streams
  <2>2. Fresh(t)  BY <2>1, Groups DEF Unstarted
  <2>3. /\ reader' = [reader EXCEPT ![t] = k]
        /\ prod' = [prod EXCEPT ![t] = "get"] /\ pacer' = [pacer EXCEPT ![t] = "tick"]
        /\ active' = t
        /\ UNCHANGED <<held, jit, info>>
    BY <1>2 DEF StartStream
  <2>. HIDE DEF t
  <2>4. /\ prod'[t] = "get" /\ pacer'[t] = "tick" /\ reader'[t] = k
        /\ \A s \in Streams : s # t => pacer'[s] = pacer[s]
    BY <2>1, <2>3, Groups DEF TaskTypes
  <2>5. \A s \in Streams : pacer[s] = "done"  BY <1>2, Quiet
  <2>6. \A s \in Streams : pacer'[s] \in {"tick", "done"}  BY <2>4, <2>5
  <2>7. info'[t].muted = FALSE  BY <2>2, <2>3 DEF Fresh, NewInfo
  <2>8. Muting'  BY <2>3, <2>4, <2>6, <2>7 DEF Muting
  <2>. QED  BY <2>1, <2>2, <2>3, <2>4, <2>8 DEF Fresh
<1>. QED  BY <1>1, <1>2

LEMMA AgentAudioPlaying == ASSUME Typed, Tasks, Playing, AgentAudio PROVE Playing'
<1>. USE DEF AgentAudio
<1>. DEFINE gate == IF ~continuous \/ segActive THEN {}
                    ELSE IF active # 0 THEN {active}
                    ELSE IF tokens = {} THEN {Segment} ELSE {}
            k == IF feedQ = 0 THEN nq + 1 ELSE feedQ
            x == fed + 1
<1>0. Muting /\ Flow /\ Once /\ Order  BY DEF Playing
<1>1. /\ q' = (IF Len(q[k]) < QueueSize THEN [q EXCEPT ![k] = Append(@, x)] ELSE q)
      /\ UNCHANGED <<sent, filed, rem, clean, flawed>>
      /\ fed' = fed + 1 /\ x \in Chunks
      /\ feedQ = 0 => nq < MaxQueues /\ nq' = k /\ StartStream(k, gate)
      /\ feedQ # 0 => UNCHANGED <<nq, taskVars, jit, jb, active, info, ready>>
  BY Numbers, Parameters DEF Chunks
<1>2. /\ k \in Queues /\ Unended(q[k])
      /\ feedQ = 0 => q[k] = <<>> /\ k = nq + 1
  BY <1>1, Groups, Numbers, Parameters, EmptyBuffer DEF Queued, Queues
<1>. HIDE DEF AgentAudio, gate, k
<1>3. /\ \A j \in Queues : Rising(q'[j]) /\ \A c \in Items(q'[j]) : c <= fed'
      /\ \A j \in Queues : \A c \in Items(q'[j]) : c \in Items(q[j]) \/ (c = fed + 1 /\ c = fed')
  BY <1>0, <1>1, <1>2, EnqueueFlow
<1>4. Once' /\ Order'  BY <1>0, <1>1, SameHeard
<1>5. CASE feedQ = 0
  <2>1. /\ Muting' /\ jit' = jit
        /\ \/ UNCHANGED <<active, prod, held, reader>>
           \/ active' \in Streams /\ jit'[active'] = <<>> /\ prod'[active'] = "get"
              /\ reader'[active'] = k
    <3>1. StartStream(k, gate) /\ k = nq + 1 /\ UNCHANGED <<rem, clean>>  BY <1>1, <1>2, <1>5
    <3>. QED  BY <1>0, <1>2, <3>1, StartPlaying
  <2>2. \A c \in Items(q'[k]) : c = fed + 1
    <3>1. Items(q[k]) = {}  BY <1>2, <1>5, EmptyBuffer, ItemsIndex
    <3>. QED  BY <1>2, <1>3, <3>1
  <2>3. Behind' /\ \A y \in Heard' : Before(y, fed' + 1)
    <3>1. CASE UNCHANGED <<active, prod, held, reader>>
      BY <1>0, <1>1, <1>3, <2>1, <3>1, KeepBehind
    <3>2. CASE active' \in Streams /\ jit'[active'] = <<>> /\ prod'[active'] = "get"
               /\ reader'[active'] = k
      BY <1>0, <1>1, <2>2, <3>2, NewBehind
    <3>. QED  BY <2>1, <3>1, <3>2
  <2>. QED  BY <1>3, <1>4, <2>1, <2>3 DEF Playing, Flow
<1>6. CASE feedQ # 0
  <2>1. UNCHANGED <<active, jit, prod, held, reader, pacer, info, ready>>  BY <1>1, <1>6
  <2>2. Behind' /\ \A y \in Heard' : Before(y, fed' + 1)
    BY <1>0, <1>1, <1>3, <2>1, KeepBehind
  <2>3. Muting'  BY <1>0, <1>1, <2>1 DEF Muting
  <2>. QED  BY <1>3, <1>4, <2>2, <2>3 DEF Playing, Flow
<1>. QED  BY <1>5, <1>6

LEMMA AgentAudioDonePlaying == ASSUME Typed, Tasks, Playing, AgentAudioDone PROVE Playing'
<1>. USE DEF AgentAudioDone
<1>0. Muting /\ Flow /\ Once /\ Order  BY DEF Playing
<1>1. /\ UNCHANGED <<fed, reader, prod, held, pacer, jit, rem, active, ready, sent, filed, clean, flawed>>
      /\ q' = q \/ (feedQ # 0 /\ q' = [q EXCEPT ![feedQ] = Append(@, End)])
      /\ \/ info' = info
         \/ active # 0 /\ info' = [info EXCEPT ![active].seg = 1, ![active].first = FALSE]
  OBVIOUS
<1>. HIDE DEF AgentAudioDone
<1>2. \A s \in Streams : info'[s].muted = info[s].muted /\ info'[s].barge = info[s].barge
  BY <1>1, Numbers, Groups DEF CallTypes
<1>3. Muting'
  <2>1. active # 0 => active \in Streams  BY Numbers
  <2>2. clean.by \in Bargers => clean.s \in Streams
    BY Groups, Numbers, StreamingAssumption DEF Cleaned, NoClean
  <2>. QED  BY <1>0, <1>1, <1>2, <2>1, <2>2 DEF Muting
<1>4. /\ \A j \in Queues : Rising(q'[j]) /\ \A c \in Items(q'[j]) : c <= fed'
      /\ \A j \in Queues : \A c \in Items(q'[j]) : c \in Items(q[j]) \/ c = fed + 1
  <2>1. CASE q' = q  BY <1>0, <1>1, <2>1 DEF Flow
  <2>2. CASE feedQ # 0 /\ q' = [q EXCEPT ![feedQ] = Append(@, End)]
    <3>1. feedQ \in Queues /\ Unended(q[feedQ])  BY <2>2, Groups, Numbers DEF Queued
    <3>2. End \in Chunks \cup {End}  OBVIOUS
    <3>. QED  BY <1>0, <1>1, <2>2, <3>1, <3>2, EnqueueFlow
  <2>. QED  BY <1>1, <2>1, <2>2
<1>5. Behind' /\ \A y \in Heard' : Before(y, fed' + 1)
  BY <1>0, <1>1, <1>4, KeepBehind
<1>6. Once' /\ Order'  BY <1>0, <1>1, SameHeard
<1>. QED  BY <1>3, <1>4, <1>5, <1>6 DEF Playing, Flow

LEMMA PipelinePlaying ==
  ASSUME Typed, Tasks, Playing, Speak \/ Synthesize \/ Spoken PROVE Playing'
<1>. USE DEF Speak, Synthesize, Spoken
<1>0. Muting /\ Flow /\ Once /\ Order  BY DEF Playing
<1>1. UNCHANGED <<rem, sent, filed, clean, flawed>>  OBVIOUS
<1>2. Once' /\ Order'  BY <1>0, <1>1, SameHeard
<1>3. CASE Speak
  <2>. DEFINE k == nq + 1
  <2>1. /\ k \in Queues /\ q[k] = <<>> /\ fed' = fed /\ q' = q /\ StartStream(k, {})
        /\ UNCHANGED <<rem, clean>>
    BY <1>3, Groups, Numbers, Parameters DEF Queued, Queues
  <2>2. k = nq + 1  OBVIOUS
  <2>. HIDE DEF Speak, Synthesize, Spoken, k
  <2>3. /\ Muting' /\ jit' = jit
        /\ \/ UNCHANGED <<active, prod, held, reader>>
           \/ active' \in Streams /\ jit'[active'] = <<>> /\ prod'[active'] = "get"
              /\ reader'[active'] = k
    BY <1>0, <2>1, <2>2, StartPlaying
  <2>4. Items(q[k]) = {}  BY <2>1, EmptyBuffer, ItemsIndex
  <2>5. Behind' /\ \A y \in Heard' : Before(y, fed' + 1)
    <3>1. CASE UNCHANGED <<active, prod, held, reader>>
      BY <1>0, <1>1, <2>1, <2>3, <3>1, KeepBehind
    <3>2. CASE active' \in Streams /\ jit'[active'] = <<>> /\ prod'[active'] = "get"
               /\ reader'[active'] = k
      BY <1>0, <1>1, <2>1, <2>4, <3>2, NewBehind
    <3>. QED  BY <2>3, <3>1, <3>2
  <2>6. \A j \in Queues : Rising(q'[j]) /\ \A c \in Items(q'[j]) : c <= fed'
    BY <1>0, <2>1 DEF Flow
  <2>. QED  BY <1>2, <2>3, <2>5, <2>6 DEF Playing, Flow
<1>4. CASE Synthesize \/ Spoken
  <2>1. UNCHANGED <<active, jit, prod, held, reader, pacer, info, ready>>  BY <1>4
  <2>2. PICK x \in Chunks \cup {End} :
          /\ q' = [q EXCEPT ![feedQ] = Append(@, x)]
          /\ \/ x = fed + 1 /\ fed' = fed + 1
             \/ x = End /\ fed' = fed
    <3>1. ASSUME Synthesize PROVE fed + 1 \in Chunks
      BY <3>1, Numbers, Parameters DEF Chunks
    <3>. QED  BY <1>4, <3>1
  <2>3. provider = "pipeline" /\ open  BY <1>4
  <2>. HIDE DEF Speak, Synthesize, Spoken
  <2>4. feedQ \in Queues /\ Unended(q[feedQ])  BY <2>3, Groups, Numbers DEF Queued
  <2>5. /\ \A j \in Queues : Rising(q'[j]) /\ \A c \in Items(q'[j]) : c <= fed'
        /\ \A j \in Queues : \A c \in Items(q'[j]) : c \in Items(q[j]) \/ (c = fed + 1 /\ c = fed')
    BY <1>0, <2>2, <2>4, EnqueueFlow
  <2>6. Behind' /\ \A y \in Heard' : Before(y, fed' + 1)
    BY <1>0, <1>1, <2>1, <2>2, <2>5, KeepBehind
  <2>7. Muting'  BY <1>0, <1>1, <2>1 DEF Muting
  <2>. QED  BY <1>2, <2>5, <2>6, <2>7 DEF Playing, Flow
<1>. QED  BY <1>3, <1>4
-----------------------------------------------------------------------------
(* Every step keeps every frame in its place: the producer *)

LEMMA SameFlow ==
  ASSUME Flow, UNCHANGED <<fed, q, active, jit, prod, held, reader, sent, filed, rem>>
  PROVE  Flow'
BY DEF Flow, Behind, Heard, Elems

LEMMA ProducerMuting ==
  ASSUME Typed, Tasks, Muting, NEW s \in Streams, prod[s] \in {"get", "put", "end", "file"},
         prod'[s] \in {"get", "put", "end", "file", "drain"},
         \A t \in Streams : t # s => prod'[t] = prod[t],
         rem' \in {rem, <<>>},
         UNCHANGED <<pacer, info, ready, active, clean>>
  PROVE  Muting' /\ s = active
<1>1. s = active  BY DEF Tasks, OneStream
<1>. QED  BY <1>1 DEF Muting

LEMMA GetPlaying == ASSUME Typed, Typed', Tasks, Playing, NEW s \in Streams, Get(s) PROVE Playing'
<1>. USE DEF Get
<1>. DEFINE k == reader[s]
            item == Head(q[k])
<1>0. Muting /\ Flow /\ Once /\ Order  BY DEF Playing
<1>1. /\ prod[s] = "get" /\ q[k] # <<>> /\ k \in Queues /\ s # 0
      /\ UNCHANGED <<fed, reader, pacer, info, ready, active, clean, rem, sent, filed, flawed>>
      /\ q' = [q EXCEPT ![k] = Tail(@)]
      /\ \/ /\ jit' = [jit EXCEPT ![s] = Append(@, item)]
            /\ prod' = [prod EXCEPT ![s] = IF item = End THEN "drain" ELSE "get"]
            /\ held' = held
         \/ /\ prod' = [prod EXCEPT ![s] = IF item = End THEN "end" ELSE "put"]
            /\ held' = [held EXCEPT ![s] = item]
            /\ jit' = jit
  BY Started DEF Streams
<1>. HIDE DEF Get
<1>2. /\ q \in [Queues -> Buffers] /\ jit \in [Streams -> Buffers] /\ Unended(jit[s])
      /\ prod \in [Streams -> {"get", "put", "end", "file", "drain", "clean", "stuck", "done"}]
      /\ held \in [Streams -> Chunks \cup {End}]
  BY <1>1, Groups DEF FeedTypes, TaskTypes, BufferTypes, Produced
<1>3. Muting' /\ s = active
  <2>1. /\ prod'[s] \in {"get", "put", "end", "file", "drain"}
        /\ \A t \in Streams : t # s => prod'[t] = prod[t]
    BY <1>1, <1>2
  <2>. QED  BY <1>0, <1>1, <2>1, ProducerMuting
<1>4. Once' /\ Order' /\ Heard' = Heard  BY <1>0, <1>1, SameHeard
<1>5. /\ Rising(jit[s]) /\ Rising(q[k])
      /\ \A c \in Items(jit[s]) : c <= fed /\ \A x \in Heard : Before(x, c)
      /\ \A c \in Items(q[k]) :
           c <= fed /\ (\A b \in Items(jit[s]) : b < c) /\ \A x \in Heard : Before(x, c)
      /\ \A j \in Queues : Rising(q[j]) /\ \A c \in Items(q[j]) : c <= fed
  BY <1>0, <1>1, <1>3 DEF Flow, Behind
<1>6. q[k] \in Buffers /\ item \in Chunks \cup {End}  BY <1>1, <1>2, TailBuffer
<1>7. /\ Items(Tail(q[k])) \subseteq Items(q[k]) /\ Rising(Tail(q[k]))
      /\ \A c \in Items(Tail(q[k])) : item < c
      /\ item # End => item \in Items(q[k])
  BY <1>1, <1>5, <1>6, TailItems
<1>8. /\ q'[k] = Tail(q[k])
      /\ \A j \in Queues : j # k => q'[j] = q[j]
  BY <1>1, <1>2
<1>. HIDE DEF item, k
<1>9. \A j \in Queues : Rising(q'[j]) /\ \A c \in Items(q'[j]) : c <= fed'
  BY <1>1, <1>5, <1>7, <1>8
<1>10. \A x \in Heard' : Before(x, fed' + 1)  BY <1>0, <1>1, <1>4 DEF Flow
<1>11. \A c \in Items(q'[k]) : /\ c \in Items(q[k]) /\ item < c
  BY <1>7, <1>8
<1>12. reader'[s] = k /\ active' = s  BY <1>1, <1>3 DEF k
<1>13. CASE jit' = [jit EXCEPT ![s] = Append(@, item)]
            /\ prod' = [prod EXCEPT ![s] = IF item = End THEN "drain" ELSE "get"]
  <2>1. /\ jit'[s] = Append(jit[s], item)
        /\ prod'[s] = IF item = End THEN "drain" ELSE "get"
    BY <1>2, <1>13
  <2>2. \A c \in Items(jit[s]) : c < item \/ item = End  BY <1>5, <1>7
  <2>3. jit[s] \in Buffers  BY <1>2
  <2>4. Items(jit'[s]) \subseteq Items(jit[s]) \cup ({item} \ {End}) /\ Rising(jit'[s])
    BY <1>2, <1>5, <1>6, <2>1, <2>2, <2>3, AppendItems
  <2>5. \A c \in Items(jit'[s]) : c <= fed /\ \A x \in Heard : Before(x, c)
    BY <1>5, <1>7, <2>4
  <2>6. prod'[s] = "get" => \A c \in Items(q'[k]) : \A b \in Items(jit'[s]) : b < c
    BY <1>5, <1>11, <2>4
  <2>7. prod'[s] # "put"  BY <2>1
  <2>8. \A c \in Items(q'[k]) : \A x \in Heard : Before(x, c)  BY <1>5, <1>11
  <2>9. Behind'  BY <1>1, <1>4, <1>12, <2>1, <2>4, <2>5, <2>6, <2>7, <2>8 DEF Behind
  <2>. QED  BY <1>3, <1>4, <1>9, <1>10, <2>9 DEF Playing, Flow
<1>14. CASE /\ prod' = [prod EXCEPT ![s] = IF item = End THEN "end" ELSE "put"]
            /\ held' = [held EXCEPT ![s] = item] /\ jit' = jit
  <2>1. held'[s] = item /\ prod'[s] = (IF item = End THEN "end" ELSE "put") /\ jit'[s] = jit[s]
    BY <1>2, <1>14
  <2>2. prod'[s] = "put" => item \in Items(q[k])  BY <1>7, <2>1
  <2>3. prod'[s] = "put" => held'[s] <= fed /\ (\A b \in Items(jit'[s]) : b < held'[s])
                            /\ \A x \in Heard : Before(x, held'[s])
    BY <1>5, <2>1, <2>2
  <2>4. \A c \in Items(q'[k]) : \A b \in Items(jit'[s]) : b < c  BY <1>5, <1>11, <2>1
  <2>5. \A c \in Items(q'[k]) : held'[s] < c  BY <1>11, <2>1
  <2>6. \A c \in Items(q'[k]) : \A x \in Heard : Before(x, c)  BY <1>5, <1>11
  <2>7. Rising(jit'[s]) /\ \A c \in Items(jit'[s]) : c <= fed /\ \A x \in Heard : Before(x, c)
    BY <1>5, <2>1
  <2>8. Behind'  BY <1>1, <1>4, <1>12, <2>3, <2>4, <2>5, <2>6, <2>7 DEF Behind
  <2>. QED  BY <1>3, <1>4, <1>9, <1>10, <2>8 DEF Playing, Flow
<1>. QED  BY <1>1, <1>13, <1>14 DEF item

LEMMA PutPlaying == ASSUME Typed, Typed', Tasks, Playing, NEW s \in Streams, Put(s) PROVE Playing'
<1>. USE DEF Put
<1>. DEFINE item == held[s]
            k == reader[s]
<1>0. Muting /\ Flow /\ Once /\ Order  BY DEF Playing
<1>1. /\ prod[s] \in {"put", "end"} /\ s # 0
      /\ UNCHANGED <<fed, q, reader, pacer, info, ready, active, clean, rem, sent, filed, flawed>>
      /\ jit' = [jit EXCEPT ![s] = Append(@, item)]
      /\ prod' = [prod EXCEPT ![s] = IF @ = "end" THEN "drain" ELSE "get"]
  BY DEF Streams
<1>. HIDE DEF Put
<1>2. /\ jit[s] \in Buffers /\ jit \in [Streams -> Buffers] /\ Unended(jit[s])
      /\ prod \in [Streams -> {"get", "put", "end", "file", "drain", "clean", "stuck", "done"}]
      /\ item \in Chunks \cup {End}
      /\ prod[s] = "end" => item = End
      /\ k \in Queues
  BY <1>1, Groups, Started DEF TaskTypes, BufferTypes, Produced
<1>3. Muting' /\ s = active
  <2>1. /\ prod'[s] \in {"get", "put", "end", "file", "drain"}
        /\ \A t \in Streams : t # s => prod'[t] = prod[t]
    BY <1>1, <1>2
  <2>. QED  BY <1>0, <1>1, <2>1, ProducerMuting
<1>4. Once' /\ Order' /\ Heard' = Heard  BY <1>0, <1>1, SameHeard
<1>5. /\ Rising(jit[s])
      /\ \A c \in Items(jit[s]) : c <= fed /\ \A x \in Heard : Before(x, c)
      /\ prod[s] = "put" =>
           /\ item <= fed /\ (\A b \in Items(jit[s]) : b < item) /\ \A x \in Heard : Before(x, item)
           /\ \A c \in Items(q[k]) : (\A b \in Items(jit[s]) : b < c) /\ item < c
                                     /\ \A x \in Heard : Before(x, c)
  BY <1>0, <1>1, <1>3 DEF Flow, Behind
<1>. HIDE DEF item, k
<1>6. jit'[s] = Append(jit[s], item) /\ prod'[s] = (IF prod[s] = "end" THEN "drain" ELSE "get")
  BY <1>1, <1>2
<1>7. \A c \in Items(jit[s]) : c < item \/ item = End  BY <1>1, <1>2, <1>5
<1>8. Items(jit'[s]) \subseteq Items(jit[s]) \cup ({item} \ {End}) /\ Rising(jit'[s])
  BY <1>2, <1>5, <1>6, <1>7, AppendItems
<1>9. \A c \in Items(jit'[s]) : c <= fed /\ \A x \in Heard : Before(x, c)
  BY <1>1, <1>2, <1>5, <1>8
<1>10. prod'[s] = "get" => \A c \in Items(q[k]) :
         (\A b \in Items(jit'[s]) : b < c) /\ \A x \in Heard : Before(x, c)
  BY <1>1, <1>5, <1>6, <1>8
<1>11. reader'[s] = k /\ active' = s /\ prod'[s] # "put"  BY <1>1, <1>3, <1>6 DEF k
<1>12. Behind'  BY <1>1, <1>4, <1>8, <1>9, <1>10, <1>11 DEF Behind
<1>13. Flow'  BY <1>0, <1>1, <1>4, <1>12 DEF Flow
<1>. QED  BY <1>3, <1>4, <1>13 DEF Playing

\* What is taken for a file is newer than what has been played, and nothing of it is
\* left.
LEMMA TakePlaying ==
  ASSUME Typed, Typed', Tasks, Flow, Once, Order, TakeBuffered, active # 0,
         (prod'[active] = prod[active] /\ held' = held) \/ prod'[active] \notin {"get", "put"},
         UNCHANGED <<fed, q, reader, active, sent, flawed>>
  PROVE  Flow' /\ Once' /\ Order'
<1>. DEFINE s == active
            U == Unpack(jit[s])
<1>1. s \in Streams /\ jit \in [Streams -> Buffers] /\ jb = s
  BY Numbers, Groups DEF BufferTypes, Tasks, Cleaning
<1>2. /\ filed' = filed \o (rem \o U) /\ rem' = <<>> /\ jit' = [jit EXCEPT ![s] = <<>>]
  BY <1>1, BufferedTyped DEF TakeBuffered
<1>3. rem \in Seq(Frames) /\ sent \in Seq(Frames) /\ filed \in Seq(Frames)
  BY Groups DEF PlayTypes
<1>4. /\ Rising(jit[s]) /\ jit[s] \in Buffers /\ Heard \in SUBSET Int
      /\ \A c \in Items(jit[s]) : \A x \in Heard : Before(x, c)
  BY <1>1, HeardFrames DEF Flow, Behind
<1>5. /\ U \in Seq(Frames) /\ Distinct(U)
      /\ \A y \in Elems(U) : \E c \in Items(jit[s]) : Within(y, c)
      /\ Elems(U) \cap Heard = {}
  BY <1>4, UnpackNew
<1>. HIDE DEF U
<1>6. /\ rem \o U \in Seq(Frames) /\ Elems(rem \o U) = Elems(rem) \cup Elems(U)
      /\ Distinct(rem \o U)
  <2>1. Distinct(rem) /\ Elems(rem) \cap Elems(U) = {}  BY <1>5 DEF Once, Heard
  <2>. QED  BY <1>3, <1>5, <2>1, ConcatElems
<1>7. /\ Elems(filed') = Elems(filed) \cup Elems(rem) \cup Elems(U)
      /\ Distinct(filed')
  <2>1. Distinct(filed) /\ Elems(filed) \cap Elems(rem \o U) = {}
    BY <1>5, <1>6 DEF Once, Heard
  <2>2. PICK g \in Seq(Frames) : g = rem \o U  BY <1>6
  <2>3. /\ Elems(filed \o g) = Elems(filed) \cup Elems(g)
        /\ Distinct(filed \o g)
    BY <1>3, <1>6, <2>1, <2>2, ConcatElems
  <2>. QED  BY <1>2, <1>6, <2>2, <2>3
<1>8. Elems(rem') = {} /\ Distinct(rem') /\ Ascending(rem')  BY <1>2, EmptyElems
<1>9. Elems(sent') = Elems(sent) /\ (Distinct(sent) => Distinct(sent'))
  BY DEF Elems, Distinct
<1>10. Once'  BY <1>5, <1>7, <1>8, <1>9 DEF Once, Heard
<1>11. Order'  BY <1>8 DEF Order, Ascending
<1>12. jit'[s] = <<>> /\ Items(<<>>) = {} /\ Rising(<<>>)
  BY <1>1, <1>2, EmptyBuffer, ItemsIndex
<1>13. \A x \in Heard' : x \in Heard \/ \E b \in Items(jit[s]) : Within(x, b)
  BY <1>5, <1>7, <1>8, <1>9 DEF Heard
<1>14. Flow'
  <2>1. /\ Rising(jit'[active]) /\ Items(jit'[active]) \subseteq Items(jit[active])
        /\ \A x \in Heard' : \/ x \in Heard
                             \/ \E b \in Items(jit[active]) :
                                  Within(x, b) /\ \A c \in Items(jit'[active]) : b < c
    BY <1>12, <1>13
  <2>. QED  BY <2>1, FlowMoves
<1>. QED  BY <1>10, <1>11, <1>14

LEMMA TimeoutPlaying ==
  ASSUME Typed, Typed', Tasks, Playing, NEW s \in Streams, ChunkTimeout(s) \/ ProducerFiled(s)
  PROVE  Playing'
<1>. USE DEF ChunkTimeout, ProducerFiled
<1>0. Muting /\ Flow /\ Once /\ Order  BY DEF Playing
<1>1. /\ prod[s] \in {"get", "file"} /\ s # 0
      /\ \E x \in {"end", "file"} : prod' = [prod EXCEPT ![s] = x]
      /\ TakeBuffered \/ UNCHANGED <<rem, jit, filed>>
      /\ UNCHANGED <<fed, q, reader, pacer, info, ready, active, clean, sent, flawed>>
  BY DEF Streams
<1>. HIDE DEF ChunkTimeout, ProducerFiled
<1>2. /\ prod'[s] \in {"end", "file"}
      /\ \A t \in Streams : t # s => prod'[t] = prod[t]
      /\ rem' \in {rem, <<>>}
  BY <1>1, Groups DEF TaskTypes, TakeBuffered
<1>3. Muting' /\ s = active  BY <1>0, <1>1, <1>2, ProducerMuting
<1>4. CASE TakeBuffered
  <2>1. prod'[active] \notin {"get", "put"} /\ active # 0  BY <1>1, <1>2, <1>3
  <2>. QED  BY <1>0, <1>1, <1>3, <1>4, <2>1, TakePlaying DEF Playing
<1>5. CASE UNCHANGED <<rem, jit, filed>>
  <2>1. Once' /\ Order' /\ Heard' = Heard  BY <1>0, <1>1, <1>5, SameHeard
  <2>2. Rising(jit[s])  BY <1>0, <1>1, <1>3 DEF Flow, Behind
  <2>3. Flow'
    <3>1. prod'[active] \notin {"get", "put"} /\ active # 0  BY <1>1, <1>2, <1>3
    <3>2. /\ Rising(jit'[active]) /\ Items(jit'[active]) \subseteq Items(jit[active])
          /\ \A x \in Heard' : x \in Heard
      BY <1>3, <1>5, <2>1, <2>2
    <3>. QED  BY <1>0, <1>1, <3>1, <3>2, FlowMoves
  <2>. QED  BY <1>3, <2>1, <2>3 DEF Playing
<1>. QED  BY <1>1, <1>4, <1>5

LEMMA DrainedPlaying ==
  ASSUME Typed, Typed', Tasks, Playing, NEW s \in Streams, Drained(s) PROVE Playing'
<1>. USE DEF Drained
<1>0. Muting /\ Flow /\ Once /\ Order  BY DEF Playing
<1>1. /\ prod[s] = "drain" /\ s # 0
      /\ active # 0 => PacerHangs(active) /\ CancelPacer(active)
      /\ \/ prod' = [prod EXCEPT ![s] = "clean"] /\ clean'.by = "producer"
         \/ prod' = [prod EXCEPT ![s] = "done"] /\ clean' = clean
      /\ UNCHANGED <<fed, q, reader, jit, rem, active, info, ready, sent, filed>>
  BY DEF Streams
<1>2. flawed \subseteq flawed'  BY DEF CancelPacer
<1>. HIDE DEF Drained
<1>3. s = active  BY <1>1 DEF Tasks, OneStream
<1>4. /\ prod'[s] \in {"clean", "done"}
      /\ pacer'[s] = "done" /\ \A t \in Streams : t # s => pacer'[t] = pacer[t]
  BY <1>1, <1>3, Groups DEF TaskTypes, CancelPacer
<1>5. info[s].muted => rem = <<>>
  <2>1. SUFFICES ASSUME info[s].muted PROVE rem = <<>>  OBVIOUS
  <2>2. ready  BY <1>0, <1>1, <1>3, <2>1 DEF Muting
  <2>3. pacer[s] # "tick" \/ rem = <<>>  BY <1>1, <1>3, <2>2 DEF PacerHangs, Warm
  <2>4. pacer[s] \in {"tick", "mute", "unmute", "file", "done"}  BY Groups DEF TaskTypes
  <2>. QED  BY <1>0, <1>1, <1>3, <2>1, <2>3, <2>4 DEF Muting
<1>6. Muting'
  <2>1. "producer" \notin Bargers  BY StreamingAssumption
  <2>2. \A t \in Streams : t # s => pacer'[t] = "done"  BY <1>3, <1>4 DEF Tasks, OneStream
  <2>3. \A t \in Streams : pacer'[t] = "done"  BY <1>4, <2>2
  <2>4. clean'.by \in Bargers => info'[clean'.s].barge  BY <1>0, <1>1, <2>1 DEF Muting
  <2>5. active' = s /\ info'[s].muted = info[s].muted /\ ready' = ready /\ rem' = rem
    BY <1>1, <1>3
  <2>6. info[s].muted => ready  BY <1>0, <1>1, <1>3 DEF Muting
  <2>. QED  BY <1>4, <1>5, <2>3, <2>4, <2>5, <2>6 DEF Muting
<1>7. Once' /\ Order' /\ Heard' = Heard  BY <1>0, <1>1, <1>2, SameHeard
<1>8. Flow'
  <2>1. Rising(jit[s])  BY <1>0, <1>1, <1>3 DEF Flow, Behind
  <2>2. prod'[active] \notin {"get", "put"} /\ active # 0  BY <1>1, <1>3, <1>4
  <2>3. /\ Rising(jit'[active]) /\ Items(jit'[active]) \subseteq Items(jit[active])
        /\ \A x \in Heard' : x \in Heard
    BY <1>1, <1>3, <1>7, <2>1
  <2>. QED  BY <1>0, <1>1, <2>2, <2>3, FlowMoves
<1>. QED  BY <1>6, <1>7, <1>8 DEF Playing
-----------------------------------------------------------------------------
(* Every step keeps every frame in its place: the pacer *)

LEMMA PutBackElems ==
  ASSUME NEW f \in Seq(Frames), f # <<>>, Distinct(f)
  PROVE  LET g == Append(Tail(f), Head(f)) IN
         /\ g \in Seq(Frames) /\ Elems(g) = Elems(f) /\ Distinct(g)
         /\ Len(f) <= 1 => Ascending(g)
<1>. DEFINE t == Tail(f)
            h == Head(f)
<1>1. /\ h \in Frames /\ t \in Seq(Frames) /\ Elems(f) = Elems(t) \cup {h}
      /\ Distinct(t) /\ h \notin Elems(t)
      /\ Len(f) <= 1 => t = <<>>
  BY TailElems
<1>. HIDE DEF t, h
<1>2. /\ Append(t, h) \in Seq(Frames) /\ Elems(Append(t, h)) = Elems(t) \cup {h}
      /\ Distinct(Append(t, h))
      /\ Ascending(t) /\ (\A y \in Elems(t) : y < h) => Ascending(Append(t, h))
  BY <1>1, AppendElems
<1>3. Elems(<<>>) = {} /\ Ascending(<<>>)  BY EmptyElems
<1>. QED  BY <1>1, <1>2, <1>3 DEF t, h

\* The pacer that ticks is the one of the call's stream; the record it reads, too.
LEMMA Pacing ==
  ASSUME Typed, Tasks, Flow, NEW s \in Streams, pacer[s] # "done"
  PROVE  /\ s = active /\ s # 0 /\ jb = s /\ prod[s] \notin {"done", "stuck", "clean"}
         /\ \A t \in Streams : t # s => pacer[t] = "done"
         /\ pacer[s] \in {"mute", "unmute"} => rec[s] = s
         /\ Rising(jit[s]) /\ jit \in [Streams -> Buffers]
<1>1. s = active /\ s # 0 /\ prod[s] \notin {"done", "stuck", "clean"}
  BY DEF Tasks, OneStream, Streams
<1>2. jit \in [Streams -> Buffers]  BY Groups DEF BufferTypes
<1>. QED  BY <1>1, <1>2 DEF Tasks, OneStream, Cleaning, Flow, Behind

\* A step of the pacer alone.
LEMMA PacerMuting ==
  ASSUME Typed, Tasks, Muting, NEW s \in Streams, pacer[s] # "done",
         pacer' \in [Streams -> {"tick", "mute", "unmute", "file", "done"}],
         \A t \in Streams : t # s => pacer'[t] = pacer[t],
         pacer'[s] = "mute" => ready' /\ ~info'[s].muted,
         pacer'[s] \in {"unmute", "file", "done"} => rem' = <<>>,
         info'[s].muted => ready',
         \A t \in Streams : info'[t].barge = info[t].barge,
         UNCHANGED <<prod, active, clean>>
  PROVE  Muting'
<1>1. /\ s = active /\ prod[s] \notin {"done", "stuck", "clean"}
      /\ \A t \in Streams : t # s => pacer'[t] = "done"
  BY DEF Tasks, OneStream
<1>2. clean.by \in Bargers => clean.s \in Streams
  BY SMTT(30), Groups, Numbers, StreamingAssumption DEF Cleaned, NoClean
<1>. QED  BY <1>1, <1>2 DEF Muting

LEMMA EmitPlaying == ASSUME Typed, Typed', Tasks, Playing, NEW s \in Streams, Emit(s) PROVE Playing'
<1>. USE DEF Emit
<1>. DEFINE P == Pending(s)
            h == Head(P)
            t == Tail(P)
<1>0. Muting /\ Flow /\ Once /\ Order  BY DEF Playing
<1>1. /\ pacer[s] = "tick" /\ HasFrame(s) /\ ready' = TRUE
      /\ sent' = Append(sent, h) /\ rem' = t /\ jit' = Taken(s)
      /\ \/ pacer' = pacer
         \/ ~info[active].muted /\ pacer' = [pacer EXCEPT ![s] = "mute"]
      /\ UNCHANGED <<fed, q, reader, prod, held, active, info, clean, filed, flawed>>
  BY DEF Ticking
<1>. HIDE DEF Emit
<1>2. /\ s = active /\ s # 0 /\ pacer \in [Streams -> {"tick", "mute", "unmute", "file", "done"}]
      /\ sent \in Seq(Frames) /\ filed \in Seq(Frames)
  BY <1>0, <1>1, Pacing, Groups DEF TaskTypes, PlayTypes
<1>3. Muting'
  <2>1. pacer'[s] \in {"tick", "mute"} /\ (pacer'[s] = "mute" => ~info[s].muted)
    BY <1>1, <1>2
  <2>2. /\ pacer' \in [Streams -> {"tick", "mute", "unmute", "file", "done"}]
        /\ \A u \in Streams : u # s => pacer'[u] = pacer[u]
    BY <1>1, <1>2
  <2>. QED  BY <1>0, <1>1, <2>1, <2>2, PacerMuting
<1>4. /\ P \in Seq(Frames) /\ P # <<>> /\ Distinct(P)
      /\ Elems(P) \cap (Elems(sent) \cup Elems(filed)) = {}
      /\ "order" \notin flawed => Ascending(P) /\ \A x \in Elems(sent), y \in Elems(P) : x < y
      /\ Rising(Taken(s)[s]) /\ Items(Taken(s)[s]) \subseteq Items(jit[s])
      /\ \A x \in Elems(P) :
           \/ x \in Heard
           \/ \E b \in Items(jit[s]) : Within(x, b) /\ \A c \in Items(Taken(s)[s]) : b < c
  BY <1>0, <1>1, <1>2, PendingNext
<1>. HIDE DEF P
<1>5. /\ h \in Frames /\ t \in Seq(Frames) /\ Elems(P) = Elems(t) \cup {h}
      /\ Distinct(t) /\ h \notin Elems(t)
      /\ Ascending(P) => Ascending(t) /\ \A y \in Elems(t) : h < y
  BY <1>4, TailElems
<1>. HIDE DEF h, t
<1>6. /\ Elems(sent') = Elems(sent) \cup {h}
      /\ Distinct(sent) /\ h \notin Elems(sent) => Distinct(sent')
      /\ Ascending(sent) /\ (\A y \in Elems(sent) : y < h) => Ascending(sent')
  BY <1>1, <1>2, <1>5, AppendElems
<1>7. /\ Elems(filed') = Elems(filed) /\ Elems(rem') = Elems(t) /\ (Distinct(filed) => Distinct(filed'))
      /\ Distinct(rem') /\ (Ascending(t) => Ascending(rem'))
  BY <1>1, <1>5
<1>8. Once'  BY <1>0, <1>4, <1>5, <1>6, <1>7 DEF Once
<1>9. Order'
  <2>1. SUFFICES ASSUME "order" \notin flawed
                 PROVE Ascending(sent') /\ Ascending(rem') /\ \A x \in Elems(sent'), y \in Elems(rem') : x < y
    BY <1>1 DEF Order
  <2>2. Ascending(sent)  BY <1>0, <2>1 DEF Order
  <2>. QED  BY <1>4, <1>5, <1>6, <1>7, <2>1, <2>2
<1>10. Flow'
  <2>1. Heard' \subseteq Heard \cup Elems(P)  BY <1>5, <1>6, <1>7 DEF Heard
  <2>2. /\ Rising(jit'[active]) /\ Items(jit'[active]) \subseteq Items(jit[active])
        /\ \A x \in Heard' : \/ x \in Heard
                             \/ \E b \in Items(jit[active]) :
                                  Within(x, b) /\ \A c \in Items(jit'[active]) : b < c
    BY <1>1, <1>2, <1>4, <2>1
  <2>. QED  BY <1>0, <1>1, <1>2, <2>2, FlowMoves
<1>. QED  BY <1>3, <1>8, <1>9, <1>10 DEF Playing

LEMMA EmitWaitsPlaying ==
  ASSUME Typed, Typed', Tasks, Playing, NEW s \in Streams, EmitWaits(s) PROVE Playing'
<1>. USE DEF EmitWaits
<1>. DEFINE P == Pending(s)
<1>0. Muting /\ Flow /\ Once /\ Order  BY DEF Playing
<1>1. /\ pacer[s] = "tick" /\ HasFrame(s) /\ ready' = TRUE
      /\ rem' = Append(Tail(P), Head(P)) /\ jit' = Taken(s)
      /\ flawed' = IF Len(P) > 1 THEN flawed \cup {"order"} ELSE flawed
      /\ UNCHANGED <<fed, q, reader, prod, held, pacer, active, info, clean, sent, filed>>
  BY DEF Ticking, PutBack, NoteOrder
<1>. HIDE DEF EmitWaits
<1>2. s = active /\ s # 0 /\ pacer \in [Streams -> {"tick", "mute", "unmute", "file", "done"}]
  BY <1>0, <1>1, Pacing, Groups DEF TaskTypes
<1>3. Muting'
  <2>1. /\ pacer'[s] = "tick" /\ ready' /\ (\A u \in Streams : u # s => pacer'[u] = pacer[u])
        /\ pacer' \in [Streams -> {"tick", "mute", "unmute", "file", "done"}]
    BY <1>1, <1>2
  <2>. QED  BY <1>0, <1>1, <2>1, PacerMuting
<1>4. /\ P \in Seq(Frames) /\ P # <<>> /\ Distinct(P)
      /\ Elems(P) \cap (Elems(sent) \cup Elems(filed)) = {}
      /\ "order" \notin flawed => Ascending(P) /\ \A x \in Elems(sent), y \in Elems(P) : x < y
      /\ Rising(Taken(s)[s]) /\ Items(Taken(s)[s]) \subseteq Items(jit[s])
      /\ \A x \in Elems(P) :
           \/ x \in Heard
           \/ \E b \in Items(jit[s]) : Within(x, b) /\ \A c \in Items(Taken(s)[s]) : b < c
  BY <1>0, <1>1, <1>2, PendingNext
<1>. HIDE DEF P
<1>5. Elems(rem') = Elems(P) /\ Distinct(rem') /\ (Len(P) <= 1 => Ascending(rem'))
  BY <1>1, <1>4, PutBackElems
<1>6. Elems(sent') = Elems(sent) /\ Elems(filed') = Elems(filed)
      /\ (Distinct(sent) => Distinct(sent')) /\ (Distinct(filed) => Distinct(filed'))
      /\ (Ascending(sent) => Ascending(sent'))
  BY <1>1
<1>7. Once'  BY <1>0, <1>4, <1>5, <1>6 DEF Once
<1>8. Order'
  <2>1. SUFFICES ASSUME "order" \notin flawed'
                 PROVE Ascending(sent') /\ Ascending(rem') /\ \A x \in Elems(sent'), y \in Elems(rem') : x < y
    BY DEF Order
  <2>2. "order" \notin flawed /\ ~(Len(P) > 1)  BY <1>1, <2>1
  <2>3. Len(P) \in Nat  BY <1>4, ElemsIndex
  <2>4. Len(P) <= 1 /\ Ascending(sent)  BY <1>0, <2>2, <2>3 DEF Order
  <2>. QED  BY <1>4, <1>5, <1>6, <2>2, <2>4
<1>9. Flow'
  <2>1. Heard' \subseteq Heard \cup Elems(P)  BY <1>5, <1>6 DEF Heard
  <2>2. /\ Rising(jit'[active]) /\ Items(jit'[active]) \subseteq Items(jit[active])
        /\ \A x \in Heard' : \/ x \in Heard
                             \/ \E b \in Items(jit[active]) :
                                  Within(x, b) /\ \A c \in Items(jit'[active]) : b < c
    BY <1>1, <1>2, <1>4, <2>1
  <2>. QED  BY <1>0, <1>1, <1>2, <2>2, FlowMoves
<1>. QED  BY <1>3, <1>7, <1>8, <1>9 DEF Playing

LEMMA EmitFailsPlaying ==
  ASSUME Typed, Typed', Tasks, Playing, NEW s \in Streams, EmitFails(s) PROVE Playing'
<1>. USE DEF EmitFails
<1>. DEFINE P == Pending(s)
            B == Append(Tail(P), Head(P))
            T == Taken(s)
            U == Unpack(T[s])
<1>0. Muting /\ Flow /\ Once /\ Order  BY DEF Playing
<1>1. pacer[s] = "tick" /\ HasFrame(s)  BY DEF Ticking
<1>2. /\ s = active /\ s # 0 /\ jb = s /\ jit \in [Streams -> Buffers]
      /\ pacer \in [Streams -> {"tick", "mute", "unmute", "file", "done"}]
      /\ sent \in Seq(Frames) /\ filed \in Seq(Frames)
  BY <1>0, <1>1, Pacing, Groups DEF TaskTypes, PlayTypes
<1>3. /\ filed' = filed \o B \o U /\ rem' = <<>> /\ jit' = [T EXCEPT ![s] = <<>>]
      /\ ready' = TRUE /\ pacer' = [pacer EXCEPT ![s] = "file"]
      /\ flawed \subseteq flawed'
      /\ UNCHANGED <<fed, q, reader, prod, held, active, info, clean, sent>>
  BY <1>2 DEF PutBack, NoteOrder
<1>. HIDE DEF EmitFails
<1>4. Muting'
  <2>1. /\ pacer'[s] = "file" /\ ready' /\ (\A u \in Streams : u # s => pacer'[u] = pacer[u])
        /\ pacer' \in [Streams -> {"tick", "mute", "unmute", "file", "done"}]
    BY <1>2, <1>3
  <2>. QED  BY <1>0, <1>1, <1>3, <2>1, PacerMuting
<1>5. /\ P \in Seq(Frames) /\ P # <<>> /\ Distinct(P)
      /\ Elems(P) \cap (Elems(sent) \cup Elems(filed)) = {}
      /\ Rising(T[s]) /\ Items(T[s]) \subseteq Items(jit[s])
      /\ \A x \in Elems(P) :
           \/ x \in Heard
           \/ \E b \in Items(jit[s]) : Within(x, b) /\ \A c \in Items(T[s]) : b < c
  BY <1>0, <1>1, <1>2, PendingNext
<1>6. T \in [Streams -> Buffers]  BY <1>1, PendingTyped
<1>7. /\ Heard \subseteq Int /\ Elems(P) \subseteq Int
      /\ Items(jit[s]) \subseteq Int
      /\ \A c \in Items(jit[s]) : \A x \in Heard : Before(x, c)
  <2>1. Elems(P) \subseteq Frames /\ Frames \subseteq Int  BY <1>5, ElemsIndex
  <2>2. jit[s] \in Buffers  BY <1>2
  <2>. QED  BY <1>0, <1>2, <2>1, <2>2, HeardFrames, ItemsIndex DEF Flow, Behind
<1>. HIDE DEF P, T
<1>8. \A c \in Items(T[s]) : \A x \in Heard \cup Elems(P) : Before(x, c)
  <2>1. SUFFICES ASSUME NEW c \in Items(T[s]), NEW x \in Elems(P) PROVE Before(x, c)
    BY <1>5, <1>7
  <2>2. CASE x \in Heard  BY <1>5, <1>7, <2>2
  <2>3. CASE \E b \in Items(jit[s]) : Within(x, b) /\ \A d \in Items(T[s]) : b < d
    <3>1. PICK b \in Items(jit[s]) : Within(x, b) /\ b < c  BY <2>3
    <3>2. x \in Int /\ b \in Int /\ c \in Int  BY <1>5, <1>7
    <3>. QED  BY <3>1, <3>2, WithinBefore
  <2>. QED  BY <1>5, <2>2, <2>3
<1>9. /\ U \in Seq(Frames) /\ Distinct(U)
      /\ \A y \in Elems(U) : \E c \in Items(T[s]) : Within(y, c)
      /\ Elems(U) \cap (Heard \cup Elems(P)) = {}
  <2>1. T[s] \in Buffers /\ Heard \cup Elems(P) \in SUBSET Int  BY <1>2, <1>6, <1>7
  <2>. QED  BY <1>5, <1>8, <2>1, UnpackNew
<1>10. B \in Seq(Frames) /\ Elems(B) = Elems(P) /\ Distinct(B)  BY <1>5, PutBackElems
<1>. HIDE DEF B, U
<1>11. /\ filed \o B \in Seq(Frames) /\ Elems(filed \o B) = Elems(filed) \cup Elems(P)
       /\ Distinct(filed \o B)
  <2>1. Distinct(filed) /\ Elems(filed) \cap Elems(B) = {}  BY <1>0, <1>5, <1>10 DEF Once
  <2>. QED  BY <1>2, <1>10, <2>1, ConcatElems
<1>12. /\ Elems(filed') = Elems(filed) \cup Elems(P) \cup Elems(U) /\ Distinct(filed')
  <2>1. Elems(filed \o B) \cap Elems(U) = {}  BY <1>9, <1>11 DEF Heard
  <2>2. PICK g \in Seq(Frames) : g = filed \o B  BY <1>11
  <2>3. Elems(g \o U) = Elems(g) \cup Elems(U) /\ Distinct(g \o U)
    BY <1>9, <1>11, <2>1, <2>2, ConcatElems
  <2>. QED  BY <1>3, <1>11, <2>2, <2>3
<1>13. /\ Elems(rem') = {} /\ Distinct(rem') /\ Ascending(rem')
       /\ Elems(sent') = Elems(sent) /\ (Distinct(sent) => Distinct(sent'))
       /\ (Ascending(sent) => Ascending(sent'))
  BY <1>3, EmptyElems
<1>14. Once'
  <2>1. Elems(sent) \cap Elems(U) = {}  BY <1>9 DEF Heard
  <2>. QED  BY <1>0, <1>5, <1>12, <1>13, <2>1 DEF Once
<1>15. Order'  BY <1>0, <1>3, <1>13 DEF Order
<1>16. Flow'
  <2>1. jit'[s] = <<>> /\ Items(<<>>) = {} /\ Rising(<<>>)
    BY <1>3, <1>6, EmptyBuffer, ItemsIndex
  <2>2. Heard' \subseteq Heard \cup Elems(P) \cup Elems(U)  BY <1>12, <1>13 DEF Heard
  <2>3. \A x \in Heard' : x \in Heard \/ \E b \in Items(jit[s]) : Within(x, b)
    BY <1>5, <1>9, <2>2
  <2>4. /\ Rising(jit'[active]) /\ Items(jit'[active]) \subseteq Items(jit[active])
        /\ \A x \in Heard' : \/ x \in Heard
                             \/ \E b \in Items(jit[active]) :
                                  Within(x, b) /\ \A c \in Items(jit'[active]) : b < c
    BY <1>2, <2>1, <2>3
  <2>. QED  BY <1>0, <1>2, <1>3, <2>4, FlowMoves
<1>. QED  BY <1>4, <1>14, <1>15, <1>16 DEF Playing

LEMMA PacerPlaying ==
  ASSUME Typed, Typed', Tasks, Playing, NEW s \in Streams,
         PacerDone(s) \/ Idle(s) \/ MuteAnswered(s) \/ UnmuteAnswered(s)
  PROVE  Playing'
<1>. USE DEF PacerDone, Idle, MuteAnswered, UnmuteAnswered
<1>0. Muting /\ Flow /\ Once /\ Order  BY DEF Playing
<1>1. /\ pacer[s] # "done"
      /\ UNCHANGED <<fed, q, reader, prod, held, jit, rem, clean, ready, sent, filed>>
      /\ flawed \subseteq flawed'
      /\ \E x \in {"tick", "unmute", "done"} : pacer' = [pacer EXCEPT ![s] = x]
  BY DEF Ticking
<1>2. /\ s = active /\ s # 0
      /\ pacer[s] \in {"mute", "unmute"} => rec[s] = s
      /\ pacer \in [Streams -> {"tick", "mute", "unmute", "file", "done"}]
      /\ info \in [Streams -> [muted : BOOLEAN, first : BOOLEAN, seg : {0, 1}, barge : BOOLEAN]]
  BY <1>0, <1>1, Pacing, Groups DEF TaskTypes, CallTypes
<1>3. /\ active' = active
      /\ \A t \in Streams : info'[t].barge = info[t].barge
      /\ info'[s].muted => ready
  <2>1. info[s].muted => ready  BY <1>0, <1>2 DEF Muting
  <2>2. pacer[s] = "mute" => ready  BY <1>0 DEF Muting
  <2>4. CASE MuteAnswered(s) /\ info' # info
    <3>1. /\ rec[s] = s /\ active' = rec[s] /\ pacer[s] = "mute"
          /\ info' = [info EXCEPT ![s].muted = TRUE, ![s].first = TRUE]
      BY <1>2, <2>4
    <3>. QED  BY <1>2, <2>2, <3>1
  <2>5. CASE UnmuteAnswered(s) /\ info' # info
    <3>1. /\ rec[s] = s /\ active' = rec[s]
          /\ info' = [info EXCEPT ![s].muted = FALSE]
      BY <1>2, <2>5
    <3>. QED  BY <1>2, <3>1
  <2>6. active' = active
    <3>1. CASE PacerDone(s) \/ Idle(s)  BY <3>1
    <3>2. CASE MuteAnswered(s)
      <4>1. pacer[s] = "mute" /\ (active' = active \/ active' = rec[s])  BY <3>2
      <4>. QED  BY <1>2, <4>1
    <3>3. CASE UnmuteAnswered(s)
      <4>1. pacer[s] = "unmute" /\ (active' = active \/ active' = rec[s])  BY <3>3
      <4>. QED  BY <1>2, <4>1
    <3>. QED  BY <3>1, <3>2, <3>3
  <2>7. CASE info' = info  BY <1>2, <2>1, <2>6, <2>7
  <2>. QED  BY <2>4, <2>5, <2>6, <2>7
<1>4. pacer'[s] \in {"unmute", "done"} => rem = <<>>
  <2>1. pacer'[s] = "unmute" => Idle(s)  BY <1>2
  <2>2. pacer'[s] = "done" => PacerDone(s)  BY <1>2
  <2>3. Idle(s) => rem = <<>>
    <3>1. SUFFICES ASSUME Idle(s) PROVE rem = <<>>  OBVIOUS
    <3>2. info[s].muted /\ (~Warm \/ rem = <<>>)  BY <1>2, <3>1
    <3>3. ready  BY <1>0, <1>2, <3>2 DEF Muting
    <3>. QED  BY <3>2, <3>3 DEF Warm
  <2>4. PacerDone(s) => rem = <<>>
    <3>1. SUFFICES ASSUME PacerDone(s) PROVE rem = <<>>  OBVIOUS
    <3>2. pacer[s] = "file" \/ rem = <<>>  BY <1>2, <3>1
    <3>. QED  BY <1>0, <3>2 DEF Muting
  <2>. QED  BY <2>1, <2>2, <2>3, <2>4
<1>5. Muting'
  <2>1. /\ pacer'[s] \in {"tick", "unmute", "done"}
        /\ pacer' \in [Streams -> {"tick", "mute", "unmute", "file", "done"}]
        /\ \A t \in Streams : t # s => pacer'[t] = pacer[t]
    BY <1>1, <1>2
  <2>. HIDE DEF PacerDone, Idle, MuteAnswered, UnmuteAnswered
  <2>. QED  BY <1>0, <1>1, <1>3, <1>4, <2>1, PacerMuting
<1>. HIDE DEF PacerDone, Idle, MuteAnswered, UnmuteAnswered
<1>6. Once' /\ Order'  BY <1>0, <1>1, SameHeard
<1>7. Flow'  BY <1>0, <1>1, <1>3, SameFlow
<1>. QED  BY <1>5, <1>6, <1>7 DEF Playing

LEMMA KeepalivePlaying ==
  ASSUME Typed, Typed', Tasks, Playing, NEW s \in Streams, Keepalive(s) PROVE Playing'
<1>. USE DEF Keepalive, KeepaliveTimeout, KeepaliveDone
<1>0. Muting /\ Flow /\ Once /\ Order  BY DEF Playing
<1>1. /\ UNCHANGED <<fed, q, reader, prod, held, pacer, active, info, ready, clean, sent, flawed>>
      /\ (TakeBuffered /\ active # 0) \/ UNCHANGED <<rem, jit, filed>>
  OBVIOUS
<1>. HIDE DEF Keepalive, KeepaliveTimeout, KeepaliveDone
<1>2. Muting'
  <2>1. rem' \in {rem, <<>>}  BY <1>1 DEF TakeBuffered
  <2>. QED  BY <1>0, <1>1, <2>1 DEF Muting
<1>3. CASE TakeBuffered /\ active # 0  BY <1>0, <1>1, <1>2, <1>3, TakePlaying DEF Playing
<1>4. CASE UNCHANGED <<rem, jit, filed>>
  BY <1>0, <1>1, <1>2, <1>4, SameHeard, SameFlow DEF Playing
<1>. QED  BY <1>1, <1>3, <1>4
-----------------------------------------------------------------------------
(* Every step keeps every frame in its place: the end of a stream *)

\* A stream that is being cleaned up has no pacer any more.
LEMMA Stopped ==
  ASSUME Typed, Tasks, clean # NoClean, active \in {0, clean.s}
  PROVE  \A t \in Streams : pacer[t] = "done"
<1>1. SUFFICES ASSUME NEW t \in Streams, pacer[t] # "done" PROVE FALSE  OBVIOUS
<1>2. t = active /\ prod[t] \notin {"done", "stuck", "clean"} /\ t # 0
  BY <1>1 DEF Tasks, OneStream, Streams
<1>3. t = clean.s  BY <1>2
<1>4. clean.by \in Bargers \cup {"producer"}  BY Groups DEF Cleaned, StopTypes
<1>. QED  BY <1>2, <1>3, <1>4 DEF Tasks, Cleaning

\* The stream is removed; of what is left of its last chunk at most the next frame
\* is sent.
LEMMA RemovePlaying ==
  ASSUME Typed, Typed', Tasks, Playing, RemoveStream, clean # NoClean, active \in {0, clean.s},
         \/ sent' = sent
         \/ rem # <<>> /\ sent' = Append(sent, Head(rem)),
         UNCHANGED <<fed, q, pacer, filed>>, flawed \subseteq flawed'
  PROVE  Playing'
<1>0. Muting /\ Flow /\ Once /\ Order  BY DEF Playing
<1>1. active' = 0 /\ rem' = <<>> /\ clean' = NoClean  BY DEF RemoveStream
<1>2. Muting'
  <2>1. \A t \in Streams : pacer'[t] = "done"  BY Stopped
  <2>2. clean'.by \notin Bargers  BY <1>1, StreamingAssumption DEF NoClean
  <2>. QED  BY <1>1, <2>1, <2>2 DEF Muting
<1>3. /\ sent \in Seq(Frames) /\ rem \in Seq(Frames)
      /\ Elems(filed') = Elems(filed) /\ (Distinct(filed) => Distinct(filed'))
      /\ Elems(rem') = {} /\ Distinct(rem') /\ Ascending(rem')
  BY <1>1, EmptyElems, Groups DEF PlayTypes
<1>4. /\ Elems(sent') \subseteq Elems(sent) \cup Elems(rem)
      /\ Distinct(sent')
      /\ "order" \notin flawed => Ascending(sent')
  <2>1. CASE sent' = sent  BY <1>0, <2>1 DEF Once, Order
  <2>2. CASE rem # <<>> /\ sent' = Append(sent, Head(rem))
    <3>1. Head(rem) \in Frames /\ Elems(rem) = Elems(Tail(rem)) \cup {Head(rem)}
      BY <1>3, <2>2, TailElems
    <3>2. PICK h \in Frames : h = Head(rem)  BY <3>1
    <3>3. h \in Elems(rem) /\ h \notin Elems(sent)  BY <1>0, <3>1, <3>2 DEF Once
    <3>4. /\ Elems(sent') = Elems(sent) \cup {h}
          /\ Distinct(sent) /\ h \notin Elems(sent) => Distinct(sent')
          /\ Ascending(sent) /\ (\A y \in Elems(sent) : y < h) => Ascending(sent')
      BY <1>3, <2>2, <3>2, AppendElems
    <3>. QED  BY <1>0, <3>3, <3>4 DEF Once, Order
  <2>. QED  BY <2>1, <2>2
<1>5. Once'  BY <1>0, <1>3, <1>4 DEF Once
<1>6. Order'  BY <1>3, <1>4 DEF Order
<1>7. Flow'
  <2>1. Heard' \subseteq Heard  BY <1>3, <1>4 DEF Heard
  <2>2. Behind'  BY <1>1 DEF Behind
  <2>. QED  BY <1>0, <2>1, <2>2 DEF Flow
<1>. QED  BY <1>2, <1>5, <1>6, <1>7 DEF Playing

LEMMA CleanupPlaying ==
  ASSUME Typed, Typed', Tasks, Playing, Cleanup \/ CleanupUnmuted, "orphan" \notin flawed'
  PROVE  Playing'
<1>0. Muting /\ Flow /\ Once /\ Order  BY DEF Playing
<1>1. /\ clean # NoClean /\ active \in {0, clean.s} /\ flawed \subseteq flawed'
      /\ UNCHANGED <<fed, q, pacer, filed>>
  BY DEF Cleanup, CleanupUnmuted, NoClean, NoteOrphan
<1>2. CASE CleanupUnmuted
  <2>1. RemoveStream /\ sent' = sent  BY <1>2 DEF CleanupUnmuted
  <2>. QED  BY <1>1, <2>1, RemovePlaying
<1>3. CASE Cleanup /\ ~(active # 0 /\ info[active].muted)
  <2>1. /\ RemoveStream
        /\ \/ sent' = sent
           \/ rem # <<>> /\ sent' = Append(sent, Head(rem))
    BY <1>3 DEF Cleanup
  <2>. QED  BY <1>1, <2>1, RemovePlaying
<1>4. CASE Cleanup /\ active # 0 /\ info[active].muted
  <2>1. /\ clean' = [clean EXCEPT !.at = "unmute"]
        /\ sent' = IF rem # <<>> /\ ~info[active].barge THEN Append(sent, Head(rem)) ELSE sent
        /\ UNCHANGED <<fed, q, active, rem, ready, prod, pacer, reader, held, jit, info, filed>>
    BY <1>4 DEF Cleanup
  <2>2. active = clean.s  BY <1>1, <1>4
  <2>3. clean.by \in Bargers \cup {"producer"} /\ clean'.by = clean.by /\ clean'.s = clean.s
    BY <1>1, <2>1, Groups DEF Cleaned, StopTypes
  <2>4. clean.by \in Bargers => info[active].barge  BY <1>0, <2>2 DEF Muting
  <2>5. clean.by = "producer" => prod[active] = "clean"  BY <2>2 DEF Tasks, Cleaning
  <2>6. clean.by = "producer" => rem = <<>>  BY <1>0, <1>4, <2>5 DEF Muting
  <2>7. sent' = sent  BY <2>1, <2>3, <2>4, <2>6
  <2>8. Muting'  BY <1>0, <2>1, <2>3 DEF Muting
  <2>. QED  BY <1>0, <1>1, <2>1, <2>7, <2>8, SameHeard, SameFlow DEF Playing
<1>. QED  BY <1>2, <1>3, <1>4

LEMMA BargePlaying ==
  ASSUME Typed, Typed', Tasks, Playing, NEW b \in Bargers, Barge(b) PROVE Playing'
<1>. USE DEF Barge
<1>. DEFINE s == active
<1>0. Muting /\ Flow /\ Once /\ Order  BY DEF Playing
<1>1. /\ s # 0 /\ CancelProducer(s)
      /\ info' = [info EXCEPT ![s].barge = TRUE]
      /\ pacer' = [pacer EXCEPT ![s] = "done"]
      /\ \/ clean' = [s |-> s, by |-> b, at |-> "grace"]
         \/ clean' = NoClean
         \/ clean' = clean
      /\ UNCHANGED <<fed, q, reader, active, rem, ready, sent, filed>>
      /\ flawed \subseteq flawed'
  OBVIOUS
<1>. HIDE DEF Barge, s
<1>2. /\ s \in Streams /\ jit \in [Streams -> Buffers] /\ s = active
      /\ info \in [Streams -> [muted : BOOLEAN, first : BOOLEAN, seg : {0, 1}, barge : BOOLEAN]]
      /\ pacer \in [Streams -> {"tick", "mute", "unmute", "file", "done"}]
      /\ prod \in [Streams -> {"get", "put", "end", "file", "drain", "clean", "stuck", "done"}]
  BY <1>1, Numbers, Groups DEF TaskTypes, BufferTypes, CallTypes, s
<1>3. \A t \in Streams : pacer'[t] = "done"
  BY <1>1, <1>2 DEF Tasks, OneStream
<1>4. prod'[s] \in {"stuck", "done"}  BY <1>1, <1>2 DEF CancelProducer
<1>5. /\ info'[s].barge
      /\ \A t \in Streams : /\ info'[t].muted = info[t].muted
                            /\ info[t].barge => info'[t].barge
  BY <1>1, <1>2
<1>6. Muting'
  <2>1. clean'.by \in Bargers => info'[clean'.s].barge
    <3>1. CASE clean' = [s |-> s, by |-> b, at |-> "grace"]  BY <1>5, <3>1
    <3>2. CASE clean' = NoClean  BY <3>2, StreamingAssumption DEF NoClean
    <3>3. CASE clean' = clean
      <4>1. clean.by \in Bargers => clean.s \in Streams
        BY Groups, Numbers, StreamingAssumption DEF Cleaned, NoClean
      <4>. QED  BY <1>0, <1>5, <3>3, <4>1 DEF Muting
    <3>. QED  BY <1>1, <3>1, <3>2, <3>3
  <2>2. active' = s /\ (info'[s].muted => ready')  BY <1>0, <1>1, <1>2, <1>5 DEF Muting
  <2>. QED  BY <1>3, <1>4, <2>1, <2>2 DEF Muting
<1>7. Once' /\ Order' /\ Heard' = Heard  BY <1>0, <1>1, SameHeard
<1>8. Rising(jit[s])  BY <1>0, <1>1, <1>2 DEF Flow, Behind
<1>9. Rising(jit'[s]) /\ Items(jit'[s]) \subseteq Items(jit[s])
  <2>1. CASE jit' = jit  BY <1>8, <2>1
  <2>2. CASE prod[s] \in {"get", "put", "end", "file"} /\ jit' = [jit EXCEPT ![s] = Append(@, End)]
    <3>1. Unended(jit[s]) /\ jit[s] \in Buffers  BY <1>2, <2>2, Groups DEF Produced
    <3>2. jit'[s] = Append(jit[s], End)  BY <1>2, <2>2
    <3>3. End \in Chunks \cup {End}  OBVIOUS
    <3>4. Items(Append(jit[s], End)) \subseteq Items(jit[s]) \cup ({End} \ {End})
          /\ Rising(Append(jit[s], End))
      BY <1>8, <3>1, <3>3, AppendItems
    <3>. QED  BY <3>2, <3>4
  <2>. QED  BY <1>1, <2>1, <2>2 DEF CancelProducer
<1>10. Flow'
  <2>1. prod'[active] \notin {"get", "put"} /\ active # 0  BY <1>1, <1>2, <1>4
  <2>2. Rising(jit'[active]) /\ Items(jit'[active]) \subseteq Items(jit[active])
    BY <1>2, <1>9
  <2>3. \A x \in Heard' : x \in Heard  BY <1>7
  <2>. QED  BY <1>0, <1>1, <2>1, <2>2, <2>3, FlowMoves
<1>. QED  BY <1>6, <1>7, <1>10 DEF Playing

LEMMA BargeIdlePlaying ==
  ASSUME Tasks, Playing, NEW b \in Bargers, BargeIdle(b)
  PROVE  Playing'
<1>1. UNCHANGED <<fed, q, reader, prod, held, pacer, jit, rem, active, info, ready, sent, filed,
                  clean, flawed>>
  BY DEF BargeIdle
<1>2. Muting'  BY <1>1 DEF Playing, Muting
<1>. QED  BY <1>1, <1>2, SameHeard, SameFlow DEF Playing

LEMMA InitPlaying == Init => Playing
<1>. SUFFICES ASSUME Init PROVE Playing  OBVIOUS
<1>. USE DEF Init
<1>1. Muting
  <2>1. clean.by \notin Bargers  BY StreamingAssumption DEF NoClean
  <2>. QED  BY <2>1 DEF Muting
<1>2. Elems(<<>>) = {} /\ Distinct(<<>>) /\ Ascending(<<>>)  BY EmptyElems
<1>3. Items(<<>>) = {} /\ Rising(<<>>)  BY EmptyBuffer, ItemsIndex
<1>4. Once /\ Order  BY <1>2 DEF Once, Order
<1>5. Flow
  <2>1. Heard = {}  BY <1>2 DEF Heard
  <2>. QED  BY <1>3, <2>1 DEF Flow, Behind
<1>. QED  BY <1>1, <1>4, <1>5 DEF Playing

\* Every step of the specification.
LEMMA NextPlaying == PlayingSound /\ [Next]_vars => PlayingSound'
<1>. SUFFICES ASSUME PlayingSound, [Next]_vars PROVE PlayingSound'  OBVIOUS
<1>1. TasksSound'  BY NextTasks DEF PlayingSound
<1>2. SUFFICES ASSUME "orphan" \notin flawed' PROVE Playing'  BY <1>1 DEF PlayingSound
<1>3. "orphan" \notin flawed  BY <1>2, FlawedGrows
<1>4. Typed /\ Typed' /\ Tasks /\ Playing  BY <1>1, <1>3 DEF PlayingSound, TasksSound
<1>5. CASE Feed  BY <1>4, <1>5, AgentAudioPlaying, AgentAudioDonePlaying, PipelinePlaying DEF Feed
<1>6. ASSUME NEW s \in Streams, Producer(s) PROVE Playing'
  BY <1>4, <1>6, GetPlaying, PutPlaying, TimeoutPlaying, DrainedPlaying DEF Producer
<1>7. ASSUME NEW s \in Streams, Pacer(s) PROVE Playing'
  BY <1>4, <1>7, EmitPlaying, EmitWaitsPlaying, EmitFailsPlaying, PacerPlaying DEF Pacer
<1>8. ASSUME NEW s \in Streams, Keepalive(s) PROVE Playing'  BY <1>4, <1>8, KeepalivePlaying
<1>9. CASE Cleanup \/ CleanupUnmuted  BY <1>2, <1>4, <1>9, CleanupPlaying
<1>10. ASSUME NEW b \in Bargers, Barge(b) \/ BargeIdle(b) PROVE Playing'
  BY <1>4, <1>10, BargePlaying, BargeIdlePlaying
<1>11. CASE UNCHANGED vars
  <2>1. UNCHANGED <<fed, q, reader, prod, held, pacer, jit, rem, active, info, ready, sent, filed,
                    clean, flawed>>
    BY <1>11 DEF vars
  <2>2. Muting'  BY <1>4, <2>1 DEF Playing, Muting
  <2>. QED  BY <1>4, <2>1, <2>2, SameHeard, SameFlow DEF Playing
<1>. QED  BY <1>5, <1>6, <1>7, <1>8, <1>9, <1>10, <1>11 DEF Next

\* Every frame is played at most once, live or as a file, and the live ones in the
\* order of the provider, whatever the interleaving of the engine, the producer,
\* the pacer, the keepalive task, the cleanup and any number of barge-ins, and
\* however many frames a chunk has; except after the two interruptions the
\* property names.
THEOREM PlayedInOrderHolds == Spec => []PlayedInOrder
<1>1. Init => PlayingSound  BY InitTyped, InitTasks, InitPlaying DEF PlayingSound, TasksSound
<1>2. PlayingSound => PlayedInOrder
  <2>1. CASE "orphan" \in flawed  BY <2>1 DEF PlayedInOrder, InOrder, PlayedOnce
  <2>2. CASE "orphan" \notin flawed
    BY <2>2, PlayedInOrderFollows DEF PlayingSound, TasksSound, Playing, PlayedInOrder
  <2>. QED  BY <2>1, <2>2
<1>. QED  BY <1>1, <1>2, NextPlaying, PTL DEF Spec
====
