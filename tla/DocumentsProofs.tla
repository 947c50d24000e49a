-------------------------- MODULE DocumentsProofs --------------------------
(***************************************************************************)
(* Theorems about Sha1, Bencode and Documents: SHA-1 pads as the standard  *)
(* says, and the parser reads whole documents back and no others, with     *)
(* what they assign.                                                       *)
(***************************************************************************)
EXTENDS Documents, Induction

-----------------------------------------------------------------------------
(* SHA-1: the blocks that are hashed are those of the standard.             *)
Context ==
  [message_block : Text, hash_state : Seq(Text), total_bits_processed : Nat]

LEMMA ProcessBlockType ==
  ASSUME NEW context \in Context, NEW block \in Text
  PROVE  ProcessBlock(context, block) \in Context
<1>1. Append(context.hash_state, block) \in Seq(Text) /\ <<>> \in Text
  BY DEF Context, Text
<1> QED  BY <1>1 DEF Context, ProcessBlock

LEMMA UpdateByteType ==
  ASSUME NEW context \in Context, NEW byte \in Nat
  PROVE  UpdateByte(context, byte) \in Context
<1> DEFINE block == Append(context.message_block, byte)
           counted == [context EXCEPT !.message_block = block, !.total_bits_processed = @ + 8]
<1>1. block \in Text
  BY DEF Context, Text
<1> HIDE DEF block
<1>2. counted \in Context
  <2> DEFINE replaced == [context EXCEPT !.message_block = block]
  <2>1. replaced \in Context
    BY <1>1 DEF Context
  <2>2. context.total_bits_processed + 8 \in Nat
    BY DEF Context
  <2>3. counted = [replaced EXCEPT !.total_bits_processed = context.total_bits_processed + 8]
    BY DEF Context
  <2> HIDE DEF counted, replaced
  <2> QED  BY <2>1, <2>2, <2>3 DEF Context
<1>3. ASSUME NEW c \in Context PROVE ProcessBlock(c, block) \in Context
  BY <1>1, ProcessBlockType
<1> HIDE DEF counted
<1>4. UpdateByte(context, byte) =
        IF Len(block) = BlockSize THEN ProcessBlock(counted, block) ELSE counted
  BY DEF UpdateByte, block, counted
<1> QED  BY <1>2, <1>3, <1>4

(* Update takes the bytes one after the other.                              *)
LEMMA UpdateSteps ==
  ASSUME NEW data \in Text
  PROVE  \E context :
           /\ context[0] = NewContext
           /\ \A n \in 1 .. Len(data) : context[n] = UpdateByte(context[n - 1], data[n])
           /\ Update(NewContext, data) = context[Len(data)]
<1> DEFINE base == NewContext
           op == [p \in Context \X Nat |-> UpdateByte(p[1], p[2])]
           Step(f, t) == IF t = {} THEN base ELSE UpdateByte(f[t \ {Max(t)}], data[Max(t)])
           F == CHOOSE F : F = [t \in SUBSET DOMAIN data |-> Step(F, t)]
<1>1. Update(NewContext, data) = F[DOMAIN data]
  BY Zenon DEF Update, FoldLeft, MapThenFoldSet
<1>2. /\ data \in Seq(Nat) /\ DOMAIN data = 1 .. Len(data) /\ Len(data) \in Nat
      /\ \A i \in 1 .. Len(data) : data[i] \in Nat
  BY DEF Text
<1>3. ASSUME NEW c \in Context, NEW x \in Nat
      PROVE  op[<<c, x>>] = UpdateByte(c, x) /\ UpdateByte(c, x) \in Context
  BY UpdateByteType
<1>4. base \in Context
  BY DEF NewContext, Context, Text
<1>5. FoldOver(Context, Nat, base, op, data)
  <2>1. op \in [Context \X Nat -> Context]
    BY UpdateByteType
  <2> QED  BY <1>2, <1>4, <2>1 DEF FoldOver
<1> HIDE DEF op, base
<1>6. F = [t \in SUBSET DOMAIN data |-> Step(F, t)]
  <2>1. PICK f : FoldTable(f, Context, base, op, data)
    <3> HIDE DEF Step, F
    <3> QED  BY <1>5, FoldExists
  <2>2. ASSUME NEW t \in SUBSET DOMAIN data, t # {}
        PROVE  op[<<f[t \ {Max(t)}], data[Max(t)]>>]
                 = UpdateByte(f[t \ {Max(t)}], data[Max(t)])
    <3>1. Max(t) \in 1 .. Len(data)
      BY <1>2, <2>2, MaxOfNumbers
    <3>2. f[t \ {Max(t)}] \in Context
      BY <2>1 DEF FoldTable
    <3> QED  BY <1>2, <1>3, <3>1, <3>2
  <2>3. f = [t \in SUBSET DOMAIN data |-> Step(f, t)]
    BY <2>1, <2>2 DEF FoldTable
  <2> HIDE DEF Step
  <2> QED  BY <2>3, Zenon
<1> HIDE DEF F
<1> DEFINE context == [n \in 0 .. Len(data) |-> F[1 .. n]]
<1>7. context[0] = NewContext
  <2>1. 1 .. 0 = {}
    OBVIOUS
  <2> QED  BY <1>2, <1>6, <2>1 DEF base
<1>8. ASSUME NEW n \in 1 .. Len(data)
      PROVE  context[n] = UpdateByte(context[n - 1], data[n])
  <2>1. n \in Nat \ {0} /\ 1 .. n \subseteq 1 .. Len(data) /\ n \in 1 .. n
    BY <1>2
  <2>2. Max(1 .. n) = n /\ (1 .. n) \ {Max(1 .. n)} = 1 .. n - 1
    BY <2>1, MaxOfInterval
  <2>3. F[1 .. n] = UpdateByte(F[1 .. n - 1], data[n])
    BY <1>2, <1>6, <2>1, <2>2
  <2> QED  BY <1>2, <2>3
<1>9. context[Len(data)] = F[DOMAIN data]
  BY <1>2
<1> HIDE DEF context
<1> QED  BY <1>1, <1>7, <1>8, <1>9

(* The blocks of a text, and what is left after them.                       *)
BlocksOf(data, q) ==
  [b \in 1 .. q |-> SubSeq(data, (b - 1) * BlockSize + 1, b * BlockSize)]

Processed(context, data, n, q) ==
  /\ q * BlockSize <= n /\ n < (q + 1) * BlockSize
  /\ context.hash_state = BlocksOf(data, q)
  /\ context.message_block = SubSeq(data, q * BlockSize + 1, n)
  /\ context.total_bits_processed = 8 * n

LEMMA BlocksType ==
  ASSUME NEW data \in Text, NEW q \in Nat, q * BlockSize <= Len(data)
  PROVE  BlocksOf(data, q) \in Seq(Text) /\ Len(BlocksOf(data, q)) = q
<1>1. BlockSize \in Nat
  BY Sha1Assumption
<1>2. ASSUME NEW b \in 1 .. q
      PROVE  SubSeq(data, (b - 1) * BlockSize + 1, b * BlockSize) \in Text
  <2>1. b * BlockSize <= q * BlockSize /\ b * BlockSize \in Nat /\ (b - 1) * BlockSize \in Nat
    BY <1>1
  <2> DEFINE x == (b - 1) * BlockSize
             y == b * BlockSize
  <2>2. x \in Nat /\ y \in Nat /\ y <= Len(data)
    BY <2>1, <1>1 DEF Text
  <2> HIDE DEF x, y
  <2> QED  BY <2>2 DEF Text, x, y
<1> QED  BY <1>2 DEF BlocksOf

LEMMA ElementOf ==
  ASSUME NEW S, NEW s \in Seq(S), NEW i \in 1 .. Len(s)
  PROVE  s[i] \in S
OBVIOUS

Longer(t, s, a) ==
  /\ Len(t) = Len(s) + 1
  /\ \A i \in 1 .. Len(s) : t[i] = s[i]
  /\ t[Len(s) + 1] = a

LEMMA Appended ==
  ASSUME NEW S, NEW s \in Seq(S), NEW a \in S
  PROVE  Append(s, a) \in Seq(S) /\ Longer(Append(s, a), s, a)
BY DEF Longer

LEMMA OneMoreBlock ==
  ASSUME NEW data \in Text, NEW q \in Nat, (q + 1) * BlockSize <= Len(data), NEW block,
         block = SubSeq(data, q * BlockSize + 1, (q + 1) * BlockSize)
  PROVE  BlocksOf(data, q + 1) = Append(BlocksOf(data, q), block)
<1> DEFINE blocks == BlocksOf(data, q)
<1>1. q * BlockSize <= Len(data)
  BY Sha1Assumption DEF Text
<1>2. /\ blocks \in Seq(Text) /\ Len(blocks) = q
      /\ BlocksOf(data, q + 1) \in Seq(Text) /\ Len(BlocksOf(data, q + 1)) = q + 1
  BY <1>1, BlocksType
<1>3. BlocksOf(data, q + 1)[q + 1] = block
  <2>1. q + 1 \in 1 .. q + 1 /\ (q + 1) - 1 = q
    OBVIOUS
  <2> QED  BY <2>1 DEF BlocksOf
<1>4. block \in Text
  <2>1. q + 1 \in 1 .. q + 1
    OBVIOUS
  <2> DEFINE longer == BlocksOf(data, q + 1)
  <2>2. longer \in Seq(Text) /\ Len(longer) = q + 1 /\ longer[q + 1] = block
    BY <1>2, <1>3
  <2> HIDE DEF longer
  <2> QED  BY <2>1, <2>2, ElementOf
<1>5. ASSUME NEW b \in 1 .. q PROVE blocks[b] = BlocksOf(data, q + 1)[b]
  <2>1. b \in 1 .. q + 1
    OBVIOUS
  <2> QED  BY <2>1 DEF BlocksOf
<1> HIDE DEF blocks
<1>6. /\ Append(blocks, block) \in Seq(Text) /\ Len(Append(blocks, block)) = q + 1
      /\ \A i \in 1 .. q : Append(blocks, block)[i] = blocks[i]
      /\ Append(blocks, block)[q + 1] = block
  <2> DEFINE longer == Append(blocks, block)
  <2>1. longer \in Seq(Text) /\ Longer(longer, blocks, block)
    BY <1>2, <1>4, Appended
  <2> HIDE DEF longer
  <2>2. /\ longer \in Seq(Text) /\ Len(longer) = q + 1
        /\ \A i \in 1 .. q : longer[i] = blocks[i]
        /\ longer[q + 1] = block
    BY <1>2, <2>1 DEF Longer
  <2> QED  BY <2>2 DEF longer
<1>7. ASSUME NEW b \in 1 .. q + 1 PROVE Append(blocks, block)[b] = BlocksOf(data, q + 1)[b]
  <2>1. b \in 1 .. q \/ b = q + 1
    OBVIOUS
  <2> QED  BY <1>3, <1>5, <1>6, <2>1
<1>8. Append(blocks, block) = BlocksOf(data, q + 1)
  BY <1>2, <1>6, <1>7, SameElements
<1> QED  BY <1>8 DEF blocks

LEMMA ByteIsProcessed ==
  ASSUME NEW data \in Text, NEW n \in 0 .. Len(data) - 1, NEW q \in Nat,
         NEW context \in Context, Processed(context, data, n, q)
  PROVE  \E k \in Nat : Processed(UpdateByte(context, data[n + 1]), data, n + 1, k)
<1> DEFINE first == q * BlockSize
           block == SubSeq(data, first + 1, n)
           longer == SubSeq(data, first + 1, n + 1)
           after == UpdateByte(context, data[n + 1])
<1>1. BlockSize \in Nat /\ BlockSize >= 8
  BY Sha1Assumption
<1>2. first \in Nat /\ first <= n /\ n < first + BlockSize /\ n \in Nat /\ Len(data) \in Nat
      /\ n + 1 <= Len(data)
  BY <1>1 DEF Processed, Text
<1>3. (q + 1) * BlockSize = first + BlockSize /\ (q + 2) * BlockSize = first + BlockSize + BlockSize
  BY <1>1
<1>4. context.message_block = block /\ context.hash_state = BlocksOf(data, q)
      /\ context.total_bits_processed = 8 * n
  BY DEF Processed
<1> HIDE DEF first
<1>5. Append(block, data[n + 1]) = longer /\ Len(longer) = n + 1 - first
  <2>1. block \in Seq(Nat) /\ Len(block) = n - first /\ data[n + 1] \in Nat
    BY <1>2 DEF Text
  <2>2. longer \in Seq(Nat) /\ Len(longer) = n + 1 - first
    BY <1>2 DEF Text
  <2>3. Append(block, data[n + 1]) \in Seq(Nat)
        /\ Len(Append(block, data[n + 1])) = n - first + 1
    BY <2>1
  <2>4. ASSUME NEW i \in 1 .. Len(longer) PROVE Append(block, data[n + 1])[i] = longer[i]
    <3>1. longer[i] = data[first + i]
      <4>1. i \in Nat /\ 1 <= i /\ i <= n + 1 - first
        BY <1>2, <2>2
      <4>2. first + 1 \in Nat /\ n + 1 \in Nat /\ i \in 1 .. (n + 1) - (first + 1) + 1
            /\ (first + 1) + i - 1 = first + i
        BY <1>2, <4>1
      <4>3. SubSeq(data, first + 1, n + 1)[i] = data[(first + 1) + i - 1]
        BY <4>2
      <4> QED  BY <4>2, <4>3
    <3>2. CASE i <= n - first
      <4>1. block[i] = data[first + i]
        BY <1>2, <2>2, <3>2 DEF Text
      <4> HIDE DEF block, longer
      <4>2. Append(block, data[n + 1])[i] = block[i]
        BY <1>2, <2>1, <2>2, <3>2
      <4> QED  BY <3>1, <4>1, <4>2
    <3>3. CASE i = n - first + 1
      <4>1. first + i = n + 1
        BY <1>2, <3>3
      <4> HIDE DEF block, longer
      <4>2. Append(block, data[n + 1])[i] = data[n + 1]
        BY <1>2, <2>1, <3>3
      <4> QED  BY <3>1, <4>1, <4>2
    <3>4. i <= n - first \/ i = n - first + 1
      <4> HIDE DEF block, longer
      <4> QED  BY <1>2, <2>2
    <3> QED  BY <3>2, <3>3, <3>4
  <2>5. Len(Append(block, data[n + 1])) = Len(longer)
    BY <1>2, <2>2, <2>3
  <2> QED  BY <2>2, <2>3, <2>4, <2>5, SameElements
<1> HIDE DEF block, longer
<1>6. CASE n + 1 - first = BlockSize
  <2>1. /\ after.hash_state = Append(BlocksOf(data, q), longer)
        /\ after.message_block = <<>>
        /\ after.total_bits_processed = 8 * n + 8
    BY <1>4, <1>5, <1>6 DEF UpdateByte, ProcessBlock, Context
  <2>2. Append(BlocksOf(data, q), longer) = BlocksOf(data, q + 1)
    <3>1. (q + 1) * BlockSize = n + 1 /\ (q + 1) * BlockSize <= Len(data)
      BY <1>2, <1>3, <1>6
    <3>2. longer = SubSeq(data, q * BlockSize + 1, (q + 1) * BlockSize)
      BY <3>1 DEF longer, first
    <3> QED  BY <3>1, <3>2, OneMoreBlock
  <2>3. SubSeq(data, (q + 1) * BlockSize + 1, n + 1) = <<>>
    <3>1. (q + 1) * BlockSize = n + 1
      BY <1>2, <1>3, <1>6
    <3>2. SubSeq(data, n + 2, n + 1) = <<>>
      BY <1>2 DEF Text
    <3>3. (q + 1) * BlockSize + 1 = n + 2
      BY <1>2, <3>1
    <3> QED  BY <3>2, <3>3
  <2>4. (q + 1) * BlockSize <= n + 1 /\ n + 1 < (q + 1 + 1) * BlockSize
    <3>1. q + 1 + 1 = q + 2
      OBVIOUS
    <3> QED  BY <1>1, <1>2, <1>3, <1>6, <3>1
  <2>5. 8 * (n + 1) = 8 * n + 8
    BY <1>2
  <2>6. Processed(after, data, n + 1, q + 1)
    <3> HIDE DEF after
    <3> QED  BY <2>1, <2>2, <2>3, <2>4, <2>5 DEF Processed
  <2> QED  BY <2>6
<1>7. CASE n + 1 - first # BlockSize
  <2>1. /\ after.hash_state = BlocksOf(data, q)
        /\ after.message_block = longer
        /\ after.total_bits_processed = 8 * n + 8
    BY <1>4, <1>5, <1>7 DEF UpdateByte, Context
  <2>2. first <= n + 1 /\ n + 1 < first + BlockSize
    BY <1>1, <1>2, <1>7
  <2>3. 8 * (n + 1) = 8 * n + 8
    BY <1>2
  <2>4. Processed(after, data, n + 1, q)
    <3> HIDE DEF after
    <3> QED  BY <1>3, <2>1, <2>2, <2>3 DEF Processed, first, longer
  <2> QED  BY <2>4
<1> QED  BY <1>6, <1>7

(* All the bytes of a text are processed.                                   *)
LEMMA AllAreProcessed ==
  ASSUME NEW data \in Text
  PROVE  \E q \in Nat : /\ Update(NewContext, data) \in Context
                       /\ Processed(Update(NewContext, data), data, Len(data), q)
<1>1. PICK context :
        /\ context[0] = NewContext
        /\ \A n \in 1 .. Len(data) : context[n] = UpdateByte(context[n - 1], data[n])
        /\ Update(NewContext, data) = context[Len(data)]
  BY UpdateSteps
<1>2. Len(data) \in Nat /\ \A i \in 1 .. Len(data) : data[i] \in Nat
  BY DEF Text
<1> DEFINE Good(n) == context[n] \in Context /\ \E q \in Nat : Processed(context[n], data, n, q)
           T == {n \in Nat : n <= Len(data) => Good(n)}
<1>3. 0 \in T
  <2>1. NewContext \in Context
    BY DEF NewContext, Context, Text
  <2>2. BlockSize \in Nat /\ BlockSize >= 8
    BY Sha1Assumption
  <2>3. 0 * BlockSize = 0 /\ (0 + 1) * BlockSize = BlockSize
    BY <2>2
  <2>4. BlocksOf(data, 0) = <<>>
    BY DEF BlocksOf
  <2>5. SubSeq(data, 0 * BlockSize + 1, 0) = <<>>
    BY <2>3 DEF Text
  <2>6. Processed(NewContext, data, 0, 0)
    BY <2>2, <2>3, <2>4, <2>5 DEF Processed, NewContext
  <2>7. Good(0)
    BY <1>1, <2>1, <2>6
  <2> HIDE DEF Good
  <2> QED  BY <2>7
<1>4. ASSUME NEW n \in Nat, n \in T PROVE n + 1 \in T
  <2> SUFFICES ASSUME n + 1 <= Len(data) PROVE Good(n + 1)
    OBVIOUS
  <2>1. Good(n)
    BY <1>2, <1>4
  <2>2. n \in 0 .. Len(data) - 1 /\ n + 1 \in 1 .. Len(data) /\ (n + 1) - 1 = n
    BY <1>2
  <2>3. context[n + 1] = UpdateByte(context[n], data[n + 1])
    BY <1>1, <2>2
  <2>4. PICK q \in Nat : Processed(context[n], data, n, q)
    BY <2>1
  <2>5. \E k \in Nat : Processed(context[n + 1], data, n + 1, k)
    BY <2>1, <2>2, <2>3, <2>4, ByteIsProcessed
  <2>6. context[n + 1] \in Context
    BY <1>2, <2>1, <2>2, <2>3, UpdateByteType
  <2> QED  BY <2>5, <2>6
<1>5. Len(data) \in T
  <2> HIDE DEF T
  <2> QED  BY <1>2, <1>3, <1>4, InductionOnNat
<1>6. Good(Len(data))
  BY <1>2, <1>5
<1> QED  BY <1>1, <1>6

LEMMA Quotient ==
  ASSUME NEW x \in Nat, NEW y \in Nat \ {0}, NEW k \in Nat,
         k * y <= x, x < (k + 1) * y
  PROVE  x \div y = k
<1> DEFINE d == x \div y
<1>1. d \in Nat /\ d * y <= x /\ x < (d + 1) * y
  OBVIOUS
<1> HIDE DEF d
<1>2. ASSUME d < k PROVE FALSE
  <2>1. (d + 1) * y <= k * y
    BY <1>1, <1>2
  <2> QED  BY <1>1, <2>1
<1>3. ASSUME k < d PROVE FALSE
  <2>1. (k + 1) * y <= d * y
    BY <1>1, <1>3
  <2> QED  BY <1>1, <2>1
<1> QED  BY <1>1, <1>2, <1>3 DEF d

(* A text, from somewhere on, and another.                                  *)
Agree(s, first, t, n) == \A j \in 1 .. n : s[first + j] = t[j]

LEMMA MiddleOf ==
  ASSUME NEW s \in Text, NEW t \in Text, NEW a \in Nat, NEW n \in Nat,
         Len(t) = n, a + n <= Len(s), \A j \in 1 .. n : s[a + j] = t[j]
  PROVE  SubSeq(s, a + 1, a + n) = t
<1> DEFINE u == SubSeq(s, a + 1, a + n)
<1>1. s \in Seq(Nat) /\ t \in Seq(Nat)
  BY DEF Text
<1>2. u \in Seq(Nat) /\ Len(u) = n
  BY <1>1
<1>3. ASSUME NEW j \in 1 .. n PROVE u[j] = s[a + j]
  BY <1>1
<1> HIDE DEF u
<1>4. u = t
  BY <1>1, <1>2, <1>3, SameElements
<1> QED  BY <1>4 DEF u

LEMMA Joined ==
  ASSUME NEW s \in Seq(Nat), NEW t \in Seq(Nat)
  PROVE  /\ s \o t \in Seq(Nat) /\ Len(s \o t) = Len(s) + Len(t)
         /\ \A i \in 1 .. Len(s) : (s \o t)[i] = s[i]
         /\ \A i \in 1 .. Len(t) : (s \o t)[Len(s) + i] = t[i]
OBVIOUS

(* A text with the padding of the standard, by its elements.                *)
Zeros(size) == [k \in 1 .. size |-> 0]

Padded(data, zeros) ==
  data \o <<128>> \o Zeros(zeros) \o uint64_to_bytes(8 * Len(data))

LEMMA LengthBytes ==
  ASSUME NEW n \in Nat
  PROVE  uint64_to_bytes(n) \in Text /\ Len(uint64_to_bytes(n)) = 8
<1>1. ASSUME NEW m \in Nat
      PROVE  int32_to_bytes(m) \in Seq(Nat) /\ Len(int32_to_bytes(m)) = 4
  <2>1. /\ (m \div 16777216) % 256 \in Nat /\ (m \div 65536) % 256 \in Nat
        /\ (m \div 256) % 256 \in Nat /\ m % 256 \in Nat
    OBVIOUS
  <2> QED  BY <2>1 DEF int32_to_bytes
<1>2. (n \div 16777216) \div 256 \in Nat
  <2>1. n \div 16777216 \in Nat
    OBVIOUS
  <2> QED  BY <2>1
<1> DEFINE high == int32_to_bytes((n \div 16777216) \div 256)
           low == int32_to_bytes(n)
<1>4. high \in Seq(Nat) /\ Len(high) = 4 /\ low \in Seq(Nat) /\ Len(low) = 4
  BY <1>1, <1>2
<1> HIDE DEF high, low
<1>5. high \o low \in Seq(Nat) /\ Len(high \o low) = 8
  <2>1. high \o low \in Seq(Nat) /\ Len(high \o low) = Len(high) + Len(low)
    BY <1>4, Joined
  <2> QED  BY <1>4, <2>1
<1> QED  BY <1>5 DEF uint64_to_bytes, Text, high, low

(* They are the digits of the length, the highest first.                    *)
LEMMA ShiftedTwice ==
  ASSUME NEW n \in Nat
  PROVE  /\ n \div 256 \in Nat
         /\ (n \div 256) \div 256 = n \div 65536
         /\ (n \div 65536) \div 256 = n \div 16777216
OBVIOUS

LEMMA DigitsAreBytes ==
  ASSUME NEW n \in Nat
  PROVE  FourDigits(n) = int32_to_bytes(n)
BY ShiftedTwice DEF FourDigits, int32_to_bytes

LEMMA LengthDigits ==
  ASSUME NEW n \in Nat
  PROVE  EightDigits(n) = uint64_to_bytes(n)
<1>1. /\ n \div 16777216 \in Nat
      /\ ((n \div 256) \div 256) \div 256 = n \div 16777216
  BY ShiftedTwice
<1> DEFINE upper == (n \div 16777216) \div 256
<1>2. upper \in Nat
  BY <1>1, ShiftedTwice
<1>3. EightDigits(n) = FourDigits(upper) \o FourDigits(n)
  BY <1>1 DEF EightDigits
<1> HIDE DEF upper
<1>4. FourDigits(upper) = int32_to_bytes(upper) /\ FourDigits(n) = int32_to_bytes(n)
  BY <1>2, DigitsAreBytes
<1>5. uint64_to_bytes(n) = int32_to_bytes(upper) \o int32_to_bytes(n)
  BY DEF uint64_to_bytes, upper
<1> QED  BY <1>3, <1>4, <1>5

HasPadding(padded, data, zeros, size) ==
  /\ Len(padded) = Len(data) + 1 + zeros + 8
  /\ \A i \in 1 .. Len(data) : padded[i] = data[i]
  /\ padded[Len(data) + 1] = 128
  /\ \A i \in 1 .. zeros : padded[Len(data) + 1 + i] = 0
  /\ \A i \in 1 .. 8 : padded[Len(data) + 1 + zeros + i] = size[i]

LEMMA PaddedElements ==
  ASSUME NEW data \in Text, NEW zeros \in Nat
  PROVE  /\ Padded(data, zeros) \in Text
         /\ HasPadding(Padded(data, zeros), data, zeros, uint64_to_bytes(8 * Len(data)))
<1> DEFINE size == uint64_to_bytes(8 * Len(data))
           z == Zeros(zeros)
           marked == data \o <<128>>
           filled == marked \o z
<1>1. data \in Seq(Nat) /\ Len(data) \in Nat /\ 8 * Len(data) \in Nat
  BY DEF Text
<1>2. size \in Seq(Nat) /\ Len(size) = 8
  BY <1>1, LengthBytes DEF Text
<1>3. z \in Seq(Nat) /\ Len(z) = zeros /\ \A i \in 1 .. zeros : z[i] = 0
  BY DEF Zeros
<1>4. /\ marked \in Seq(Nat) /\ Len(marked) = Len(data) + 1
      /\ \A i \in 1 .. Len(data) : marked[i] = data[i]
      /\ marked[Len(data) + 1] = 128
  BY <1>1
<1> HIDE DEF size, z, marked
<1>5. /\ filled \in Seq(Nat) /\ Len(filled) = Len(data) + 1 + zeros
      /\ \A i \in 1 .. Len(data) + 1 : filled[i] = marked[i]
      /\ \A i \in 1 .. zeros : filled[Len(data) + 1 + i] = z[i]
  BY <1>1, <1>3, <1>4
<1> HIDE DEF filled
<1> DEFINE all == filled \o size
<1>6. /\ all \in Seq(Nat) /\ Len(all) = Len(data) + 1 + zeros + 8
      /\ \A i \in 1 .. Len(data) + 1 + zeros : all[i] = filled[i]
      /\ \A i \in 1 .. 8 : all[Len(data) + 1 + zeros + i] = size[i]
  <2>1. Len(filled) = Len(data) + 1 + zeros /\ Len(size) = 8
    BY <1>2, <1>5
  <2>2. filled \in Seq(Nat) /\ size \in Seq(Nat)
    BY <1>2, <1>5
  <2>3. /\ all \in Seq(Nat) /\ Len(all) = Len(filled) + Len(size)
        /\ \A i \in 1 .. Len(filled) : all[i] = filled[i]
        /\ \A i \in 1 .. Len(size) : all[Len(filled) + i] = size[i]
    BY <2>2, Joined, Zenon
  <2> HIDE DEF all
  <2> QED  BY <2>1, <2>3, Zenon
<1>7. Padded(data, zeros) = all
  BY DEF Padded, filled, marked, z, size
<1> HIDE DEF all
<1>8. ASSUME NEW i \in 1 .. Len(data) PROVE all[i] = data[i]
  <2>1. i \in 1 .. Len(data) + 1 /\ i \in 1 .. Len(data) + 1 + zeros
    BY <1>1
  <2>2. all[i] = filled[i]
    BY <1>6, <2>1, Zenon
  <2>3. filled[i] = marked[i] /\ marked[i] = data[i]
    BY <1>4, <1>5, <2>1, Zenon
  <2> QED  BY <2>2, <2>3
<1>9. all[Len(data) + 1] = 128
  <2>1. Len(data) + 1 \in 1 .. Len(data) + 1 /\ Len(data) + 1 \in 1 .. Len(data) + 1 + zeros
    BY <1>1
  <2>2. all[Len(data) + 1] = filled[Len(data) + 1]
    BY <1>6, <2>1, Zenon
  <2> QED  BY <1>4, <1>5, <2>1, <2>2, Zenon
<1>10. ASSUME NEW i \in 1 .. zeros PROVE all[Len(data) + 1 + i] = 0
  <2>1. Len(data) + 1 + i \in 1 .. Len(data) + 1 + zeros
    BY <1>1
  <2> QED  BY <1>3, <1>5, <1>6, <2>1, Zenon
<1>11. all \in Text /\ HasPadding(all, data, zeros, size)
  BY <1>6, <1>8, <1>9, <1>10 DEF Text, HasPadding
<1> QED  BY <1>7, <1>11 DEF size

LEMMA SameBlocks ==
  ASSUME NEW s \in Text, NEW t \in Text, NEW q \in Nat, q * BlockSize <= Len(s),
         Len(s) <= Len(t), \A i \in 1 .. Len(s) : t[i] = s[i]
  PROVE  BlocksOf(t, q) = BlocksOf(s, q)
<1>1. BlockSize \in Nat /\ BlockSize >= 8 /\ Len(s) \in Nat /\ Len(t) \in Nat
  BY Sha1Assumption DEF Text
<1>2. ASSUME NEW b \in 1 .. q
      PROVE  SubSeq(t, (b - 1) * BlockSize + 1, b * BlockSize)
               = SubSeq(s, (b - 1) * BlockSize + 1, b * BlockSize)
  <2> DEFINE x == (b - 1) * BlockSize
             u == SubSeq(s, x + 1, x + BlockSize)
  <2>1. b * BlockSize = x + BlockSize /\ x \in Nat /\ b * BlockSize <= q * BlockSize
    BY <1>1
  <2>2. x + BlockSize <= Len(s)
    BY <1>1, <2>1
  <2> HIDE DEF x
  <2>3. u \in Text /\ Len(u) = BlockSize
    BY <1>1, <2>1, <2>2 DEF Text
  <2>4. ASSUME NEW j \in 1 .. BlockSize PROVE t[x + j] = u[j]
    <3>1. u[j] = s[x + j]
      BY <1>1, <2>1, <2>2 DEF Text
    <3>2. x + j \in 1 .. Len(s)
      BY <1>1, <2>1, <2>2
    <3> QED  BY <3>1, <3>2
  <2> HIDE DEF u
  <2>5. x + BlockSize <= Len(t)
    BY <1>1, <2>1, <2>2
  <2>6. SubSeq(t, x + 1, x + BlockSize) = u
    BY <1>1, <2>1, <2>3, <2>4, <2>5, MiddleOf
  <2>7. SubSeq(t, x + 1, b * BlockSize) = SubSeq(s, x + 1, b * BlockSize)
    BY <2>1, <2>6 DEF u
  <2> QED  BY <2>7 DEF x
<1> QED  BY <1>2 DEF BlocksOf

(* The block that is under way, with the mark.                              *)
Marked(block, data, first) ==
  /\ Len(block) = Len(data) - first + 1
  /\ \A j \in 1 .. Len(data) - first : block[j] = data[first + j]
  /\ block[Len(data) - first + 1] = 128

LEMMA MarkedElements ==
  ASSUME NEW data \in Text, NEW first \in Nat, first <= Len(data), NEW block,
         block = Append(SubSeq(data, first + 1, Len(data)), 128)
  PROVE  block \in Seq(Nat) /\ Marked(block, data, first)
<1> DEFINE u == SubSeq(data, first + 1, Len(data))
<1>1. data \in Seq(Nat) /\ Len(data) \in Nat
  BY DEF Text
<1>2. u \in Seq(Nat) /\ Len(u) = Len(data) - first
  BY <1>1
<1>3. ASSUME NEW j \in 1 .. Len(data) - first PROVE u[j] = data[first + j]
  BY <1>1
<1>4. block = Append(u, 128)
  OBVIOUS
<1> HIDE DEF u
<1>5. block \in Seq(Nat) /\ Len(block) = Len(data) - first + 1
  BY <1>1, <1>2, <1>4
<1>6. block[Len(data) - first + 1] = 128
  BY <1>1, <1>2, <1>4
<1>7. ASSUME NEW j \in 1 .. Len(data) - first PROVE block[j] = data[first + j]
  <2>1. j \in 1 .. Len(u)
    BY <1>2
  <2>2. block[j] = u[j]
    BY <1>2, <1>4, <2>1
  <2> QED  BY <1>3, <2>2
<1> QED  BY <1>5, <1>6, <1>7 DEF Marked

Filled(filled, block, size) ==
  /\ Len(filled) = size
  /\ \A j \in 1 .. Len(block) : filled[j] = block[j]
  /\ \A j \in 1 .. size - Len(block) : filled[Len(block) + j] = 0

LEMMA FilledElements ==
  ASSUME NEW block \in Seq(Nat), NEW size \in Nat, Len(block) <= size
  PROVE  /\ FillWithZeros(block, size) \in Seq(Nat)
         /\ Filled(FillWithZeros(block, size), block, size)
<1> DEFINE z == Zeros(size - Len(block))
<1>1. Len(block) \in Nat /\ size - Len(block) \in Nat
  OBVIOUS
<1>2. z \in Seq(Nat) /\ Len(z) = size - Len(block) /\ \A j \in 1 .. size - Len(block) : z[j] = 0
  BY <1>1 DEF Zeros
<1>3. FillWithZeros(block, size) = block \o z
  BY DEF FillWithZeros, Zeros
<1> HIDE DEF z
<1>4. /\ block \o z \in Seq(Nat) /\ Len(block \o z) = Len(block) + Len(z)
      /\ \A i \in 1 .. Len(block) : (block \o z)[i] = block[i]
      /\ \A i \in 1 .. Len(z) : (block \o z)[Len(block) + i] = z[i]
  BY <1>2, Joined
<1>5. Len(block \o z) = size
  BY <1>1, <1>2, <1>4
<1>6. \A j \in 1 .. size - Len(block) : (block \o z)[Len(block) + j] = 0
  BY <1>2, <1>4
<1> DEFINE filled == block \o z
<1> HIDE DEF filled
<1>7. Filled(filled, block, size)
  BY <1>4, <1>5, <1>6 DEF filled, Filled
<1> QED  BY <1>3, <1>4, <1>7 DEF filled

LEMMA BlockIs ==
  ASSUME NEW padded \in Text, NEW q \in Nat, (q + 1) * BlockSize <= Len(padded),
         NEW block \in Text, Len(block) = BlockSize,
         Agree(padded, q * BlockSize, block, BlockSize)
  PROVE  BlocksOf(padded, q + 1) = Append(BlocksOf(padded, q), block)
<1>1. BlockSize \in Nat
  BY Sha1Assumption
<1> DEFINE first == q * BlockSize
<1>2. first \in Nat /\ (q + 1) * BlockSize = first + BlockSize
  BY <1>1
<1>3. \A j \in 1 .. BlockSize : padded[first + j] = block[j]
  BY DEF Agree
<1> HIDE DEF first
<1>4. SubSeq(padded, first + 1, first + BlockSize) = block
  BY <1>1, <1>2, <1>3, MiddleOf
<1>5. block = SubSeq(padded, q * BlockSize + 1, (q + 1) * BlockSize)
  BY <1>2, <1>4 DEF first
<1> QED  BY <1>5, OneMoreBlock

(* The length ends the last block, of which zeros may be the rest.          *)
LEMMA LastBlock ==
  ASSUME NEW data \in Text, NEW zeros \in Nat, NEW first \in Nat, NEW filled \in Seq(Nat),
         Len(filled) = BytesInHashContextBlock,
         first + BytesInHashContextBlock = Len(data) + 1 + zeros,
         Agree(Padded(data, zeros), first, filled, BytesInHashContextBlock),
         NEW block, block = filled \o uint64_to_bytes(8 * Len(data))
  PROVE  /\ block \in Text /\ Len(block) = BlockSize
         /\ Agree(Padded(data, zeros), first, block, BlockSize)
<1> DEFINE size == uint64_to_bytes(8 * Len(data))
           C == BytesInHashContextBlock
<1>1. C \in Nat /\ BlockSize = C + 8 /\ Len(data) \in Nat /\ 8 * Len(data) \in Nat
  BY Sha1Assumption DEF Text
<1>2. size \in Seq(Nat) /\ Len(size) = 8
  BY <1>1, LengthBytes DEF Text
<1>3. \A i \in 1 .. 8 : Padded(data, zeros)[Len(data) + 1 + zeros + i] = size[i]
  <2>1. HasPadding(Padded(data, zeros), data, zeros, size)
    BY PaddedElements DEF size
  <2> QED  BY <2>1 DEF HasPadding
<1>0. block = filled \o size
  OBVIOUS
<1> HIDE DEF size, C
<1>4. /\ block \in Seq(Nat) /\ Len(block) = Len(filled) + Len(size)
      /\ \A i \in 1 .. Len(filled) : block[i] = filled[i]
      /\ \A i \in 1 .. Len(size) : block[Len(filled) + i] = size[i]
  <2> DEFINE both == filled \o size
  <2>1. /\ both \in Seq(Nat) /\ Len(both) = Len(filled) + Len(size)
        /\ \A i \in 1 .. Len(filled) : both[i] = filled[i]
        /\ \A i \in 1 .. Len(size) : both[Len(filled) + i] = size[i]
    BY <1>2, Joined, Zenon
  <2> QED  BY <1>0, <2>1, Zenon
<1>5. Len(filled) = C /\ first + C = Len(data) + 1 + zeros
      /\ \A j \in 1 .. C : Padded(data, zeros)[first + j] = filled[j]
  BY DEF C, Agree
<1>6. ASSUME NEW j \in 1 .. BlockSize PROVE Padded(data, zeros)[first + j] = block[j]
  <2>1. CASE j \in 1 .. C
    BY <1>4, <1>5, <2>1
  <2>2. CASE j \notin 1 .. C
    <3>1. j - C \in 1 .. 8 /\ j = C + (j - C)
      BY <1>1, <2>2
    <3>2. first + j = Len(data) + 1 + zeros + (j - C)
      <4> DEFINE k == j - C
                 m == Len(data)
      <4>1. k \in 1 .. 8 /\ j = C + k /\ m \in Nat /\ first + C = m + 1 + zeros
        BY <1>1, <1>5, <3>1
      <4> HIDE DEF k, m
      <4>2. first + j = m + 1 + zeros + k
        BY <1>1, <4>1
      <4> QED  BY <4>2 DEF k, m
    <3>3. block[j] = size[j - C]
      BY <1>2, <1>4, <1>5, <3>1
    <3> QED  BY <1>3, <3>1, <3>2, <3>3
  <2> QED  BY <2>1, <2>2
<1>7. block \in Text /\ Len(block) = BlockSize
  BY <1>1, <1>2, <1>4, <1>5 DEF Text
<1>8. Agree(Padded(data, zeros), first, block, BlockSize)
  BY <1>6 DEF Agree
<1> QED  BY <1>7, <1>8

(* Zeros follow the mark.                                                   *)
LEMMA FilledIsPadded ==
  ASSUME NEW data \in Text, NEW zeros \in Nat, NEW first \in Nat, first <= Len(data),
         NEW block \in Seq(Nat), Marked(block, data, first), NEW size \in Nat,
         Len(block) <= size, size <= Len(block) + zeros
  PROVE  Agree(Padded(data, zeros), first, FillWithZeros(block, size), size)
<1> SUFFICES ASSUME NEW j \in 1 .. size
             PROVE  Padded(data, zeros)[first + j] = FillWithZeros(block, size)[j]
  BY DEF Agree
<1> DEFINE padded == Padded(data, zeros)
           filled == FillWithZeros(block, size)
           bytes == uint64_to_bytes(8 * Len(data))
<1>1. HasPadding(padded, data, zeros, bytes)
  BY PaddedElements
<1>2. /\ filled \in Seq(Nat) /\ Len(filled) = size
      /\ \A i \in 1 .. Len(block) : filled[i] = block[i]
      /\ \A i \in 1 .. size - Len(block) : filled[Len(block) + i] = 0
  <2>1. filled \in Seq(Nat) /\ Filled(filled, block, size)
    BY FilledElements
  <2> HIDE DEF filled
  <2> QED  BY <2>1, Zenon DEF Filled
<1> HIDE DEF padded, filled, bytes
<1>3. /\ \A i \in 1 .. Len(data) : padded[i] = data[i]
      /\ padded[Len(data) + 1] = 128
      /\ \A i \in 1 .. zeros : padded[Len(data) + 1 + i] = 0
  BY <1>1 DEF HasPadding
<1>4. /\ Len(block) = Len(data) - first + 1 /\ Len(data) \in Nat
      /\ \A i \in 1 .. Len(data) - first : block[i] = data[first + i]
      /\ block[Len(data) - first + 1] = 128
  BY DEF Marked, Text
<1>5. CASE j \in 1 .. Len(data) - first
  <2>1. first + j \in 1 .. Len(data) /\ j \in 1 .. Len(block)
    BY <1>4, <1>5
  <2>2. padded[first + j] = filled[j]
    BY <1>2, <1>3, <1>4, <1>5, <2>1
  <2> QED  BY <2>2 DEF padded, filled
<1>6. CASE j = Len(data) - first + 1
  <2>1. first + j = Len(data) + 1 /\ j \in 1 .. Len(block)
    BY <1>4, <1>6
  <2>2. padded[first + j] = filled[j]
    BY <1>2, <1>3, <1>4, <1>6, <2>1
  <2> QED  BY <2>2 DEF padded, filled
<1>7. CASE j > Len(data) - first + 1
  <2>1. /\ j - Len(block) \in 1 .. zeros /\ j - Len(block) \in 1 .. size - Len(block)
        /\ first + j = Len(data) + 1 + (j - Len(block))
        /\ j = Len(block) + (j - Len(block))
    BY <1>4, <1>7
  <2> DEFINE k == j - Len(block)
  <2>2. padded[Len(data) + 1 + k] = 0 /\ filled[Len(block) + k] = 0
    <3>1. k \in 1 .. zeros /\ k \in 1 .. size - Len(block)
      BY <2>1
    <3> HIDE DEF k
    <3> QED  BY <1>2, <1>3, <3>1, Zenon
  <2>3. first + j = Len(data) + 1 + k /\ j = Len(block) + k
    BY <2>1
  <2> HIDE DEF k
  <2>4. padded[first + j] = filled[j]
    BY <2>2, <2>3, Zenon
  <2> QED  BY <2>4 DEF padded, filled
<1>8. j \in 1 .. Len(data) - first \/ j = Len(data) - first + 1 \/ j > Len(data) - first + 1
  BY <1>4
<1> QED  BY <1>5, <1>6, <1>7, <1>8

LEMMA StandardBlocksAre ==
  ASSUME NEW data \in Text, NEW zeros \in Nat, NEW blocks \in Nat,
         blocks * BlockSize = Len(data) + zeros + 9, zeros < BlockSize
  PROVE  StandardBlocks(data) = BlocksOf(Padded(data, zeros), blocks)
<1> DEFINE x == Len(data) + 9 + BlockSize - 1
           count == x \div BlockSize
<1>1. BlockSize \in Nat /\ BlockSize >= 8 /\ Len(data) \in Nat
  BY Sha1Assumption DEF Text
<1>2. (blocks + 1) * BlockSize = blocks * BlockSize + BlockSize
  BY <1>1
<1>3. x \in Nat /\ blocks * BlockSize <= x /\ x < (blocks + 1) * BlockSize
  BY <1>1, <1>2
<1> HIDE DEF x
<1>4. count = blocks
  BY <1>1, <1>3, Quotient
<1>5. blocks * BlockSize - Len(data) - 9 = zeros
  BY <1>1
<1> HIDE DEF count
<1>6. count * BlockSize - Len(data) - 9 = zeros
  BY <1>4, <1>5
<1>7. EightDigits(8 * Len(data)) = uint64_to_bytes(8 * Len(data))
  <2>1. 8 * Len(data) \in Nat
    BY <1>1
  <2> QED  BY <2>1, LengthDigits
<1>8. StandardBlocks(data) = BlocksOf(Padded(data, zeros), count)
  BY <1>6, <1>7 DEF StandardBlocks, BlocksOf, Padded, Zeros, count, x
<1> QED  BY <1>4, <1>8

LEMMA SameFirstBlocks ==
  ASSUME NEW data \in Text, NEW zeros \in Nat, NEW q \in Nat, q * BlockSize <= Len(data)
  PROVE  BlocksOf(Padded(data, zeros), q) = BlocksOf(data, q)
<1> DEFINE padded == Padded(data, zeros)
           bytes == uint64_to_bytes(8 * Len(data))
<1>1. padded \in Text /\ HasPadding(padded, data, zeros, bytes)
  BY PaddedElements
<1> HIDE DEF padded, bytes
<1>2. Len(padded) = Len(data) + 1 + zeros + 8 /\ \A i \in 1 .. Len(data) : padded[i] = data[i]
  BY <1>1 DEF HasPadding
<1>3. Len(data) \in Nat
  BY DEF Text
<1>4. Len(data) <= Len(padded)
  BY <1>2, <1>3
<1> QED  BY <1>1, <1>2, <1>4, SameBlocks DEF padded

LEMMA NextBlockIs ==
  ASSUME NEW data \in Text, NEW zeros \in Nat, NEW q \in Nat,
         (q + 1) * BlockSize <= Len(data) + zeros + 9,
         NEW block \in Text, Len(block) = BlockSize, NEW first, first = q * BlockSize,
         Agree(Padded(data, zeros), first, block, BlockSize)
  PROVE  BlocksOf(Padded(data, zeros), q + 1) = Append(BlocksOf(Padded(data, zeros), q), block)
<1> DEFINE padded == Padded(data, zeros)
           bytes == uint64_to_bytes(8 * Len(data))
<1>1. padded \in Text /\ HasPadding(padded, data, zeros, bytes)
  BY PaddedElements
<1>2. Agree(padded, q * BlockSize, block, BlockSize)
  OBVIOUS
<1> HIDE DEF padded, bytes
<1>3. Len(padded) = Len(data) + 1 + zeros + 8
  BY <1>1 DEF HasPadding
<1>4. Len(data) \in Nat
  BY DEF Text
<1>5. Len(padded) = Len(data) + zeros + 9
  BY <1>3, <1>4
<1>6. BlocksOf(padded, q + 1) = Append(BlocksOf(padded, q), block)
  BY <1>1, <1>2, <1>5, BlockIs
<1> QED  BY <1>6 DEF padded

(* The length has room behind the mark.                                     *)
LEMMA PaddingInTheBlock ==
  ASSUME NEW data \in Text, NEW q \in Nat, NEW context \in Context,
         Processed(context, data, Len(data), q),
         ~NoRoom(Append(context.message_block, 128))
  PROVE  ApplyPadding(context).hash_state = StandardBlocks(data)
<1> DEFINE first == q * BlockSize
           C == BytesInHashContextBlock
           zeros == first + C - (Len(data) + 1)
           marked == Append(context.message_block, 128)
           filled == FillWithZeros(marked, C)
           block == filled \o uint64_to_bytes(8 * Len(data))
           padded == Padded(data, zeros)
<1> HIDE DEF zeros, marked, filled, block, padded
<1>1. C \in Nat /\ BlockSize = C + 8 /\ Len(data) \in Nat
  BY Sha1Assumption DEF Text
<1>2. first \in Nat /\ (q + 1) * BlockSize = first + BlockSize
  BY <1>1
<1>3. first <= Len(data) /\ Len(data) < first + BlockSize
  BY <1>2 DEF Processed
<1>4. /\ context.hash_state = BlocksOf(data, q)
      /\ context.message_block = SubSeq(data, first + 1, Len(data))
      /\ context.total_bits_processed = 8 * Len(data)
  BY DEF Processed
<1> HIDE DEF first
<1>5. marked \in Seq(Nat) /\ Marked(marked, data, first)
  <2>1. marked = Append(SubSeq(data, first + 1, Len(data)), 128)
    BY <1>4 DEF marked
  <2> QED  BY <1>2, <1>3, <2>1, MarkedElements
<1>6. Len(marked) <= C /\ Len(marked) = Len(data) - first + 1
  BY <1>1, <1>5 DEF NoRoom, marked, Marked
<1>7. zeros \in Nat /\ first + C = Len(data) + 1 + zeros /\ C <= Len(marked) + zeros
  BY <1>1, <1>2, <1>3, <1>6 DEF zeros
<1>8. filled \in Seq(Nat) /\ Len(filled) = C
  <2>1. filled \in Seq(Nat) /\ Filled(filled, marked, C)
    BY <1>1, <1>5, <1>6, FilledElements DEF filled
  <2> QED  BY <2>1 DEF Filled
<1>9. Agree(padded, first, filled, C)
  BY <1>1, <1>2, <1>3, <1>5, <1>6, <1>7, FilledIsPadded DEF padded, filled
<1>10. /\ block \in Text /\ Len(block) = BlockSize
       /\ Agree(padded, first, block, BlockSize)
  <2>1. block = filled \o uint64_to_bytes(8 * Len(data))
    BY DEF block
  <2> QED  BY <1>2, <1>7, <1>8, <1>9, <2>1, LastBlock, Zenon DEF padded
<1>11. (q + 1) * BlockSize = Len(data) + zeros + 9 /\ zeros < BlockSize
  BY <1>1, <1>2, <1>3, <1>6, <1>7
<1>12. BlocksOf(padded, q + 1) = Append(BlocksOf(padded, q), block)
  <2>1. (q + 1) * BlockSize <= Len(data) + zeros + 9
    BY <1>1, <1>2, <1>7, <1>11
  <2> QED  BY <1>7, <1>10, <2>1, NextBlockIs DEF padded, first
<1>13. BlocksOf(padded, q) = BlocksOf(data, q)
  BY <1>3, <1>7, SameFirstBlocks DEF padded, first
<1>14. StandardBlocks(data) = BlocksOf(padded, q + 1)
  BY <1>7, <1>11, StandardBlocksAre DEF padded
<1>15. ApplyPadding(context).hash_state = Append(context.hash_state, block)
  <2> DEFINE open == [context EXCEPT !.message_block = marked]
  <2>1. /\ open.message_block = marked /\ open.hash_state = context.hash_state
        /\ open.total_bits_processed = context.total_bits_processed
    BY DEF Context
  <2>2. ApplyPadding(context) =
          ProcessBlock(open, FillWithZeros(open.message_block, C)
                               \o uint64_to_bytes(context.total_bits_processed))
    BY DEF ApplyPadding, marked
  <2>3. ApplyPadding(context) = ProcessBlock(open, block)
    BY <1>4, <2>1, <2>2 DEF block, filled
  <2>4. open \in [message_block : Seq(Nat), hash_state : Seq(Text), total_bits_processed : Nat]
    BY <1>5 DEF Context
  <2> HIDE DEF open
  <2> QED  BY <2>1, <2>3, <2>4 DEF ProcessBlock
<1> QED  BY <1>4, <1>12, <1>13, <1>14, <1>15

(* The mark's block is full, and the length is in a block of its own.       *)
LEMMA PaddingInTwoBlocks ==
  ASSUME NEW data \in Text, NEW q \in Nat, NEW context \in Context,
         Processed(context, data, Len(data), q),
         NoRoom(Append(context.message_block, 128))
  PROVE  ApplyPadding(context).hash_state = StandardBlocks(data)
<1> DEFINE first == q * BlockSize
           second == first + BlockSize
           C == BytesInHashContextBlock
           zeros == second + C - (Len(data) + 1)
           marked == Append(context.message_block, 128)
           full == FillWithZeros(marked, BlockSize)
           filled == FillWithZeros(<<>>, C)
           block == filled \o uint64_to_bytes(8 * Len(data))
           padded == Padded(data, zeros)
<1> HIDE DEF zeros, marked, full, filled, block, padded
<1>1. C \in Nat /\ BlockSize = C + 8 /\ Len(data) \in Nat
  BY Sha1Assumption DEF Text
<1>2. /\ first \in Nat /\ second \in Nat /\ (q + 1) * BlockSize = second
      /\ (q + 1 + 1) * BlockSize = second + BlockSize
  BY <1>1
<1>3. first <= Len(data) /\ Len(data) < second
  BY <1>2 DEF Processed
<1>4. /\ context.hash_state = BlocksOf(data, q)
      /\ context.message_block = SubSeq(data, first + 1, Len(data))
      /\ context.total_bits_processed = 8 * Len(data)
  BY DEF Processed
<1>5. second = first + BlockSize
  OBVIOUS
<1> HIDE DEF first, second
<1>6. marked \in Seq(Nat) /\ Marked(marked, data, first)
  <2>1. marked = Append(SubSeq(data, first + 1, Len(data)), 128)
    BY <1>4 DEF marked
  <2> QED  BY <1>2, <1>3, <2>1, MarkedElements
<1>7. Len(marked) > C /\ Len(marked) = Len(data) - first + 1
  BY <1>1, <1>6 DEF NoRoom, marked, Marked
<1>8. /\ zeros \in Nat /\ second + C = Len(data) + 1 + zeros
      /\ Len(marked) <= BlockSize /\ BlockSize <= Len(marked) + zeros
  BY <1>1, <1>2, <1>3, <1>5, <1>7 DEF zeros
<1>9. full \in Text /\ Len(full) = BlockSize
  <2>1. full \in Seq(Nat) /\ Filled(full, marked, BlockSize)
    BY <1>1, <1>6, <1>8, FilledElements DEF full
  <2> QED  BY <2>1 DEF Filled, Text
<1>10. Agree(padded, first, full, BlockSize)
  BY <1>1, <1>2, <1>3, <1>6, <1>8, FilledIsPadded DEF padded, full
<1>11. /\ filled \in Seq(Nat) /\ Len(filled) = C /\ \A j \in 1 .. C : filled[j] = 0
  <2>1. <<>> \in Seq(Nat) /\ Len(<<>>) = 0
    OBVIOUS
  <2> DEFINE none == <<>>
  <2> HIDE DEF none
  <2>2. filled \in Seq(Nat) /\ Filled(filled, <<>>, C)
    <3>1. none \in Seq(Nat) /\ Len(none) <= C
      BY <1>1, <2>1 DEF none
    <3>2. FillWithZeros(none, C) \in Seq(Nat) /\ Filled(FillWithZeros(none, C), none, C)
      BY <1>1, <3>1, FilledElements
    <3> QED  BY <3>2 DEF none, filled
  <2>3. C - Len(<<>>) = C /\ \A j \in 1 .. C : Len(<<>>) + j = j
    BY <1>1, <2>1
  <2> QED  BY <2>2, <2>3 DEF Filled
<1>12. ASSUME NEW j \in 1 .. C PROVE padded[second + j] = filled[j]
  <2>1. HasPadding(padded, data, zeros, uint64_to_bytes(8 * Len(data)))
    BY <1>8, PaddedElements DEF padded
  <2>2. \A i \in 1 .. zeros : padded[Len(data) + 1 + i] = 0
    BY <2>1, Zenon DEF HasPadding
  <2>3. /\ second + j - (Len(data) + 1) \in 1 .. zeros
        /\ second + j = Len(data) + 1 + (second + j - (Len(data) + 1))
    BY <1>1, <1>2, <1>3, <1>8
  <2> QED  BY <1>11, <2>2, <2>3
<1>13. /\ block \in Text /\ Len(block) = BlockSize
       /\ Agree(padded, second, block, BlockSize)
  <2>1. Agree(padded, second, filled, C)
    BY <1>12 DEF Agree
  <2>2. block = filled \o uint64_to_bytes(8 * Len(data))
    BY DEF block
  <2> QED  BY <1>2, <1>8, <1>11, <2>1, <2>2, LastBlock, Zenon DEF padded
<1>14. (q + 1 + 1) * BlockSize = Len(data) + zeros + 9 /\ zeros < BlockSize
       /\ (q + 1) * BlockSize <= Len(data) + zeros + 9
  BY <1>1, <1>2, <1>3, <1>5, <1>7, <1>8
<1>15. BlocksOf(padded, q + 1) = Append(BlocksOf(padded, q), full)
  BY <1>8, <1>9, <1>10, <1>14, NextBlockIs DEF padded, first
<1>16. BlocksOf(padded, q + 1 + 1) = Append(BlocksOf(padded, q + 1), block)
  <2>1. (q + 1 + 1) * BlockSize <= Len(data) + zeros + 9
    BY <1>1, <1>2, <1>8, <1>14
  <2>2. q + 1 \in Nat
    OBVIOUS
  <2> QED  BY <1>2, <1>8, <1>13, <2>1, <2>2, NextBlockIs DEF padded
<1>17. BlocksOf(padded, q) = BlocksOf(data, q)
  BY <1>3, <1>8, SameFirstBlocks DEF padded, first
<1>18. StandardBlocks(data) = BlocksOf(padded, q + 1 + 1)
  <2>1. q + 1 + 1 \in Nat
    OBVIOUS
  <2> QED  BY <1>8, <1>14, <2>1, StandardBlocksAre DEF padded
<1>19. ApplyPadding(context).hash_state = Append(Append(context.hash_state, full), block)
  <2> DEFINE open == ProcessBlock(context, full)
  <2>1. /\ open.message_block = <<>>
        /\ open.hash_state = Append(context.hash_state, full)
        /\ open.total_bits_processed = context.total_bits_processed
    BY DEF Context, ProcessBlock
  <2>2. ApplyPadding(context) =
          ProcessBlock(open, FillWithZeros(open.message_block, C)
                               \o uint64_to_bytes(context.total_bits_processed))
    BY DEF ApplyPadding, marked, full
  <2>3. ApplyPadding(context) = ProcessBlock(open, block)
    BY <1>4, <2>1, <2>2 DEF block, filled
  <2>4. open \in Context
    BY <1>9, ProcessBlockType
  <2> HIDE DEF open
  <2>5. ProcessBlock(open, block).hash_state = Append(open.hash_state, block)
    BY <2>4 DEF ProcessBlock, Context
  <2> QED  BY <2>1, <2>3, <2>5
<1> QED  BY <1>4, <1>15, <1>16, <1>17, <1>18, <1>19

(* The hash of any text is the one the standard says: what is hashed are    *)
(* the text, the mark, zeros and the length, wherever in its last block the *)
(* text ends (Sha1.cpp Update, ApplyPadding).                               *)
THEOREM PaddingIsTheStandards ==
  ASSUME NEW data \in Text
  PROVE  Compute(data) = StandardHash(data)
<1> DEFINE context == Update(NewContext, data)
<1>1. PICK q \in Nat : context \in Context /\ Processed(context, data, Len(data), q)
  BY AllAreProcessed
<1> HIDE DEF context
<1>2. ApplyPadding(context).hash_state = StandardBlocks(data)
  BY <1>1, PaddingInTheBlock, PaddingInTwoBlocks
<1> QED  BY <1>2 DEF Compute, Final, StandardHash, context

-----------------------------------------------------------------------------
(* Concatenations, by what is left of them after so many parts.             *)
LEMMA TextIs == Text = Strings(Nat)
BY DEF Text, Strings

RemaindersOf(S, rest, parts) ==
  /\ rest \in [0 .. Size(parts) -> Strings(S)]
  /\ rest[0] = FlattenSeq(parts)
  /\ rest[Size(parts)] = None
  /\ \A k \in 1 .. Size(parts) : rest[k - 1] = Cat(parts[k], rest[k])

LEMMA FlattenStepsOf ==
  ASSUME NEW S, NEW parts \in Strings(Strings(S)), Size(parts) # 0
  PROVE  \E f \in [1 .. Size(parts) -> Strings(S)] :
           /\ f[1] = parts[1]
           /\ \A k \in 2 .. Size(parts) : f[k] = Cat(f[k - 1], parts[k])
           /\ FlattenSeq(parts) = f[Size(parts)]
<1> DEFINE n == Size(parts)
           D == 1 .. n
           size == [k \in D |-> k]
           Body(f, k) == IF k = 1 THEN parts[k] ELSE Cat(f[k - 1], parts[k])
           body == [p \in [D -> Strings(S)] \X D |-> Body(p[1], p[2])]
           B(f) == [k \in D |-> Body(f, k)]
           C(f) == [i \in 1 .. Len(parts) |-> IF i = 1 THEN parts[i] ELSE f[i - 1] \o parts[i]]
<1>1. n \in Nat /\ n = Len(parts) /\ n # 0
  BY SizeIsNat DEF Size
<1>2. \A k \in D : parts[k] \in Strings(S)
  BY <1>1, ElementType
<1> HIDE DEF n
<1>3. ASSUME NEW f \in [D -> Strings(S)], NEW k \in D PROVE Body(f, k) \in Strings(S)
  <2>1. k # 1 => k - 1 \in D
    BY <1>1
  <2> HIDE DEF D
  <2>2. k # 1 => Cat(f[k - 1], parts[k]) \in Strings(S)
    BY <1>2, <2>1, CatType
  <2> QED  BY <1>2, <2>2
<1>4. Recursion(D, Strings(S), size, body)
  <2>1. size \in [D -> Nat]
    OBVIOUS
  <2>2. body \in [[D -> Strings(S)] \X D -> Strings(S)]
    <3> HIDE DEF D, Body
    <3> QED  BY <1>3
  <2>3. Strings(S) # {}
    BY NoneType
  <2>4. ASSUME NEW f \in [D -> Strings(S)], NEW g \in [D -> Strings(S)], NEW k \in D,
               \A e \in D : size[e] < size[k] => f[e] = g[e]
        PROVE  body[<<f, k>>] = body[<<g, k>>]
    <3>1. k # 1 => k - 1 \in D /\ k - 1 < k
      BY <1>1
    <3>2. k # 1 => f[k - 1] = g[k - 1]
      BY <2>4, <3>1
    <3>3. Body(f, k) = Body(g, k)
      BY <3>2
    <3> HIDE DEF D, Body
    <3> QED  BY <3>3
  <2> HIDE DEF D, size, body
  <2> QED  BY <2>1, <2>2, <2>3, <2>4 DEF Recursion, CallsSmaller
<1>5. PICK f \in [D -> Strings(S)] : \A k \in D : f[k] = body[<<f, k>>]
  <2> HIDE DEF D, size, body
  <2> QED  BY <1>4, RecursionByMeasure
<1>6. \A k \in D : f[k] = Body(f, k)
  <2> HIDE DEF Body, D
  <2> QED  BY <1>5
<1>7. f = C(f)
  <2>1. \A g : C(g) = B(g)
    BY <1>1, Zenon DEF Cat
  <2>2. f = B(f)
    <3> HIDE DEF Body, D
    <3> QED  BY <1>6
  <2> HIDE DEF B, C
  <2> QED  BY <2>1, <2>2, Zenon
<1> DEFINE flatten == CHOOSE g : g = C(g)
<1>8. flatten = C(flatten)
  <2> HIDE DEF C
  <2> QED  BY <1>7, Zenon
<1>9. FlattenSeq(parts) = flatten[Len(parts)]
  BY <1>1, Zenon DEF FlattenSeq
<1> HIDE DEF flatten
<1>10. \A k \in D : flatten[k] = Body(flatten, k)
  <2>1. \A k \in D : C(flatten)[k] = Body(flatten, k)
    BY <1>1, Zenon DEF Cat
  <2> HIDE DEF C, D, Body
  <2> QED  BY <1>8, <2>1, Zenon
<1>11. flatten = [k \in D |-> flatten[k]]
  <2>1. D = 1 .. Len(parts)
    BY <1>1
  <2> QED  BY <1>8, <2>1, Zenon
<1>12. \A k \in D : flatten[k] \in Strings(S)
  <2> DEFINE T == {k \in Nat : k \in D => flatten[k] \in Strings(S)}
  <2>1. 0 \in T
    OBVIOUS
  <2>2. ASSUME NEW k \in Nat, k \in T PROVE k + 1 \in T
    <3> SUFFICES ASSUME k + 1 \in D PROVE flatten[k + 1] \in Strings(S)
      OBVIOUS
    <3>1. CASE k = 0
      <4>1. k + 1 = 1
        BY <3>1
      <4> QED  BY <1>2, <1>10, <4>1
    <3>2. CASE k # 0
      <4>1. k \in D /\ k + 1 # 1 /\ (k + 1) - 1 = k
        BY <1>1, <3>2
      <4>2. flatten[k] \in Strings(S) /\ parts[k + 1] \in Strings(S)
        BY <1>2, <2>2, <4>1
      <4>3. flatten[k + 1] = Cat(flatten[k], parts[k + 1])
        BY <1>10, <4>1
      <4> QED  BY <4>2, <4>3, CatType
    <3> QED  BY <3>1, <3>2
  <2> HIDE DEF T
  <2>3. Nat \subseteq T
    BY <2>1, <2>2, InductionOnNat
  <2> QED  BY <2>3, <1>1 DEF T
<1>13. flatten \in [D -> Strings(S)]
  BY <1>11, <1>12
<1>14. 1 \in D /\ flatten[1] = parts[1]
  BY <1>1, <1>10
<1>15. ASSUME NEW k \in 2 .. n PROVE flatten[k] = Cat(flatten[k - 1], parts[k])
  <2>1. k \in D /\ k # 1
    BY <1>1
  <2> QED  BY <1>10, <2>1
<1> QED  BY <1>1, <1>9, <1>13, <1>14, <1>15 DEF n

LEMMA FlattenPartsOf ==
  ASSUME NEW S, NEW parts \in Strings(Strings(S))
  PROVE  \E rest : RemaindersOf(S, rest, parts)
<1> DEFINE n == Size(parts)
<1>1. n \in Nat /\ n = Len(parts)
  BY SizeIsNat DEF Size
<1>2. CASE n = 0
  <2>1. parts = None
    BY <1>2, NoneSize
  <2>2. FlattenSeq(parts) = None
    BY <1>1, <1>2, <2>1 DEF FlattenSeq
  <2>3. None \in Strings(S)
    BY NoneType
  <2>4. RemaindersOf(S, [k \in 0 .. 0 |-> None], parts)
    BY <1>2, <2>2, <2>3 DEF RemaindersOf
  <2> QED  BY <2>4
<1>3. CASE n # 0
  <2>1. PICK f \in [1 .. n -> Strings(S)] :
          /\ f[1] = parts[1]
          /\ \A k \in 2 .. n : f[k] = Cat(f[k - 1], parts[k])
          /\ FlattenSeq(parts) = f[n]
    BY <1>3, FlattenStepsOf
  <2>2. \A k \in 1 .. n : parts[k] \in Strings(S)
    BY <1>1, ElementType
  <2> HIDE DEF n
  (* Going backwards, what is behind all parts but the last m.              *)
  <2> DEFINE Built(g, m) ==
               /\ g \in [n - m .. n -> Strings(S)] /\ g[n] = None
               /\ f[n] = Cat(f[n - m], g[n - m])
               /\ \A k \in n - m + 1 .. n : g[k - 1] = Cat(parts[k], g[k])
             U == {m \in Nat : m < n => \E g : Built(g, m)}
  <2>3. 0 \in U
    <3>1. n - 0 .. n = n .. n /\ n - 0 = n /\ n \in n .. n /\ n - 0 + 1 .. n = {} /\ n \in 1 .. n
      BY <1>1, <1>3 DEF n
    <3>2. f[n] = Cat(f[n], None) /\ None \in Strings(S)
      BY <2>1, <3>1, CatNone, NoneType
    <3>3. Built([k \in n .. n |-> None], 0)
      BY <3>1, <3>2
    <3> HIDE DEF Built
    <3> QED  BY <3>3
  <2>4. ASSUME NEW m \in Nat, m \in U PROVE m + 1 \in U
    <3> SUFFICES ASSUME m + 1 < n PROVE \E g : Built(g, m + 1)
      OBVIOUS
    <3>1. n \in Nat
      BY <1>1 DEF n
    <3>2. PICK g : Built(g, m)
      <4> HIDE DEF Built
      <4> QED  BY <2>4, <3>1
    <3> DEFINE j == n - m
    <3>3. j \in 2 .. n /\ j - 1 = n - (m + 1) /\ j - 1 \in 1 .. n /\ j \in 1 .. n
      BY <3>1
    <3>4. /\ g \in [j .. n -> Strings(S)] /\ g[n] = None /\ f[n] = Cat(f[j], g[j])
          /\ \A k \in j + 1 .. n : g[k - 1] = Cat(parts[k], g[k])
      BY <3>2
    <3> HIDE DEF j
    <3>5. f[j] = Cat(f[j - 1], parts[j]) /\ f[j - 1] \in Strings(S) /\ parts[j] \in Strings(S)
      BY <2>1, <2>2, <3>3
    <3>6. g[j] \in Strings(S)
      BY <3>3, <3>4
    <3> DEFINE next == Cat(parts[j], g[j])
               h == [k \in j - 1 .. n |-> IF k = j - 1 THEN next ELSE g[k]]
    <3>7. next \in Strings(S) /\ f[n] = Cat(f[j - 1], next)
      <4> DEFINE a == f[j - 1]
                 b == parts[j]
                 c == g[j]
      <4>1. a \in Strings(S) /\ b \in Strings(S) /\ c \in Strings(S)
        BY <3>5, <3>6
      <4>2. f[n] = Cat(Cat(a, b), c)
        BY <3>4, <3>5
      <4> HIDE DEF a, b, c
      <4>3. f[n] = Cat(a, Cat(b, c)) /\ Cat(b, c) \in Strings(S)
        BY <4>1, <4>2, CatAssociates, CatType
      <4> QED  BY <4>3 DEF a, b, c
    <3> HIDE DEF next
    <3>8. h \in [j - 1 .. n -> Strings(S)]
      <4>1. \A k \in j - 1 .. n : k # j - 1 => k \in j .. n
        BY <3>1, <3>3
      <4> QED  BY <3>4, <3>7, <4>1
    <3>9. h[n] = None
      BY <3>1, <3>3, <3>4
    <3>10. j - 1 \in j - 1 .. n /\ h[j - 1] = next
      BY <3>1, <3>3
    <3>11. ASSUME NEW k \in j - 1 + 1 .. n PROVE h[k - 1] = Cat(parts[k], h[k])
      <4>1. CASE k = j
        <5>1. h[j] = g[j]
          BY <3>1, <3>3
        <5> QED  BY <3>10, <4>1, <5>1 DEF next
      <4>2. CASE k # j
        <5>1. k \in j + 1 .. n /\ k - 1 \in j .. n /\ k \in j .. n
          BY <3>1, <3>3, <4>2
        <5>2. h[k - 1] = g[k - 1] /\ h[k] = g[k]
          BY <3>1, <3>3, <5>1
        <5> QED  BY <3>4, <5>1, <5>2
      <4> QED  BY <4>1, <4>2
    <3> HIDE DEF h
    <3>12. Built(h, m + 1)
      BY <3>3, <3>7, <3>8, <3>9, <3>10, <3>11
    <3> HIDE DEF Built
    <3> QED  BY <3>12
  <2>5. Nat \subseteq U
    <3> HIDE DEF U
    <3> QED  BY <2>3, <2>4, InductionOnNat
  <2>6. n \in Nat /\ n - 1 \in Nat /\ n - 1 < n /\ n - (n - 1) = 1 /\ 1 \in 1 .. n
    BY <1>1, <1>3 DEF n
  <2>7. PICK g : Built(g, n - 1)
    <3> HIDE DEF Built
    <3> QED  BY <2>5, <2>6
  <2>8. /\ g \in [1 .. n -> Strings(S)] /\ g[n] = None /\ f[n] = Cat(f[1], g[1])
        /\ \A k \in 2 .. n : g[k - 1] = Cat(parts[k], g[k])
    BY <2>6, <2>7
  <2> HIDE DEF Built
  <2> DEFINE rest == [k \in 0 .. n |-> IF k = 0 THEN f[n] ELSE g[k]]
  <2>9. rest \in [0 .. n -> Strings(S)]
    <3>1. \A k \in 0 .. n : k # 0 => k \in 1 .. n
      BY <2>6
    <3>2. f[n] \in Strings(S)
      BY <2>1, <2>6
    <3> QED  BY <2>8, <3>1, <3>2
  <2>10. rest[0] = FlattenSeq(parts) /\ rest[n] = None
    BY <2>1, <2>6, <2>8
  <2>11. ASSUME NEW k \in 1 .. n PROVE rest[k - 1] = Cat(parts[k], rest[k])
    <3>1. CASE k = 1
      <4>1. rest[0] = f[n] /\ rest[1] = g[1]
        BY <2>6
      <4> QED  BY <2>1, <2>8, <3>1, <4>1
    <3>2. CASE k # 1
      <4>1. k \in 2 .. n /\ rest[k - 1] = g[k - 1] /\ rest[k] = g[k]
        BY <2>6, <3>2
      <4> QED  BY <2>8, <4>1
    <3> QED  BY <3>1, <3>2
  <2> HIDE DEF rest
  <2>12. RemaindersOf(S, rest, parts)
    BY <2>9, <2>10, <2>11 DEF RemaindersOf, n
  <2> QED  BY <2>12
<1> QED  BY <1>2, <1>3

Remainders(rest, parts) ==
  /\ rest \in [0 .. Size(parts) -> Text]
  /\ rest[0] = FlattenSeq(parts)
  /\ rest[Size(parts)] = None
  /\ \A k \in 1 .. Size(parts) : rest[k - 1] = Cat(parts[k], rest[k])

LEMMA FlattenParts ==
  ASSUME NEW parts \in Strings(Text)
  PROVE  \E rest : Remainders(rest, parts)
<1>1. parts \in Strings(Strings(Nat))
  BY TextIs
<1>2. PICK rest : RemaindersOf(Nat, rest, parts)
  BY <1>1, FlattenPartsOf
<1>3. Remainders(rest, parts)
  BY <1>2, TextIs DEF RemaindersOf, Remainders
<1> QED  BY <1>3

LEMMA FlattenType ==
  ASSUME NEW parts \in Strings(Text)
  PROVE  FlattenSeq(parts) \in Text
<1>1. PICK rest : Remainders(rest, parts)
  BY FlattenParts
<1>2. Size(parts) \in Nat
  BY SizeIsNat
<1>3. 0 \in 0 .. Size(parts)
  BY <1>2
<1> QED  BY <1>1, <1>3 DEF Remainders

-----------------------------------------------------------------------------
(* Documents: a document is a leaf, or one of documents less deep.          *)
Leaves == ({"number"} \X Nat) \cup ({"string"} \X Text)

Deeper(S) ==
  Leaves \cup (({"list"} \X Seq(S)) \cup ({"dictionary"} \X Seq(Nat \X S)))

LEMMA DocumentsOfIs ==
  /\ DocumentsOf[0] = Leaves
  /\ \A n \in Nat : DocumentsOf[n + 1] = Deeper(DocumentsOf[n])
<1> DEFINE Body(f, n) == IF n = 0 THEN Leaves ELSE Deeper(f[n - 1])
           Up(g, n) == DOMAIN g = 0 .. n /\ \A k \in 0 .. n : g[k] = Body(g, k)
           B(f) == [n \in Nat |-> Body(f, n)]
           C(f) == [depth \in Nat |->
                      ({"number"} \X Nat) \cup ({"string"} \X Text)
                        \cup IF depth = 0 THEN {}
                             ELSE ({"list"} \X Seq(f[depth - 1]))
                                    \cup ({"dictionary"} \X Seq(Nat \X f[depth - 1]))]
<1>1. \A n \in Nat : \E g : Up(g, n)
  <2> DEFINE T == {n \in Nat : \E g : Up(g, n)}
  <2>1. 0 \in T
    <3>1. Up([k \in 0 .. 0 |-> Leaves], 0)
      <4> HIDE DEF Leaves
      <4> QED  OBVIOUS
    <3> HIDE DEF Up
    <3> QED  BY <3>1
  <2>2. ASSUME NEW n \in Nat, n \in T PROVE n + 1 \in T
    <3>1. PICK g : Up(g, n)
      <4> HIDE DEF Up
      <4> QED  BY <2>2
    <3> HIDE DEF Body
    <3> DEFINE h == [k \in 0 .. n + 1 |-> Body(g, k)]
    <3>2. \A k \in 0 .. n : h[k] = g[k]
      BY <3>1
    <3>3. ASSUME NEW k \in 0 .. n + 1 PROVE Body(h, k) = Body(g, k)
      <4>1. k # 0 => k - 1 \in 0 .. n
        OBVIOUS
      <4>2. k # 0 => h[k - 1] = g[k - 1]
        BY <3>2, <4>1
      <4> HIDE DEF h
      <4> QED  BY <4>2, Zenon DEF Body
    <3>4. Up(h, n + 1)
      BY <3>3
    <3> HIDE DEF Up, h
    <3> QED  BY <3>4
  <2> HIDE DEF T
  <2>3. Nat \subseteq T
    BY <2>1, <2>2, InductionOnNat
  <2> HIDE DEF Up
  <2> QED  BY <2>3 DEF T
<1>2. ASSUME NEW n \in Nat, NEW g, Up(g, n), NEW m \in Nat, NEW h, Up(h, m)
      PROVE  \A k \in Nat : k <= n /\ k <= m => g[k] = h[k]
  <2> DEFINE T == {k \in Nat : k <= n /\ k <= m => g[k] = h[k]}
  <2> HIDE DEF Body
  <2>1. 0 \in T
    <3>1. 0 \in 0 .. n /\ 0 \in 0 .. m
      OBVIOUS
    <3>2. g[0] = Leaves /\ h[0] = Leaves
      BY <1>2, <3>1, Zenon DEF Body
    <3> QED  BY <3>2
  <2>2. ASSUME NEW k \in Nat, k \in T PROVE k + 1 \in T
    <3> SUFFICES ASSUME k + 1 <= n, k + 1 <= m PROVE g[k + 1] = h[k + 1]
      OBVIOUS
    <3>1. k + 1 \in 0 .. n /\ k + 1 \in 0 .. m /\ k + 1 # 0 /\ (k + 1) - 1 = k
      OBVIOUS
    <3>2. g[k] = h[k]
      BY <2>2
    <3>3. Body(g, k + 1) = Deeper(g[k]) /\ Body(h, k + 1) = Deeper(h[k])
      BY <3>1, Zenon DEF Body
    <3>4. g[k + 1] = Body(g, k + 1) /\ h[k + 1] = Body(h, k + 1)
      BY <1>2, <3>1
    <3> QED  BY <3>2, <3>3, <3>4
  <2> HIDE DEF T
  <2>3. Nat \subseteq T
    BY <2>1, <2>2, InductionOnNat
  <2> QED  BY <2>3 DEF T
<1> DEFINE up(n) == CHOOSE g : Up(g, n)
           F == [n \in Nat |-> up(n)[n]]
<1>3. \A n \in Nat : Up(up(n), n)
  <2> HIDE DEF Up
  <2> QED  BY <1>1
<1> HIDE DEF up
<1>4. \A n \in Nat : F[n] = Body(F, n)
  <2> TAKE n \in Nat
  <2> HIDE DEF Body
  <2>1. F[n] = Body(up(n), n)
    <3>1. n \in 0 .. n
      OBVIOUS
    <3> QED  BY <1>3, <3>1
  <2>2. n # 0 => F[n - 1] = up(n)[n - 1]
    <3> SUFFICES ASSUME n # 0 PROVE F[n - 1] = up(n)[n - 1]
      OBVIOUS
    <3>1. n - 1 \in Nat /\ n - 1 <= n - 1 /\ n - 1 <= n
      OBVIOUS
    <3> HIDE DEF Up
    <3> QED  BY <1>2, <1>3, <3>1
  <2> HIDE DEF F
  <2> QED  BY <2>1, <2>2, Zenon DEF Body
<1> HIDE DEF F
<1>5. F = C(F)
  <2>1. \A g : C(g) = B(g)
    <3>1. \A g : \A n \in Nat :
            ({"number"} \X Nat) \cup ({"string"} \X Text)
                        \cup (IF n = 0 THEN {}
                             ELSE ({"list"} \X Seq(g[n - 1]))
                                    \cup ({"dictionary"} \X Seq(Nat \X g[n - 1])))
              = Body(g, n)
      <4> TAKE g
      <4> TAKE n \in Nat
      <4>1. CASE n = 0
        <5>1. Leaves \cup {} = Leaves
          OBVIOUS
        <5> QED  BY <4>1, <5>1, Zenon DEF Leaves
      <4>2. CASE n # 0
        BY <4>2, Zenon DEF Leaves, Deeper
      <4> QED  BY <4>1, <4>2
    <3> HIDE DEF Body
    <3> QED  BY <3>1, Zenon
  <2>2. F = B(F)
    <3> HIDE DEF Body
    <3>1. F = [n \in Nat |-> F[n]]
      BY DEF F
    <3> QED  BY <1>4, <3>1, Zenon
  <2> HIDE DEF B, C
  <2> QED  BY <2>1, <2>2, Zenon
<1>6. DocumentsOf = CHOOSE g : g = C(g)
  BY Zenon DEF DocumentsOf
<1>7. DocumentsOf = C(DocumentsOf)
  <2> HIDE DEF C
  <2> QED  BY <1>5, <1>6, Zenon
<1>8. DocumentsOf[0] = Leaves
  <2>1. 0 \in Nat /\ Leaves \cup {} = Leaves
    OBVIOUS
  <2>2. DocumentsOf[0] = C(DocumentsOf)[0]
    <3> HIDE DEF C
    <3> QED  BY <1>7, Zenon
  <2> QED  BY <2>1, <2>2, Zenon DEF Leaves
<1>9. ASSUME NEW n \in Nat PROVE DocumentsOf[n + 1] = Deeper(DocumentsOf[n])
  <2>1. n + 1 \in Nat /\ n + 1 # 0 /\ (n + 1) - 1 = n
    OBVIOUS
  <2>2. DocumentsOf[n + 1] = C(DocumentsOf)[n + 1]
    <3> HIDE DEF C
    <3> QED  BY <1>7, Zenon
  <2> QED  BY <2>1, <2>2, Zenon DEF Leaves, Deeper
<1> QED  BY <1>8, <1>9

LEMMA DeeperGrows ==
  ASSUME NEW S, NEW T, S \subseteq T
  PROVE  Deeper(S) \subseteq Deeper(T)
<1>1. Seq(S) \subseteq Seq(T) /\ Seq(Nat \X S) \subseteq Seq(Nat \X T)
  <2>1. Nat \X S \subseteq Nat \X T
    OBVIOUS
  <2> QED  BY <2>1
<1> DEFINE A == Seq(S)
           B == Seq(T)
           C == Seq(Nat \X S)
           D == Seq(Nat \X T)
<1>2. A \subseteq B /\ C \subseteq D
  BY <1>1
<1> HIDE DEF A, B, C, D
<1>3. {"list"} \X A \subseteq {"list"} \X B /\ {"dictionary"} \X C \subseteq {"dictionary"} \X D
  BY <1>2
<1> QED  BY <1>3, Zenon DEF Deeper, A, B, C, D

LEMMA DocumentsOfGrow ==
  \A n \in Nat, k \in Nat : DocumentsOf[n] \subseteq DocumentsOf[n + k]
<1>1. ASSUME NEW n \in Nat PROVE DocumentsOf[n] \subseteq DocumentsOf[n + 1]
  <2> DEFINE T == {m \in Nat : DocumentsOf[m] \subseteq DocumentsOf[m + 1]}
  <2>1. 0 \in T
    <3>1. DocumentsOf[0 + 1] = Deeper(DocumentsOf[0]) /\ DocumentsOf[0] = Leaves
      BY DocumentsOfIs
    <3>2. \A S : Leaves \subseteq Deeper(S)
      BY Zenon DEF Deeper
    <3> QED  BY <3>1, <3>2
  <2>2. ASSUME NEW m \in Nat, m \in T PROVE m + 1 \in T
    <3>1. DocumentsOf[m + 1] = Deeper(DocumentsOf[m])
          /\ DocumentsOf[m + 1 + 1] = Deeper(DocumentsOf[m + 1])
      BY DocumentsOfIs
    <3> QED  BY <2>2, <3>1, DeeperGrows
  <2> HIDE DEF T
  <2>3. Nat \subseteq T
    BY <2>1, <2>2, InductionOnNat
  <2> QED  BY <2>3 DEF T
<1>2. ASSUME NEW n \in Nat PROVE \A k \in Nat : DocumentsOf[n] \subseteq DocumentsOf[n + k]
  <2> DEFINE T == {k \in Nat : DocumentsOf[n] \subseteq DocumentsOf[n + k]}
  <2>1. 0 \in T
    OBVIOUS
  <2>2. ASSUME NEW k \in Nat, k \in T PROVE k + 1 \in T
    <3>1. n + (k + 1) = (n + k) + 1 /\ n + k \in Nat
      OBVIOUS
    <3> QED  BY <1>1, <2>2, <3>1
  <2> HIDE DEF T
  <2>3. Nat \subseteq T
    BY <2>1, <2>2, InductionOnNat
  <2> QED  BY <2>3 DEF T
<1> QED  BY <1>2

(* What a document is.                                                      *)
OfDocuments(S) ==
  {ListOf(s) : s \in Strings(S)} \cup {Dictionary(s) : s \in Strings(Nat \X S)}

LeafDocuments == {Number(n) : n \in Nat} \cup {String(b) : b \in Text}

LEMMA DeeperIs ==
  ASSUME NEW S
  PROVE  Deeper(S) = LeafDocuments \cup OfDocuments(S)
<1>1. {"number"} \X Nat = {Number(n) : n \in Nat}
  BY DEF Number
<1>2. \A U : {"string"} \X U = {String(s) : s \in U}
  BY DEF String
<1>3. \A U : {"list"} \X U = {ListOf(s) : s \in U}
  BY DEF ListOf
<1>4. \A U : {"dictionary"} \X U = {Dictionary(s) : s \in U}
  BY DEF Dictionary
<1> QED  BY <1>1, <1>2, <1>3, <1>4, Zenon DEF Deeper, Leaves, LeafDocuments, OfDocuments, Strings

LEMMA LeavesAre == Leaves = LeafDocuments
<1>1. {"number"} \X Nat = {Number(n) : n \in Nat}
  BY DEF Number
<1>2. \A U : {"string"} \X U = {String(s) : s \in U}
  BY DEF String
<1> QED  BY <1>1, <1>2, Zenon DEF Leaves, LeafDocuments

LEMMA ListIsDeeper ==
  ASSUME NEW S, NEW s
  PROVE  /\ ListOf(s) \notin LeafDocuments /\ Dictionary(s) \notin LeafDocuments
         /\ ListOf(s) \in Deeper(S) <=> s \in Strings(S)
         /\ Dictionary(s) \in Deeper(S) <=> s \in Strings(Nat \X S)
<1>1. ListOf(s) \notin LeafDocuments /\ Dictionary(s) \notin LeafDocuments
  BY DEF LeafDocuments, ListOf, Dictionary, Number, String
<1>2. ASSUME NEW T PROVE ListOf(s) \in {ListOf(t) : t \in T} <=> s \in T
  BY DEF ListOf
<1>3. ASSUME NEW T PROVE Dictionary(s) \in {Dictionary(t) : t \in T} <=> s \in T
  BY DEF Dictionary
<1>4. ASSUME NEW T PROVE ListOf(s) \notin {Dictionary(t) : t \in T}
                         /\ Dictionary(s) \notin {ListOf(t) : t \in T}
  BY DEF ListOf, Dictionary
<1>5. ListOf(s) \in OfDocuments(S) <=> s \in Strings(S)
  BY <1>2, <1>4, Zenon DEF OfDocuments
<1>6. Dictionary(s) \in OfDocuments(S) <=> s \in Strings(Nat \X S)
  BY <1>3, <1>4, Zenon DEF OfDocuments
<1>7. Deeper(S) = LeafDocuments \cup OfDocuments(S)
  BY DeeperIs
<1> QED  BY <1>1, <1>5, <1>6, <1>7

(* How deep a document is: more than what is in it.                         *)
IsDepth(size) ==
  /\ size \in [AllDocuments -> Nat]
  /\ \A s : ListOf(s) \in AllDocuments =>
       /\ s \in Strings(AllDocuments)
       /\ \A i \in 1 .. Size(s) : s[i] \in AllDocuments /\ size[s[i]] < size[ListOf(s)]
  /\ \A s : Dictionary(s) \in AllDocuments =>
       /\ s \in Strings(Nat \X AllDocuments)
       /\ \A i \in 1 .. Size(s) :
            s[i] \in Nat \X AllDocuments /\ size[s[i][2]] < size[Dictionary(s)]

LEMMA DepthExists == \E size : IsDepth(size)
<1> DEFINE depths(d) == {n \in Nat : n <= MaxDepth /\ d \in DocumentsOf[n]}
           least(d) == CHOOSE n \in depths(d) : \A k \in depths(d) : n <= k
           size == [d \in AllDocuments |-> least(d)]
<1>1. MaxDepth \in Nat
  BY DocumentsAssumption
<1>2. ASSUME NEW d \in AllDocuments
      PROVE  least(d) \in depths(d) /\ \A k \in depths(d) : least(d) <= k
  <2>1. MaxDepth \in depths(d)
    BY <1>1 DEF AllDocuments
  <2>2. depths(d) \in SUBSET Nat
    OBVIOUS
  <2> HIDE DEF depths
  <2>3. \E n \in depths(d) : \A k \in depths(d) : n <= k
    BY <2>1, <2>2, LeastNat
  <2> QED  BY <2>3
<1> HIDE DEF least
<1>3. ASSUME NEW n \in Nat, n <= MaxDepth PROVE DocumentsOf[n] \subseteq AllDocuments
  <2>1. MaxDepth - n \in Nat /\ n + (MaxDepth - n) = MaxDepth
    BY <1>1, <1>3
  <2> QED  BY <2>1, DocumentsOfGrow DEF AllDocuments
<1>4. ASSUME NEW n \in Nat, n <= MaxDepth, NEW d \in DocumentsOf[n]
      PROVE  d \in AllDocuments /\ size[d] \in Nat /\ size[d] <= n
  <2>1. d \in AllDocuments /\ n \in depths(d)
    BY <1>3, <1>4
  <2> QED  BY <1>2, <2>1
<1>5. size \in [AllDocuments -> Nat]
  BY <1>2
<1>6. ASSUME NEW d \in AllDocuments, d \notin LeafDocuments
      PROVE  \E n \in Nat : /\ n + 1 <= MaxDepth /\ size[d] = n + 1
                            /\ d \in Deeper(DocumentsOf[n])
  <2>1. size[d] \in Nat /\ size[d] <= MaxDepth /\ d \in DocumentsOf[size[d]]
    BY <1>2
  <2>2. size[d] # 0
    BY <1>6, <2>1, DocumentsOfIs, LeavesAre
  <2>3. size[d] - 1 \in Nat /\ (size[d] - 1) + 1 = size[d]
    BY <2>1, <2>2
  <2> HIDE DEF size
  <2>4. d \in Deeper(DocumentsOf[size[d] - 1])
    BY <2>1, <2>3, DocumentsOfIs
  <2> QED  BY <2>1, <2>3, <2>4
<1> HIDE DEF size
<1>7. ASSUME NEW s, ListOf(s) \in AllDocuments
      PROVE  /\ s \in Strings(AllDocuments)
             /\ \A i \in 1 .. Size(s) : s[i] \in AllDocuments /\ size[s[i]] < size[ListOf(s)]
  <2>1. ListOf(s) \notin LeafDocuments
    BY ListIsDeeper
  <2>2. PICK n \in Nat : /\ n + 1 <= MaxDepth /\ size[ListOf(s)] = n + 1
                         /\ ListOf(s) \in Deeper(DocumentsOf[n])
    BY <1>6, <1>7, <2>1
  <2>3. n <= MaxDepth /\ s \in Strings(DocumentsOf[n])
    <3>1. s \in Strings(DocumentsOf[n])
      BY <2>2, ListIsDeeper
    <3> QED  BY <1>1, <2>2, <3>1
  <2>4. s \in Strings(AllDocuments)
    BY <1>3, <2>3, SubStrings
  <2>5. ASSUME NEW i \in 1 .. Size(s) PROVE s[i] \in DocumentsOf[n]
    <3>1. Size(s) \in Nat
      BY <2>3, SizeIsNat
    <3> QED  BY <2>3, <3>1, ElementType
  <2>6. ASSUME NEW i \in 1 .. Size(s)
        PROVE  s[i] \in AllDocuments /\ size[s[i]] < size[ListOf(s)]
    <3>1. s[i] \in AllDocuments /\ size[s[i]] \in Nat /\ size[s[i]] <= n
      BY <1>4, <2>3, <2>5
    <3> QED  BY <2>2, <3>1
  <2> QED  BY <2>4, <2>6
<1>8. ASSUME NEW s, Dictionary(s) \in AllDocuments
      PROVE  /\ s \in Strings(Nat \X AllDocuments)
             /\ \A i \in 1 .. Size(s) :
                  s[i] \in Nat \X AllDocuments /\ size[s[i][2]] < size[Dictionary(s)]
  <2>1. Dictionary(s) \notin LeafDocuments
    BY ListIsDeeper
  <2>2. PICK n \in Nat : /\ n + 1 <= MaxDepth /\ size[Dictionary(s)] = n + 1
                         /\ Dictionary(s) \in Deeper(DocumentsOf[n])
    BY <1>6, <1>8, <2>1
  <2>3. n <= MaxDepth /\ s \in Strings(Nat \X DocumentsOf[n])
    BY <1>1, <2>2, ListIsDeeper
  <2>4. s \in Strings(Nat \X AllDocuments)
    <3>1. Nat \X DocumentsOf[n] \subseteq Nat \X AllDocuments
      BY <1>3, <2>3
    <3> QED  BY <2>3, <3>1, SubStrings
  <2>5. ASSUME NEW i \in 1 .. Size(s) PROVE s[i] \in Nat \X DocumentsOf[n]
    <3>1. Size(s) \in Nat
      BY <2>3, SizeIsNat
    <3> QED  BY <2>3, <3>1, ElementType
  <2>6. ASSUME NEW i \in 1 .. Size(s)
        PROVE  s[i] \in Nat \X AllDocuments /\ size[s[i][2]] < size[Dictionary(s)]
    <3>1. s[i][2] \in DocumentsOf[n] /\ s[i] \in Nat \X DocumentsOf[n]
      BY <2>5
    <3>2. s[i][2] \in AllDocuments /\ size[s[i][2]] \in Nat /\ size[s[i][2]] <= n
      BY <1>4, <2>3, <3>1
    <3>3. s[i] \in Nat \X AllDocuments
      BY <3>1, <3>2
    <3> QED  BY <2>2, <3>2, <3>3
  <2> QED  BY <2>4, <2>6
<1>9. IsDepth(size)
  BY <1>5, <1>7, <1>8 DEF IsDepth
<1> QED  BY <1>9

LEMMA LeavesAreDocuments == LeafDocuments \subseteq AllDocuments
<1>1. 0 \in Nat /\ MaxDepth \in Nat /\ 0 + MaxDepth = MaxDepth
  BY DocumentsAssumption
<1>2. DocumentsOf[0] \subseteq AllDocuments
  BY <1>1, DocumentsOfGrow DEF AllDocuments
<1> QED  BY <1>2, DocumentsOfIs, LeavesAre

LEMMA DocumentIs ==
  ASSUME NEW d \in AllDocuments
  PROVE  \/ \E n \in Nat : d = Number(n)
         \/ \E b \in Text : d = String(b)
         \/ \E s \in Strings(AllDocuments) : d = ListOf(s)
         \/ \E s \in Strings(Nat \X AllDocuments) : d = Dictionary(s)
<1>1. CASE d \in LeafDocuments
  BY <1>1 DEF LeafDocuments
<1>2. CASE d \notin LeafDocuments
  <2>1. MaxDepth \in Nat
    BY DocumentsAssumption
  <2>2. MaxDepth # 0
    BY <1>2, <2>1, DocumentsOfIs, LeavesAre DEF AllDocuments
  <2>3. MaxDepth - 1 \in Nat /\ (MaxDepth - 1) + 1 = MaxDepth
    BY <2>1, <2>2
  <2> DEFINE S == DocumentsOf[MaxDepth - 1]
  <2>4. AllDocuments = Deeper(S)
    BY <2>3, DocumentsOfIs DEF AllDocuments
  <2>5. S \subseteq AllDocuments
    BY <2>3, DocumentsOfGrow DEF AllDocuments
  <2> HIDE DEF S
  <2>6. d \in OfDocuments(S)
    BY <1>2, <2>4, DeeperIs
  <2>7. Strings(S) \subseteq Strings(AllDocuments)
        /\ Strings(Nat \X S) \subseteq Strings(Nat \X AllDocuments)
    <3>1. Nat \X S \subseteq Nat \X AllDocuments
      BY <2>5
    <3> QED  BY <2>5, <3>1, SubStrings
  <2> QED  BY <2>6, <2>7 DEF OfDocuments
<1> QED  BY <1>1, <1>2

(* What a property of documents is shown by.                                *)
LEMMA DocumentInduction ==
  ASSUME NEW T,
         \A n \in Nat : Number(n) \in T,
         \A b \in Text : String(b) \in T,
         \A s \in Strings(AllDocuments) :
           ListOf(s) \in AllDocuments /\ (\A i \in 1 .. Size(s) : s[i] \in T) => ListOf(s) \in T,
         \A s \in Strings(Nat \X AllDocuments) :
           Dictionary(s) \in AllDocuments /\ (\A i \in 1 .. Size(s) : s[i][2] \in T)
             => Dictionary(s) \in T
  PROVE  AllDocuments \subseteq T
<1>1. PICK size : IsDepth(size)
  BY DepthExists
<1> DEFINE N == {n \in Nat : \A d \in AllDocuments : size[d] < n => d \in T}
<1>2. \A d \in AllDocuments : size[d] \in Nat
  BY <1>1 DEF IsDepth
<1>3. 0 \in N
  BY <1>2
<1>4. ASSUME NEW n \in Nat, n \in N PROVE n + 1 \in N
  <2> SUFFICES ASSUME NEW d \in AllDocuments, size[d] < n + 1 PROVE d \in T
    OBVIOUS
  <2>1. \A e \in AllDocuments : size[e] < size[d] => e \in T
    BY <1>2, <1>4
  <2>2. ASSUME NEW s \in Strings(AllDocuments), d = ListOf(s) PROVE d \in T
    <3>1. \A i \in 1 .. Size(s) : s[i] \in AllDocuments /\ size[s[i]] < size[d]
      BY <1>1, <2>2 DEF IsDepth
    <3> QED  BY <2>1, <2>2, <3>1
  <2>3. ASSUME NEW s \in Strings(Nat \X AllDocuments), d = Dictionary(s) PROVE d \in T
    <3>1. \A i \in 1 .. Size(s) : s[i][2] \in AllDocuments /\ size[s[i][2]] < size[d]
      BY <1>1, <2>3 DEF IsDepth
    <3> QED  BY <2>1, <2>3, <3>1
  <2> QED  BY <2>2, <2>3, DocumentIs
<1> HIDE DEF N
<1>5. Nat \subseteq N
  BY <1>3, <1>4, InductionOnNat
<1>6. ASSUME NEW d \in AllDocuments PROVE d \in T
  <2>1. size[d] + 1 \in N /\ size[d] < size[d] + 1
    BY <1>2, <1>5
  <2> QED  BY <2>1 DEF N
<1> QED  BY <1>6

(* A function of documents may be defined by what it is for the documents   *)
(* in one.                                                                  *)
SameInside(f, g, d) ==
  /\ \A s \in Strings(AllDocuments) : d = ListOf(s) => \A i \in 1 .. Size(s) : f[s[i]] = g[s[i]]
  /\ \A s \in Strings(Nat \X AllDocuments) :
       d = Dictionary(s) => \A i \in 1 .. Size(s) : f[s[i][2]] = g[s[i][2]]

DocumentBody(R, body) ==
  /\ R # {}
  /\ body \in [[AllDocuments -> R] \X AllDocuments -> R]
  /\ \A f, g \in [AllDocuments -> R], d \in AllDocuments :
       SameInside(f, g, d) => body[<<f, d>>] = body[<<g, d>>]

LEMMA DocumentRecursion ==
  ASSUME NEW R, NEW body, DocumentBody(R, body)
  PROVE  \E f \in [AllDocuments -> R] : \A d \in AllDocuments : f[d] = body[<<f, d>>]
<1>1. PICK size : IsDepth(size)
  BY DepthExists
<1>2. size \in [AllDocuments -> Nat]
  BY <1>1 DEF IsDepth
<1>3. ASSUME NEW f \in [AllDocuments -> R], NEW g \in [AllDocuments -> R], NEW d \in AllDocuments,
             \A e \in AllDocuments : size[e] < size[d] => f[e] = g[e]
      PROVE  body[<<f, d>>] = body[<<g, d>>]
  <2>1. ASSUME NEW s \in Strings(AllDocuments), d = ListOf(s), NEW i \in 1 .. Size(s)
        PROVE  f[s[i]] = g[s[i]]
    BY <1>1, <1>3, <2>1 DEF IsDepth
  <2>2. ASSUME NEW s \in Strings(Nat \X AllDocuments), d = Dictionary(s), NEW i \in 1 .. Size(s)
        PROVE  f[s[i][2]] = g[s[i][2]]
    <3>1. s[i] \in Nat \X AllDocuments /\ size[s[i][2]] < size[d]
      BY <1>1, <2>2 DEF IsDepth
    <3>2. s[i][2] \in AllDocuments
      BY <3>1
    <3> QED  BY <1>3, <3>1, <3>2
  <2>3. SameInside(f, g, d)
    BY <2>1, <2>2 DEF SameInside
  <2> QED  BY <2>3 DEF DocumentBody
<1>4. CallsSmaller(AllDocuments, R, size, body)
  BY <1>3 DEF CallsSmaller
<1>5. Recursion(AllDocuments, R, size, body)
  BY <1>2, <1>4 DEF Recursion, DocumentBody
<1> QED  BY <1>5, RecursionByMeasure

-----------------------------------------------------------------------------
(* Decimal digits.                                                          *)
Digits == Strings(Digit)

LEMMA DecimalIs ==
  ASSUME NEW n \in Nat
  PROVE  /\ Decimal[n] \in Digits
         /\ n < 10 => Decimal[n] = One(48 + n)
         /\ n >= 10 => Decimal[n] = Cat(Decimal[n \div 10], One(48 + (n % 10)))
<1> DEFINE D == Nat
           size == [k \in D |-> k]
           Body(f, k) == IF k < 10 THEN One(48 + k) ELSE Cat(f[k \div 10], One(48 + (k % 10)))
           body == [p \in [D -> Digits] \X D |-> Body(p[1], p[2])]
           B(f) == [k \in D |-> Body(f, k)]
           C(f) == [k \in Nat |-> IF k < 10 THEN <<48 + k>>
                                  ELSE Append(f[k \div 10], 48 + (k % 10))]
<1>1. ASSUME NEW k \in D
      PROVE  /\ k < 10 => One(48 + k) \in Digits
             /\ One(48 + (k % 10)) \in Digits
             /\ k >= 10 => k \div 10 \in D /\ k \div 10 < k
  <2>1. k < 10 => 48 + k \in Digit
    BY DEF Digit
  <2>2. k % 10 \in 0 .. 9
    OBVIOUS
  <2>3. 48 + (k % 10) \in Digit
    BY <2>2 DEF Digit
  <2> QED  BY <2>1, <2>3, OneType DEF Digits
<1>2. ASSUME NEW f \in [D -> Digits], NEW k \in D PROVE Body(f, k) \in Digits
  <2>1. CASE k < 10
    BY <1>1, <2>1
  <2>2. CASE k >= 10
    <3>1. f[k \div 10] \in Digits /\ One(48 + (k % 10)) \in Digits
      BY <1>1, <2>2
    <3>2. Cat(f[k \div 10], One(48 + (k % 10))) \in Digits
      BY <3>1, CatType DEF Digits
    <3> QED  BY <2>2, <3>2
  <2> QED  BY <2>1, <2>2
<1>3. Recursion(D, Digits, size, body)
  <2>1. size \in [D -> Nat]
    OBVIOUS
  <2>2. body \in [[D -> Digits] \X D -> Digits]
    <3> HIDE DEF Body, D
    <3> QED  BY <1>2
  <2>3. Digits # {}
    BY NoneType DEF Digits
  <2>4. ASSUME NEW f \in [D -> Digits], NEW g \in [D -> Digits], NEW k \in D,
               \A e \in D : size[e] < size[k] => f[e] = g[e]
        PROVE  body[<<f, k>>] = body[<<g, k>>]
    <3>1. k >= 10 => f[k \div 10] = g[k \div 10]
      BY <1>1, <2>4
    <3>2. Body(f, k) = Body(g, k)
      BY <3>1
    <3> HIDE DEF Body, D
    <3> QED  BY <3>2
  <2> HIDE DEF D, size, body
  <2> QED  BY <2>1, <2>2, <2>3, <2>4 DEF Recursion, CallsSmaller
<1>4. PICK f \in [D -> Digits] : \A k \in D : f[k] = body[<<f, k>>]
  <2> HIDE DEF D, size, body
  <2> QED  BY <1>3, RecursionByMeasure
<1>5. \A k \in D : f[k] = Body(f, k)
  <2> HIDE DEF Body, D
  <2> QED  BY <1>4
<1>6. f = C(f)
  <2>1. f = B(f)
    <3> HIDE DEF Body, D
    <3> QED  BY <1>5
  <2>2. B(f) = C(f)
    <3>1. ASSUME NEW k \in D PROVE Body(f, k) = C(f)[k]
      <4>1. CASE k < 10
        BY <4>1, Zenon DEF One
      <4>2. CASE k >= 10
        <5>1. f[k \div 10] \in Digits
          BY <1>1, <4>2
        <5> DEFINE s == f[k \div 10]
                   x == 48 + (k % 10)
        <5>2. s \in Seq(Digit) /\ x \in Nat
          BY <5>1 DEF Digits, Strings
        <5> HIDE DEF s, x
        <5>3. Cat(s, One(x)) = Append(s, x)
          BY <5>2 DEF Cat, One
        <5>4. ~(k < 10)
          BY <4>2
        <5> QED  BY <5>3, <5>4, Zenon DEF s, x
      <4> QED  BY <4>1, <4>2
    <3> HIDE DEF Body
    <3> QED  BY <3>1
  <2> QED  BY <2>1, <2>2, Zenon
<1>7. Decimal = CHOOSE g : g = C(g)
  BY Zenon DEF Decimal
<1>8. Decimal = C(Decimal)
  <2> HIDE DEF C
  <2> QED  BY <1>6, <1>7, Zenon
<1> DEFINE T == {k \in Nat : \A m \in Nat : m <= k => Decimal[m] \in Digits}
<1>9. ASSUME NEW k \in Nat
      PROVE  /\ k < 10 => Decimal[k] = One(48 + k)
             /\ k >= 10 /\ Decimal[k \div 10] \in Digits =>
                  Decimal[k] = Cat(Decimal[k \div 10], One(48 + (k % 10)))
  <2>1. Decimal[k] = C(Decimal)[k]
    <3> HIDE DEF C
    <3> QED  BY <1>8, Zenon
  <2>2. CASE k < 10
    <3>1. ~(k >= 10)
      BY <2>2
    <3> QED  BY <2>1, <2>2, <3>1, Zenon DEF One
  <2>3. CASE k >= 10
    <3> DEFINE s == Decimal[k \div 10]
               x == 48 + (k % 10)
    <3>1. ~(k < 10)
      BY <2>3
    <3>2. s \in Digits => Cat(s, One(x)) = Append(s, x)
      <4>1. x \in Nat
        OBVIOUS
      <4> HIDE DEF s, x
      <4> QED  BY <4>1 DEF Cat, One, Digits, Strings
    <3> QED  BY <2>1, <3>1, <3>2, Zenon
  <2> QED  BY <2>2, <2>3
<1> HIDE DEF C
<1>10. 0 \in T
  <2>1. \A m \in Nat : m <= 0 => m = 0
    OBVIOUS
  <2>2. Decimal[0] = One(48 + 0)
    BY <1>9
  <2>3. One(48 + 0) \in Digits
    BY <1>1
  <2> QED  BY <2>1, <2>2, <2>3
<1>11. ASSUME NEW k \in Nat, k \in T PROVE k + 1 \in T
  <2> DEFINE m == k + 1
  <2>1. CASE m < 10
    <3>1. Decimal[m] \in Digits
      BY <1>1, <1>9, <2>1
    <3> QED  BY <1>11, <3>1
  <2>2. CASE m >= 10
    <3>1. m \div 10 \in Nat /\ m \div 10 <= k /\ One(48 + (m % 10)) \in Digits
      BY <1>1, <2>2
    <3>2. Decimal[m \div 10] \in Digits
      BY <1>11, <3>1
    <3>3. Decimal[m] = Cat(Decimal[m \div 10], One(48 + (m % 10)))
      BY <1>9, <2>2, <3>2
    <3>4. Decimal[m] \in Digits
      BY <3>1, <3>2, <3>3, CatType DEF Digits
    <3> QED  BY <1>11, <3>4
  <2> QED  BY <2>1, <2>2
<1>12. \A k \in Nat : Decimal[k] \in Digits
  <2> HIDE DEF T
  <2>1. Nat \subseteq T
    BY <1>10, <1>11, InductionOnNat
  <2> QED  BY <2>1 DEF T
<1>13. n >= 10 => n \div 10 \in Nat
  OBVIOUS
<1> QED  BY <1>9, <1>12, <1>13

LEMMA DecimalType ==
  ASSUME NEW n \in Nat
  PROVE  /\ Decimal[n] \in Text /\ Size(Decimal[n]) >= 1
         /\ \A i \in 1 .. Size(Decimal[n]) : Decimal[n][i] \in Digit
<1>1. Decimal[n] \in Digits
  BY DecimalIs
<1>2. Decimal[n] \in Text
  BY <1>1, SubStrings, TextIs DEF Digits, Digit
<1>3. Size(Decimal[n]) \in Nat
  BY <1>2, SizeIsNat, TextIs
<1>4. \A i \in 1 .. Size(Decimal[n]) : Decimal[n][i] \in Digit
  BY <1>1, <1>3, ElementType DEF Digits
<1>5. Size(Decimal[n]) >= 1
  <2>1. CASE n < 10
    <3>1. 48 + n \in Nat
      OBVIOUS
    <3>2. Size(One(48 + n)) = 1
      BY <3>1, OneType
    <3>3. Decimal[n] = One(48 + n)
      BY <2>1, DecimalIs
    <3> QED  BY <3>2, <3>3
  <2>2. CASE n >= 10
    <3>1. n \div 10 \in Nat /\ 48 + (n % 10) \in Nat
      OBVIOUS
    <3>2. 48 + (n % 10) \in Digit
      <4>1. n % 10 \in 0 .. 9
        OBVIOUS
      <4> QED  BY <4>1 DEF Digit
    <3>3. /\ Decimal[n \div 10] \in Digits /\ Size(Decimal[n \div 10]) \in Nat
          /\ One(48 + (n % 10)) \in Digits /\ Size(One(48 + (n % 10))) = 1
      BY <3>1, <3>2, DecimalIs, SizeIsNat, OneType DEF Digits
    <3>4. Size(Decimal[n]) = Size(Decimal[n \div 10]) + 1
      BY <2>2, <3>3, DecimalIs, CatType DEF Digits
    <3> QED  BY <3>3, <3>4
  <2> QED  BY <2>1, <2>2
<1> QED  BY <1>2, <1>4, <1>5

LEMMA DigitsAreLeading ==
  ASSUME NEW s \in Digits
  PROVE  LeadingDigits(s) = s
<1> DEFINE S == {n \in 0 .. Len(s) : \A k \in 1 .. n : s[k] \in Digit}
<1>1. s \in Seq(Digit) /\ Len(s) \in Nat /\ \A k \in 1 .. Len(s) : s[k] \in Digit
  BY DEF Digits, Strings
<1>2. Len(s) \in S /\ \A n \in S : n <= Len(s)
  BY <1>1
<1>3. Max(S) = Len(s)
  <2>1. \A x \in S : x \in Nat
    OBVIOUS
  <2> HIDE DEF S
  <2> QED  BY <1>1, <1>2, <2>1 DEF Max
<1>4. SubSeq(s, 1, Len(s)) = s
  BY <1>1
<1> QED  BY <1>3, <1>4, Zenon DEF LeadingDigits

NextNumber == [p \in Nat \X Digit |-> p[1] * 10 + p[2] - 48]

LEMMA NumberSteps ==
  ASSUME NEW s \in Digits
  PROVE  \E f : /\ f[0] = 0
                /\ \A n \in 1 .. Len(s) : f[n] = f[n - 1] * 10 + s[n] - 48
                /\ stoull(s) = f[Len(s)]
<1> DEFINE Step(f, t) == IF t = {} THEN 0 ELSE f[t \ {Max(t)}] * 10 + s[Max(t)] - 48
           F == CHOOSE F : F = [t \in SUBSET DOMAIN s |-> Step(F, t)]
<1>1. stoull(s) = F[DOMAIN s]
  <2>1. LeadingDigits(s) = s
    BY DigitsAreLeading
  <2> QED  BY <2>1, Zenon DEF stoull, FoldLeft, MapThenFoldSet
<1>2. /\ s \in Seq(Digit) /\ DOMAIN s = 1 .. Len(s) /\ Len(s) \in Nat
      /\ \A i \in 1 .. Len(s) : s[i] \in Digit
  BY DEF Digits, Strings
<1>3. ASSUME NEW c \in Nat, NEW x \in Digit
      PROVE  NextNumber[<<c, x>>] = c * 10 + x - 48 /\ c * 10 + x - 48 \in Nat
  <2>1. c * 10 + x - 48 \in Nat
    BY DEF Digit
  <2> QED  BY <2>1 DEF NextNumber
<1>4. NextNumber \in [Nat \X Digit -> Nat]
  BY <1>3 DEF NextNumber
<1>5. FoldOver(Nat, Digit, 0, NextNumber, s)
  BY <1>2, <1>4 DEF FoldOver
<1>6. F = [t \in SUBSET DOMAIN s |-> Step(F, t)]
  <2>1. PICK f : FoldTable(f, Nat, 0, NextNumber, s)
    <3> HIDE DEF Step, F
    <3> QED  BY <1>5, FoldExists
  <2>2. ASSUME NEW t \in SUBSET DOMAIN s, t # {}
        PROVE  NextNumber[<<f[t \ {Max(t)}], s[Max(t)]>>]
                 = f[t \ {Max(t)}] * 10 + s[Max(t)] - 48
    <3>1. Max(t) \in 1 .. Len(s)
      BY <1>2, <2>2, MaxOfNumbers
    <3>2. f[t \ {Max(t)}] \in Nat
      BY <2>1 DEF FoldTable
    <3> QED  BY <1>2, <1>3, <3>1, <3>2
  <2>3. f = [t \in SUBSET DOMAIN s |-> Step(f, t)]
    BY <2>1, <2>2 DEF FoldTable
  <2> HIDE DEF Step
  <2> QED  BY <2>3, Zenon
<1> HIDE DEF F
<1> DEFINE number == [n \in 0 .. Len(s) |-> F[1 .. n]]
<1>7. number[0] = 0
  <2>1. 1 .. 0 = {}
    OBVIOUS
  <2> QED  BY <1>2, <1>6, <2>1
<1>8. ASSUME NEW n \in 1 .. Len(s)
      PROVE  number[n] = number[n - 1] * 10 + s[n] - 48
  <2>1. n \in Nat \ {0} /\ 1 .. n \subseteq 1 .. Len(s) /\ n \in 1 .. n
    BY <1>2
  <2>2. Max(1 .. n) = n /\ (1 .. n) \ {Max(1 .. n)} = 1 .. n - 1
    BY <2>1, MaxOfInterval
  <2>3. F[1 .. n] = F[1 .. n - 1] * 10 + s[n] - 48
    BY <1>2, <1>6, <2>1, <2>2
  <2> QED  BY <1>2, <2>3
<1>9. number[Len(s)] = F[DOMAIN s]
  BY <1>2
<1> HIDE DEF number
<1> QED  BY <1>1, <1>7, <1>8, <1>9

LEMMA OneMoreDigit ==
  ASSUME NEW s \in Digits, NEW x \in Digit
  PROVE  stoull(Cat(s, One(x))) = stoull(s) * 10 + x - 48
<1> DEFINE t == Cat(s, One(x))
<1>1. /\ t \in Digits /\ Len(t) = Len(s) + 1 /\ Len(s) \in Nat
      /\ \A i \in 1 .. Len(s) : t[i] = s[i]
      /\ t[Len(s) + 1] = x
  <2>1. One(x) \in Digits /\ Size(One(x)) = 1 /\ Size(s) \in Nat
    BY OneType, SizeIsNat DEF Digits
  <2>2. t \in Digits /\ Size(t) = Size(s) + 1
    BY <2>1, CatType DEF Digits
  <2>3. t[Size(s) + 1] = x
    BY ElementAfter DEF Digits
  <2>4. ASSUME NEW i \in 1 .. Size(s) PROVE t[i] = s[i]
    <3>1. i \in Nat /\ 1 <= i /\ i <= Size(s)
      BY <2>1
    <3> QED  BY <2>1, <3>1, ElementInFront DEF Digits
  <2> QED  BY <2>1, <2>2, <2>3, <2>4 DEF Size
<1> HIDE DEF t
<1>2. PICK f : /\ f[0] = 0
               /\ \A n \in 1 .. Len(s) : f[n] = f[n - 1] * 10 + s[n] - 48
               /\ stoull(s) = f[Len(s)]
  BY NumberSteps
<1>3. PICK g : /\ g[0] = 0
               /\ \A n \in 1 .. Len(t) : g[n] = g[n - 1] * 10 + t[n] - 48
               /\ stoull(t) = g[Len(t)]
  BY <1>1, NumberSteps
<1> DEFINE T == {n \in Nat : n <= Len(s) => f[n] = g[n]}
<1>4. 0 \in T
  BY <1>2, <1>3
<1>5. ASSUME NEW n \in Nat, n \in T PROVE n + 1 \in T
  <2> SUFFICES ASSUME n + 1 <= Len(s) PROVE f[n + 1] = g[n + 1]
    OBVIOUS
  <2>1. n + 1 \in 1 .. Len(s) /\ n + 1 \in 1 .. Len(t) /\ (n + 1) - 1 = n /\ n <= Len(s)
    BY <1>1
  <2>2. f[n] = g[n] /\ s[n + 1] = t[n + 1]
    BY <1>1, <1>5, <2>1
  <2> QED  BY <1>2, <1>3, <2>1, <2>2
<1>6. f[Len(s)] = g[Len(s)]
  <2> HIDE DEF T
  <2>1. Nat \subseteq T
    BY <1>4, <1>5, InductionOnNat
  <2> QED  BY <1>1, <2>1 DEF T
<1>7. g[Len(t)] = g[Len(s)] * 10 + x - 48
  <2>1. Len(t) \in 1 .. Len(t) /\ Len(t) - 1 = Len(s)
    BY <1>1
  <2> QED  BY <1>1, <1>3, <2>1
<1> QED  BY <1>2, <1>3, <1>6, <1>7 DEF t

(* What stands for std::stoull reads the digits of a number back; from 2^64 *)
(* on std::stoull throws instead, and nothing is loaded.                    *)
LEMMA NumberIsReadBack ==
  ASSUME NEW n \in Nat
  PROVE  stoull(Decimal[n]) = n
<1> DEFINE T == {k \in Nat : \A m \in Nat : m < k => stoull(Decimal[m]) = m}
<1>1. 0 \in T
  OBVIOUS
<1>2. ASSUME NEW k \in Nat, k \in T PROVE k + 1 \in T
  <2>1. stoull(Decimal[k]) = k
    <3>1. CASE k < 10
      <4>1. 48 + k \in Digit /\ None \in Digits
        BY <3>1, NoneType DEF Digit, Digits
      <4>2. Decimal[k] = Cat(None, One(48 + k))
        <5>1. One(48 + k) \in Strings(Digit)
          BY <4>1, OneType
        <5>2. Cat(None, One(48 + k)) = One(48 + k)
          BY <5>1, CatNone
        <5> QED  BY <3>1, <5>2, DecimalIs
      <4>3. stoull(None) = 0
        <5>1. PICK f : f[0] = 0 /\ stoull(None) = f[Len(None)]
          BY <4>1, NumberSteps
        <5>2. Len(None) = 0
          BY DEF None
        <5> QED  BY <5>1, <5>2
      <4>4. stoull(Cat(None, One(48 + k))) = stoull(None) * 10 + (48 + k) - 48
        BY <4>1, OneMoreDigit
      <4> QED  BY <4>2, <4>3, <4>4
    <3>2. CASE k >= 10
      <4> DEFINE q == k \div 10
                 r == k % 10
      <4>1. q \in Nat /\ r \in 0 .. 9 /\ k = q * 10 + r /\ q < k
        BY <3>2
      <4>2. Decimal[k] = Cat(Decimal[q], One(48 + r))
        BY <3>2, DecimalIs
      <4> HIDE DEF q, r
      <4>3. stoull(Decimal[q]) = q
        BY <1>2, <4>1
      <4>4. 48 + r \in Digit /\ Decimal[q] \in Digits
        BY <4>1, DecimalIs DEF Digit
      <4>5. stoull(Decimal[k]) = q * 10 + (48 + r) - 48
        BY <4>2, <4>3, <4>4, OneMoreDigit
      <4> QED  BY <4>1, <4>5
    <3> QED  BY <3>1, <3>2
  <2> QED  BY <1>2, <2>1
<1>3. n + 1 \in T
  <2> HIDE DEF T
  <2> QED  BY <1>1, <1>2, InductionOnNat
<1> QED  BY <1>3

-----------------------------------------------------------------------------
(* The text of a document is made of the texts of those in it.              *)
Enclosed(mark, text) == Cat(One(mark), Cat(text, One(End)))

ListParts(f, s) == [k \in DOMAIN s |-> f[s[k]]]

EntryParts(f, s) == [k \in DOMAIN s |-> Cat(EncodeString(One(s[k][1])), f[s[k][2]])]

LEMMA EnclosedType ==
  ASSUME NEW mark \in Nat, NEW text \in Text
  PROVE  /\ Enclosed(mark, text) \in Text
         /\ Enclosed(mark, text) = (<<mark>> \o text) \o <<End>>
<1>1. One(mark) \in Strings(Nat) /\ One(End) \in Strings(Nat) /\ text \in Strings(Nat)
  BY OneType, TextIs DEF End
<1>2. Cat(text, One(End)) \in Strings(Nat)
  BY <1>1, CatType
<1>3. Enclosed(mark, text) \in Text
  BY <1>1, <1>2, CatType, TextIs DEF Enclosed
<1>4. Enclosed(mark, text) = Cat(Cat(One(mark), text), One(End))
  BY <1>1, CatAssociates DEF Enclosed
<1> QED  BY <1>3, <1>4, Zenon DEF Cat, One

LEMMA EncodeStringIs ==
  ASSUME NEW b \in Text
  PROVE  /\ EncodeString(b) \in Text
         /\ EncodeString(b) = Cat(Decimal[Size(b)], Cat(One(Colon), b))
<1>1. Size(b) \in Nat
  BY SizeIsNat, TextIs
<1>2. Decimal[Size(b)] \in Strings(Nat) /\ One(Colon) \in Strings(Nat) /\ b \in Strings(Nat)
  BY <1>1, DecimalType, OneType, TextIs DEF Colon
<1>3. Cat(One(Colon), b) \in Strings(Nat)
  BY <1>2, CatType
<1>4. Cat(Decimal[Size(b)], Cat(One(Colon), b)) \in Text
  BY <1>2, <1>3, CatType, TextIs
<1>5. Cat(Decimal[Size(b)], Cat(One(Colon), b)) = Cat(Cat(Decimal[Size(b)], One(Colon)), b)
  BY <1>2, CatAssociates
<1>6. EncodeString(b) = Cat(Cat(Decimal[Size(b)], One(Colon)), b)
  BY Zenon DEF EncodeString, Cat, One, Size
<1> QED  BY <1>4, <1>5, <1>6

LEMMA KindsAre ==
  ASSUME NEW c
  PROVE  /\ Kind(Number(c)) = "number" /\ Content(Number(c)) = c
         /\ Kind(String(c)) = "string" /\ Content(String(c)) = c
         /\ Kind(ListOf(c)) = "list" /\ Content(ListOf(c)) = c
         /\ Kind(Dictionary(c)) = "dictionary" /\ Content(Dictionary(c)) = c
BY DEF Kind, Content, Number, String, ListOf, Dictionary

LEMMA NumberBody ==
  ASSUME NEW f, NEW n \in Nat
  PROVE  /\ EncodeBody(f, Number(n)) = Enclosed(Integer, Decimal[n])
         /\ EncodeBody(f, Number(n)) \in Text
<1>1. EncodeBody(f, Number(n)) = (<<Integer>> \o Decimal[n]) \o <<End>>
  BY KindsAre DEF EncodeBody
<1>2. Integer \in Nat /\ Decimal[n] \in Text
  BY DecimalType, TextIs DEF Integer
<1> DEFINE t == Decimal[n]
<1> HIDE DEF t
<1>3. Enclosed(Integer, t) = (<<Integer>> \o t) \o <<End>> /\ Enclosed(Integer, t) \in Text
  BY <1>2, EnclosedType DEF t
<1> QED  BY <1>1, <1>3 DEF t

LEMMA StringBody ==
  ASSUME NEW f, NEW b
  PROVE  EncodeBody(f, String(b)) = EncodeString(b)
BY KindsAre DEF EncodeBody

LEMMA ListBodyIs ==
  ASSUME NEW f, NEW s
  PROVE  EncodeBody(f, ListOf(s)) = (<<List>> \o FlattenSeq(ListParts(f, s))) \o <<End>>
BY KindsAre DEF EncodeBody, ListParts

LEMMA ListBody ==
  ASSUME NEW f, NEW s, FlattenSeq(ListParts(f, s)) \in Text
  PROVE  /\ EncodeBody(f, ListOf(s)) = Enclosed(List, FlattenSeq(ListParts(f, s)))
         /\ EncodeBody(f, ListOf(s)) \in Text
<1>1. EncodeBody(f, ListOf(s)) = (<<List>> \o FlattenSeq(ListParts(f, s))) \o <<End>>
  BY ListBodyIs
<1> DEFINE t == FlattenSeq(ListParts(f, s))
<1>2. List \in Nat /\ t \in Text
  BY DEF List
<1> HIDE DEF t
<1>3. Enclosed(List, t) = (<<List>> \o t) \o <<End>> /\ Enclosed(List, t) \in Text
  BY <1>2, EnclosedType
<1> QED  BY <1>1, <1>3 DEF t

LEMMA DictionaryBodyIs ==
  ASSUME NEW f, NEW s
  PROVE  EncodeBody(f, Dictionary(s)) = (<<Dict>> \o FlattenSeq(EntryParts(f, s))) \o <<End>>
<1>1. EncodeBody(f, Dictionary(s)) =
        (<<Dict>> \o FlattenSeq([k \in DOMAIN s |-> EncodeString(<<s[k][1]>>) \o f[s[k][2]]]))
           \o <<End>>
  BY KindsAre DEF EncodeBody
<1> QED  BY <1>1, Zenon DEF EntryParts, Cat, One

LEMMA DictionaryBody ==
  ASSUME NEW f, NEW s, FlattenSeq(EntryParts(f, s)) \in Text
  PROVE  /\ EncodeBody(f, Dictionary(s)) = Enclosed(Dict, FlattenSeq(EntryParts(f, s)))
         /\ EncodeBody(f, Dictionary(s)) \in Text
<1>1. EncodeBody(f, Dictionary(s)) = (<<Dict>> \o FlattenSeq(EntryParts(f, s))) \o <<End>>
  BY DictionaryBodyIs
<1> DEFINE t == FlattenSeq(EntryParts(f, s))
<1>2. Dict \in Nat /\ t \in Text
  BY DEF Dict
<1> HIDE DEF t
<1>3. Enclosed(Dict, t) = (<<Dict>> \o t) \o <<End>> /\ Enclosed(Dict, t) \in Text
  BY <1>2, EnclosedType
<1> QED  BY <1>1, <1>3 DEF t

LEMMA ListPartsType ==
  ASSUME NEW S, NEW s \in Strings(S), NEW f, \A i \in 1 .. Size(s) : f[s[i]] \in Text
  PROVE  ListParts(f, s) \in Strings(Text) /\ Size(ListParts(f, s)) = Size(s)
<1>1. DOMAIN s = 1 .. Len(s) /\ Len(s) \in Nat
  BY DEF Strings
<1>2. \A i \in 1 .. Len(s) : f[s[i]] \in Text
  BY DEF Size
<1> QED  BY <1>1, <1>2 DEF ListParts, Strings, Size

LEMMA EntryPartsType ==
  ASSUME NEW S, NEW s \in Strings(S), NEW f,
         \A i \in 1 .. Size(s) : s[i][1] \in Nat /\ f[s[i][2]] \in Text
  PROVE  EntryParts(f, s) \in Strings(Text) /\ Size(EntryParts(f, s)) = Size(s)
<1>1. DOMAIN s = 1 .. Len(s) /\ Len(s) \in Nat
  BY DEF Strings
<1>2. ASSUME NEW i \in 1 .. Len(s)
      PROVE  Cat(EncodeString(One(s[i][1])), f[s[i][2]]) \in Text
  <2>1. s[i][1] \in Nat /\ f[s[i][2]] \in Text
    BY DEF Size
  <2>2. One(s[i][1]) \in Text
    BY <2>1, OneType, TextIs
  <2>3. EncodeString(One(s[i][1])) \in Text
    BY <2>2, EncodeStringIs
  <2> QED  BY <2>1, <2>3, CatType, TextIs
<1> QED  BY <1>1, <1>2 DEF EntryParts, Strings, Size

LEMMA EncodeBodyType ==
  ASSUME NEW f, NEW d \in AllDocuments,
         \A s \in Strings(AllDocuments) : d = ListOf(s) =>
            \A i \in 1 .. Size(s) : f[s[i]] \in Text,
         \A s \in Strings(Nat \X AllDocuments) : d = Dictionary(s) =>
            \A i \in 1 .. Size(s) : f[s[i][2]] \in Text
  PROVE  EncodeBody(f, d) \in Text
<1>1. ASSUME NEW n \in Nat PROVE EncodeBody(f, Number(n)) \in Text
  <2>1. Integer \in Nat /\ Decimal[n] \in Text
    BY DecimalType DEF Integer
  <2> QED  BY <2>1, NumberBody
<1>2. ASSUME NEW b \in Text PROVE EncodeBody(f, String(b)) \in Text
  BY StringBody, EncodeStringIs
<1>3. ASSUME NEW s \in Strings(AllDocuments), d = ListOf(s) PROVE EncodeBody(f, d) \in Text
  <2>1. FlattenSeq(ListParts(f, s)) \in Text
    BY <1>3, ListPartsType, FlattenType
  <2>2. List \in Nat
    BY DEF List
  <2> QED  BY <1>3, <2>1, <2>2, ListBody
<1>4. ASSUME NEW s \in Strings(Nat \X AllDocuments), d = Dictionary(s)
      PROVE  EncodeBody(f, d) \in Text
  <2>1. ASSUME NEW i \in 1 .. Size(s) PROVE s[i][1] \in Nat /\ f[s[i][2]] \in Text
    <3>1. Size(s) \in Nat
      BY SizeIsNat
    <3>2. s[i] \in Nat \X AllDocuments
      BY <3>1, ElementType
    <3> QED  BY <1>4, <3>2
  <2>2. EntryParts(f, s) \in Strings(Text)
    BY <2>1, EntryPartsType
  <2>3. FlattenSeq(EntryParts(f, s)) \in Text /\ Dict \in Nat
    BY <2>2, FlattenType DEF Dict
  <2> QED  BY <1>4, <2>3, DictionaryBody
<1> QED  BY <1>1, <1>2, <1>3, <1>4, DocumentIs

LEMMA EncodeIsBody ==
  \A d \in AllDocuments : Encode[d] = EncodeBody(Encode, d)
<1> DEFINE D == AllDocuments
           body == [p \in [D -> Text] \X D |-> EncodeBody(p[1], p[2])]
           C(f) == [d \in AllDocuments |-> EncodeBody(f, d)]
<1>1. ASSUME NEW f \in [D -> Text], NEW d \in D PROVE EncodeBody(f, d) \in Text
  <2>1. ASSUME NEW s \in Strings(AllDocuments), NEW i \in 1 .. Size(s) PROVE f[s[i]] \in Text
    <3>1. i \in Nat /\ 1 <= i /\ i <= Size(s)
      BY SizeIsNat
    <3> QED  BY <3>1, ElementType
  <2>2. ASSUME NEW s \in Strings(Nat \X AllDocuments), NEW i \in 1 .. Size(s)
        PROVE  f[s[i][2]] \in Text
    <3>1. i \in Nat /\ 1 <= i /\ i <= Size(s)
      BY SizeIsNat
    <3>2. s[i] \in Nat \X AllDocuments
      BY <3>1, ElementType
    <3> QED  BY <3>2
  <2> QED  BY <2>1, <2>2, EncodeBodyType
<1>2. ASSUME NEW f \in [D -> Text], NEW g \in [D -> Text], NEW d \in D, SameInside(f, g, d)
      PROVE  EncodeBody(f, d) = EncodeBody(g, d)
  <2>1. ASSUME NEW s \in Strings(AllDocuments), d = ListOf(s)
        PROVE  EncodeBody(f, d) = EncodeBody(g, d)
    <3>1. \A i \in 1 .. Size(s) : f[s[i]] = g[s[i]]
      BY <1>2, <2>1 DEF SameInside
    <3>2. DOMAIN s = 1 .. Size(s)
      BY DEF Strings, Size
    <3>3. ListParts(f, s) = ListParts(g, s)
      BY <3>1, <3>2 DEF ListParts
    <3> QED  BY <2>1, <3>3, ListBodyIs
  <2>2. ASSUME NEW s \in Strings(Nat \X AllDocuments), d = Dictionary(s)
        PROVE  EncodeBody(f, d) = EncodeBody(g, d)
    <3>1. \A i \in 1 .. Size(s) : f[s[i][2]] = g[s[i][2]]
      BY <1>2, <2>2 DEF SameInside
    <3>2. DOMAIN s = 1 .. Size(s)
      BY DEF Strings, Size
    <3>3. EntryParts(f, s) = EntryParts(g, s)
      BY <3>1, <3>2 DEF EntryParts
    <3> QED  BY <2>2, <3>3, DictionaryBodyIs
  <2>3. ASSUME NEW n \in Nat, d = Number(n) PROVE EncodeBody(f, d) = EncodeBody(g, d)
    BY <2>3, NumberBody
  <2>4. ASSUME NEW b \in Text, d = String(b) PROVE EncodeBody(f, d) = EncodeBody(g, d)
    BY <2>4, StringBody
  <2> QED  BY <2>1, <2>2, <2>3, <2>4, DocumentIs
<1>3. body \in [[D -> Text] \X D -> Text]
  <2> HIDE DEF D
  <2> QED  BY <1>1
<1>4. Text # {}
  BY NoneType, TextIs
<1>5. ASSUME NEW f \in [D -> Text], NEW g \in [D -> Text], NEW d \in D, SameInside(f, g, d)
      PROVE  body[<<f, d>>] = body[<<g, d>>]
  <2>1. EncodeBody(f, d) = EncodeBody(g, d)
    BY <1>2, <1>5
  <2> HIDE DEF D
  <2> QED  BY <2>1
<1>6. PICK f \in [D -> Text] : \A d \in D : f[d] = body[<<f, d>>]
  <2>1. body \in [[AllDocuments -> Text] \X AllDocuments -> Text]
    BY <1>3
  <2>2. \A f, g \in [AllDocuments -> Text], d \in AllDocuments :
          SameInside(f, g, d) => body[<<f, d>>] = body[<<g, d>>]
    BY <1>5
  <2>3. DocumentBody(Text, body)
    <3> HIDE DEF body
    <3> QED  BY <1>4, <2>1, <2>2 DEF DocumentBody
  <2> HIDE DEF body
  <2>4. \E f \in [AllDocuments -> Text] : \A d \in AllDocuments : f[d] = body[<<f, d>>]
    BY <2>3, DocumentRecursion
  <2> QED  BY <2>4
<1>7. f = C(f)
  <2> HIDE DEF D
  <2>1. \A d \in D : f[d] = EncodeBody(f, d)
    BY <1>6
  <2>2. f = [d \in D |-> EncodeBody(f, d)]
    BY <2>1
  <2> QED  BY <2>2, Zenon DEF D
<1>8. Encode = CHOOSE g : g = C(g)
  BY Zenon DEF Encode
<1>9. Encode = C(Encode)
  <2> HIDE DEF C
  <2> QED  BY <1>7, <1>8, Zenon
<1> QED  BY <1>9, Zenon

LEMMA EncodeType == \A d \in AllDocuments : Encode[d] \in Text
<1> DEFINE T == {d \in AllDocuments : Encode[d] \in Text}
<1>1. \A n \in Nat : Number(n) \in AllDocuments
  BY LeavesAreDocuments DEF LeafDocuments
<1>2. \A b \in Text : String(b) \in AllDocuments
  BY LeavesAreDocuments DEF LeafDocuments
<1>3. ASSUME NEW n \in Nat PROVE Number(n) \in T
  <2>1. Integer \in Nat /\ Decimal[n] \in Text
    BY DecimalType DEF Integer
  <2>2. EncodeBody(Encode, Number(n)) \in Text
    BY <2>1, NumberBody
  <2> QED  BY <1>1, <2>2, EncodeIsBody
<1>4. ASSUME NEW b \in Text PROVE String(b) \in T
  BY <1>2, EncodeIsBody, StringBody, EncodeStringIs
<1>5. ASSUME NEW s \in Strings(AllDocuments), ListOf(s) \in AllDocuments,
             \A i \in 1 .. Size(s) : s[i] \in T
      PROVE  ListOf(s) \in T
  <2>1. FlattenSeq(ListParts(Encode, s)) \in Text /\ List \in Nat
    BY <1>5, ListPartsType, FlattenType DEF List
  <2>2. EncodeBody(Encode, ListOf(s)) \in Text
    BY <2>1, ListBody
  <2> QED  BY <1>5, <2>2, EncodeIsBody
<1>6. ASSUME NEW s \in Strings(Nat \X AllDocuments), Dictionary(s) \in AllDocuments,
             \A i \in 1 .. Size(s) : s[i][2] \in T
      PROVE  Dictionary(s) \in T
  <2>1. ASSUME NEW i \in 1 .. Size(s) PROVE s[i][1] \in Nat /\ Encode[s[i][2]] \in Text
    <3>1. Size(s) \in Nat
      BY SizeIsNat
    <3>2. s[i] \in Nat \X AllDocuments
      BY <3>1, ElementType
    <3> QED  BY <1>6, <3>2
  <2>2. FlattenSeq(EntryParts(Encode, s)) \in Text /\ Dict \in Nat
    BY <2>1, EntryPartsType, FlattenType DEF Dict
  <2>3. EncodeBody(Encode, Dictionary(s)) \in Text
    BY <2>2, DictionaryBody
  <2> QED  BY <1>6, <2>3, EncodeIsBody
<1>7. AllDocuments \subseteq T
  <2> HIDE DEF T
  <2> QED  BY <1>3, <1>4, <1>5, <1>6, DocumentInduction
<1> QED  BY <1>7

(* What documents are written as.                                           *)
LEMMA NumberIsWritten ==
  ASSUME NEW n \in Nat
  PROVE  Encode[Number(n)] = Enclosed(Integer, Decimal[n])
<1>1. Number(n) \in AllDocuments
  BY LeavesAreDocuments DEF LeafDocuments
<1> QED  BY <1>1, EncodeIsBody, NumberBody

LEMMA StringIsWritten ==
  ASSUME NEW b \in Text
  PROVE  Encode[String(b)] = EncodeString(b)
<1>1. String(b) \in AllDocuments
  BY LeavesAreDocuments DEF LeafDocuments
<1> QED  BY <1>1, EncodeIsBody, StringBody

LEMMA ListIsWritten ==
  ASSUME NEW s, ListOf(s) \in AllDocuments
  PROVE  /\ s \in Strings(AllDocuments)
         /\ ListParts(Encode, s) \in Strings(Text) /\ Size(ListParts(Encode, s)) = Size(s)
         /\ Encode[ListOf(s)] = Enclosed(List, FlattenSeq(ListParts(Encode, s)))
<1>1. s \in Strings(AllDocuments) /\ \A i \in 1 .. Size(s) : s[i] \in AllDocuments
  BY DepthExists DEF IsDepth
<1>2. ListParts(Encode, s) \in Strings(Text) /\ Size(ListParts(Encode, s)) = Size(s)
  BY <1>1, EncodeType, ListPartsType
<1>3. FlattenSeq(ListParts(Encode, s)) \in Text /\ List \in Nat
  BY <1>2, FlattenType DEF List
<1> QED  BY <1>1, <1>2, <1>3, EncodeIsBody, ListBody

LEMMA DictionaryIsWritten ==
  ASSUME NEW s, Dictionary(s) \in AllDocuments
  PROVE  /\ s \in Strings(Nat \X AllDocuments)
         /\ EntryParts(Encode, s) \in Strings(Text) /\ Size(EntryParts(Encode, s)) = Size(s)
         /\ Encode[Dictionary(s)] = Enclosed(Dict, FlattenSeq(EntryParts(Encode, s)))
<1>1. s \in Strings(Nat \X AllDocuments)
      /\ \A i \in 1 .. Size(s) : s[i] \in Nat \X AllDocuments
  BY DepthExists DEF IsDepth
<1>2. ASSUME NEW i \in 1 .. Size(s) PROVE s[i][1] \in Nat /\ Encode[s[i][2]] \in Text
  <2>1. s[i] \in Nat \X AllDocuments
    BY <1>1
  <2> QED  BY <2>1, EncodeType
<1>3. EntryParts(Encode, s) \in Strings(Text) /\ Size(EntryParts(Encode, s)) = Size(s)
  BY <1>1, <1>2, EntryPartsType
<1>4. FlattenSeq(EntryParts(Encode, s)) \in Text /\ Dict \in Nat
  BY <1>3, FlattenType DEF Dict
<1> QED  BY <1>1, <1>3, <1>4, EncodeIsBody, DictionaryBody

-----------------------------------------------------------------------------
(* The parser is defined for every call: its functions call each other with *)
(* less of the text before them.                                            *)
Logs == Seq(Text \X Text)

Sections == Int \X Int

StateAt(index, log, section, value) ==
  [index |-> index, info_dict |-> log, info_section |-> section, value |-> value, ok |-> TRUE]

LEMMA StateIs ==
  ASSUME NEW index \in Nat \ {0}, NEW log \in Logs, NEW section \in Sections,
         NEW value \in Text
  PROVE  /\ StateAt(index, log, section, value) \in ParseState
         /\ StateAt(index, log, section, value).index = index
         /\ StateAt(index, log, section, value).info_dict = log
         /\ StateAt(index, log, section, value).info_section = section
         /\ StateAt(index, log, section, value).value = value
         /\ StateAt(index, log, section, value).ok
BY DEF StateAt, ParseState, Logs, Sections

LEMMA StateParts ==
  ASSUME NEW state \in ParseState
  PROVE  /\ state.index \in Nat \ {0} /\ state.info_dict \in Logs
         /\ state.info_section \in Sections /\ state.value \in Text /\ state.ok \in BOOLEAN
         /\ state.ok => state = StateAt(state.index, state.info_dict, state.info_section,
                                        state.value)
BY DEF StateAt, ParseState, Logs, Sections

LEMMA StateChanges ==
  ASSUME NEW state \in ParseState
  PROVE  /\ Throw(state) \in ParseState /\ Throw(state).ok = FALSE
         /\ Throw(state).index = state.index
         /\ \A i \in Nat \ {0} :
              /\ [state EXCEPT !.index = i] \in ParseState
              /\ [state EXCEPT !.index = i].index = i
              /\ [state EXCEPT !.index = i].ok = state.ok
         /\ \A v \in Text, i \in Nat \ {0} :
              [state EXCEPT !.value = v, !.index = i] \in ParseState
         /\ \A v \in Text, i \in Nat \ {0} :
              [state EXCEPT !.index = i, !.value = v] \in ParseState
         /\ \A s \in Sections : [state EXCEPT !.info_section = s] \in ParseState
         /\ \A l \in Logs : [state EXCEPT !.info_dict = l] \in ParseState
BY DEF ParseState, Logs, Sections, Throw

LEMMA SubTextType ==
  ASSUME NEW text \in Text, NEW a \in Int, NEW b \in Int, 1 <= a, b <= Len(text)
  PROVE  SubSeq(text, a, b) \in Text
BY DEF Text

LEMMA MinOfPlaces ==
  ASSUME NEW n \in Nat, NEW t \in SUBSET (1 .. n), t # {}
  PROVE  Min(t) \in t /\ \A x \in t : Min(t) <= x
<1>1. t \in SUBSET Nat
  OBVIOUS
<1>2. \E m \in t : \A k \in t : m <= k
  BY <1>1, LeastNat
<1> QED  BY <1>2 DEF Min

LEMMA FixedAmountType ==
  ASSUME NEW text \in Text, NEW state \in ParseState, NEW amount \in Nat
  PROVE  ReadFixedAmount(text, state, amount) \in ParseState
<1>1. state.index \in Nat \ {0} /\ Len(text) \in Nat
  BY StateParts DEF Text
<1>2. CASE state.index - 1 + amount > Len(text)
  BY <1>2, StateChanges DEF ReadFixedAmount
<1>3. CASE ~(state.index - 1 + amount > Len(text))
  <2>1. SubSeq(text, state.index, state.index + amount - 1) \in Text
    BY <1>1, <1>3, SubTextType
  <2>2. state.index + amount \in Nat \ {0}
    BY <1>1
  <2> QED  BY <1>3, <2>1, <2>2, StateChanges DEF ReadFixedAmount
<1> QED  BY <1>2, <1>3

LEMMA DelimiterType ==
  ASSUME NEW text \in Text, NEW state \in ParseState, NEW delimiter \in Nat
  PROVE  ReadUntilDelimiter(text, state, delimiter) \in ParseState
<1> DEFINE found == {k \in state.index .. Len(text) : text[k] = delimiter}
<1>1. state.index \in Nat \ {0} /\ Len(text) \in Nat
  BY StateParts DEF Text
<1>2. CASE found = {}
  BY <1>2, StateChanges DEF ReadUntilDelimiter
<1>3. CASE found # {}
  <2>1. Min(found) \in found
    <3>1. found \in SUBSET (1 .. Len(text))
      BY <1>1
    <3> HIDE DEF found
    <3> QED  BY <1>1, <1>3, <3>1, MinOfPlaces
  <2>2. Min(found) \in Nat /\ state.index <= Min(found) /\ Min(found) <= Len(text)
    BY <1>1, <2>1
  <2>3. ReadUntilDelimiter(text, state, delimiter)
          = [state EXCEPT !.value = SubSeq(text, state.index, Min(found) - 1),
                          !.index = Min(found) + 1]
    BY <1>3, Zenon DEF ReadUntilDelimiter
  <2> HIDE DEF found
  <2>4. SubSeq(text, state.index, Min(found) - 1) \in Text
    BY <1>1, <2>2, SubTextType
  <2>5. Min(found) + 1 \in Nat \ {0}
    BY <2>2
  <2> DEFINE v == SubSeq(text, state.index, Min(found) - 1)
             i == Min(found) + 1
  <2>6. [state EXCEPT !.value = v, !.index = i] \in ParseState
    <3>1. v \in Text /\ i \in Nat \ {0}
      BY <2>4, <2>5
    <3> HIDE DEF v, i
    <3> QED  BY <3>1, StateChanges
  <2> QED  BY <2>3, <2>6
<1> QED  BY <1>2, <1>3

LEMMA NumberIsNat ==
  ASSUME NEW s \in Text
  PROVE  stoull(s) \in Nat
<1> DEFINE S == {n \in 0 .. Len(s) : \A k \in 1 .. n : s[k] \in Digit}
           t == LeadingDigits(s)
<1>1. s \in Seq(Nat) /\ Len(s) \in Nat
  BY DEF Text
<1>2. Max(S) \in S
  <2> DEFINE P == {n \in 1 .. Len(s) : \A k \in 1 .. n : s[k] \in Digit}
  <2>1. S = {0} \cup P /\ P \in SUBSET (1 .. Len(s))
    BY <1>1
  <2>2. \E m \in S : \A k \in S : k <= m
    <3>1. CASE P = {}
      <4>1. S = {0}
        BY <2>1, <3>1
      <4> HIDE DEF S
      <4> QED  BY <4>1
    <3>2. CASE P # {}
      <4> HIDE DEF P, S
      <4>1. Max(P) \in P /\ \A x \in P : x <= Max(P)
        BY <1>1, <2>1, <3>2, MaxOfNumbers
      <4>2. Max(P) \in S
        BY <2>1, <4>1
      <4>3. Max(P) \in 1 .. Len(s)
        BY <2>1, <4>1
      <4>4. 0 <= Max(P)
        BY <1>1, <4>3
      <4> QED  BY <2>1, <4>1, <4>2, <4>4
    <3> QED  BY <3>1, <3>2
  <2> HIDE DEF S
  <2> QED  BY <2>2 DEF Max
<1>3. t \in Digits
  <2>1. t = SubSeq(s, 1, Max(S))
    BY Zenon DEF LeadingDigits
  <2>2. Max(S) \in 0 .. Len(s) /\ \A k \in 1 .. Max(S) : s[k] \in Digit
    BY <1>2
  <2> HIDE DEF S
  <2>3. SubSeq(s, 1, Max(S)) \in Seq(Digit)
    BY <1>1, <2>2
  <2> QED  BY <2>1, <2>3 DEF Digits, Strings
<1>4. stoull(s) = stoull(t)
  <2>1. LeadingDigits(t) = t
    BY <1>3, DigitsAreLeading
  <2> QED  BY <2>1, Zenon DEF stoull
<1> HIDE DEF t
<1>5. PICK f : /\ f[0] = 0
               /\ \A n \in 1 .. Len(t) : f[n] = f[n - 1] * 10 + t[n] - 48
               /\ stoull(t) = f[Len(t)]
  BY <1>3, NumberSteps
<1>6. Len(t) \in Nat /\ \A n \in 1 .. Len(t) : t[n] \in 48 .. 57
  BY <1>3 DEF Digits, Strings, Digit
<1> DEFINE T == {n \in Nat : n <= Len(t) => f[n] \in Nat}
<1>7. 0 \in T
  BY <1>5
<1>8. ASSUME NEW n \in Nat, n \in T PROVE n + 1 \in T
  <2> SUFFICES ASSUME n + 1 <= Len(t) PROVE f[n + 1] \in Nat
    OBVIOUS
  <2>1. n + 1 \in 1 .. Len(t) /\ (n + 1) - 1 = n /\ f[n] \in Nat
    BY <1>6, <1>8
  <2>2. f[n + 1] = f[n] * 10 + t[n + 1] - 48 /\ t[n + 1] \in 48 .. 57
    BY <1>5, <1>6, <2>1
  <2>3. \A a \in Nat, x \in 48 .. 57 : a * 10 + x - 48 \in Nat
    OBVIOUS
  <2> QED  BY <2>1, <2>2, <2>3
<1>9. Len(t) \in T
  <2> HIDE DEF T
  <2> QED  BY <1>6, <1>7, <1>8, InductionOnNat
<1> QED  BY <1>4, <1>5, <1>6, <1>9

Left(text, state) ==
  IF AtEnd(text, state) THEN 0 ELSE Len(text) + 1 - state.index

SizeOf(call) ==
  2 * Left(call.text, call.state) + IF call.function = "Process" THEN 0 ELSE 1

Functions == {"Process", "ProcessDict", "ProcessList"}

LEMMA CallIs ==
  ASSUME NEW function \in Functions, NEW text \in Text, NEW state \in ParseState,
         NEW locals \in Locals
  PROVE  /\ CallOf(function, text, state, locals) \in Call
         /\ CallOf(function, text, state, locals).function = function
         /\ CallOf(function, text, state, locals).text = text
         /\ CallOf(function, text, state, locals).state = state
         /\ CallOf(function, text, state, locals).locals = locals
BY DEF CallOf, Call, Functions

LEMMA CallParts ==
  ASSUME NEW call \in Call
  PROVE  /\ call.function \in Functions /\ call.text \in Text /\ call.state \in ParseState
         /\ call.locals \in Locals
BY DEF Call, Functions

LEMMA LocalsAre ==
  /\ NewLocals \in Locals
  /\ \A locals \in Locals, state \in ParseState :
       TakeKey(locals, state) \in Locals /\ TakeValue(locals, state) \in Locals
<1>1. NewLocals \in Locals
  BY DEF NewLocals, Locals, Text
<1>2. ASSUME NEW locals \in Locals, NEW state \in ParseState
      PROVE  TakeKey(locals, state) \in Locals /\ TakeValue(locals, state) \in Locals
  <2>1. state.index \in Int /\ state.value \in Text /\ <<InfoKey>> \in Text /\ <<>> \in Text
    BY StateParts DEF InfoKey, Text
  <2> HIDE DEF Text
  <2> DEFINE v == state.value
             i == state.index
             k == <<InfoKey>>
             e == <<>>
  <2>2. v \in Text /\ i \in Int /\ k \in Text /\ e \in Text
    BY <2>1
  <2>3. /\ TakeKey(locals, state) =
             IF v = k
             THEN [locals EXCEPT !.current_key = k, !.start_index = i, !.found_info = TRUE]
             ELSE [locals EXCEPT !.current_key = v]
        /\ TakeValue(locals, state) =
             [locals EXCEPT !.current_key = e, !.found_info = FALSE,
                 !.end_index = IF locals.found_info THEN i ELSE @]
    BY DEF TakeKey, TakeValue
  <2> HIDE DEF v, i, k, e
  <2>4. /\ [locals EXCEPT !.current_key = k, !.start_index = i, !.found_info = TRUE] \in Locals
        /\ [locals EXCEPT !.current_key = v] \in Locals
        /\ [locals EXCEPT !.current_key = e, !.found_info = FALSE,
              !.end_index = IF locals.found_info THEN i ELSE @] \in Locals
    BY <2>2 DEF Locals
  <2> QED  BY <2>3, <2>4
<1> QED  BY <1>1, <1>2

(* There is less left after a byte, and after what is not empty.            *)
LEMMA LessIsLeft ==
  ASSUME NEW text \in Text, NEW state \in ParseState
  PROVE  /\ Left(text, state) \in Nat
         /\ \A next \in ParseState :
              ~AtEnd(text, state) /\ next.index > state.index =>
                 Left(text, next) < Left(text, state)
<1>1. ASSUME NEW s \in ParseState
      PROVE  s.index \in Nat \ {0}
  BY StateParts
<1>2. Len(text) \in Nat
  BY DEF Text
<1> QED  BY <1>1, <1>2 DEF Left, AtEnd

LEMMA SizeIs ==
  ASSUME NEW function \in Functions, NEW text \in Text, NEW state \in ParseState,
         NEW locals \in Locals
  PROVE  /\ SizeOf(CallOf(function, text, state, locals)) \in Nat
         /\ SizeOf(CallOf(function, text, state, locals)) =
              IF function = "Process" THEN 2 * Left(text, state) ELSE 2 * Left(text, state) + 1
BY CallIs, LessIsLeft DEF SizeOf

LEMMA BegunIs ==
  ASSUME NEW state \in ParseState
  PROVE  /\ [state EXCEPT !.index = @ + 1] \in ParseState
         /\ [state EXCEPT !.index = @ + 1].index = state.index + 1
         /\ state.index + 1 > state.index
<1>1. state.index \in Nat \ {0}
  BY StateParts
<1> QED  BY <1>1 DEF ParseState

LEMMA CloseType ==
  ASSUME NEW text \in Text, NEW state \in ParseState
  PROVE  Close(text, state) \in ParseState
<1>1. state.index + 1 \in Nat \ {0} /\ <<>> \in Text
  BY StateParts DEF Text
<1> DEFINE e == <<>>
<1>2. Close(text, state) = IF AtEnd(text, state) THEN Throw(state)
                           ELSE [state EXCEPT !.index = @ + 1, !.value = e]
  BY DEF Close
<1>3. e \in Text
  BY <1>1
<1> HIDE DEF e
<1>4. [state EXCEPT !.index = @ + 1, !.value = e] \in ParseState
  BY <1>1, <1>3 DEF ParseState
<1>5. Throw(state) \in ParseState
  BY StateChanges
<1> QED  BY <1>2, <1>4, <1>5

LEMMA HashInfoType ==
  ASSUME NEW state \in ParseState, NEW locals \in Locals
  PROVE  HashInfo(state, locals) \in ParseState
<1> DEFINE s == <<locals.start_index, locals.end_index>>
<1>1. s \in Sections
  BY DEF Locals, Sections
<1>2. HashInfo(state, locals) = state
      \/ HashInfo(state, locals) = [state EXCEPT !.info_section = s]
  BY DEF HashInfo
<1> HIDE DEF s
<1>3. [state EXCEPT !.info_section = s] \in ParseState
  BY <1>1, StateChanges
<1> QED  BY <1>2, <1>3

LEMMA SetType ==
  ASSUME NEW state \in ParseState, NEW key \in Text
  PROVE  SetInDict(state, key) \in ParseState /\ SetInDict(state, key).index = state.index
<1> DEFINE l == Append(state.info_dict, <<key, state.value>>)
<1>1. l \in Logs
  BY StateParts DEF Logs
<1>2. SetInDict(state, key) = [state EXCEPT !.info_dict = l]
  BY DEF SetInDict, ParseState
<1> HIDE DEF l
<1>3. [state EXCEPT !.info_dict = l].index = state.index
  BY DEF ParseState
<1>4. [state EXCEPT !.info_dict = l] \in ParseState
  BY <1>1, StateChanges
<1> QED  BY <1>2, <1>3, <1>4

LEMMA ReadOnIs ==
  ASSUME NEW state \in ParseState, NEW next \in ParseState
  PROVE  /\ ReadOn(state, next) \in ParseState
         /\ ReadOn(state, next).ok =>
              ReadOn(state, next) = next /\ next.index > state.index
<1>1. CASE next.index > state.index
  BY <1>1 DEF ReadOn
<1>2. CASE ~(next.index > state.index)
  BY <1>2, StateChanges DEF ReadOn
<1> QED  BY <1>1, <1>2

DictCall(text, state) == CallOf("ProcessDict", text, [state EXCEPT !.index = @ + 1], NewLocals)

ListCall(text, state) == CallOf("ProcessList", text, [state EXCEPT !.index = @ + 1], NewLocals)

(* Process, given what ProcessDict and ProcessList make of a call.          *)
ProcessWith(text, state, dict, list) ==
  LET length == ReadUntilDelimiter(text, state, Colon)
  IN IF ~state.ok \/ AtEnd(text, state) THEN Throw(state)
     ELSE CASE text[state.index] \in Digit   ->
                 IF length.ok
                 THEN ReadFixedAmount(text, length, stoull(length.value))
                 ELSE length
            [] text[state.index] = Integer ->
                 ReadUntilDelimiter(text, [state EXCEPT !.index = @ + 1], End)
            [] text[state.index] = Dict    -> dict
            [] text[state.index] = List    -> list
            [] OTHER                       -> Throw(state)

LEMMA ProcessIs ==
  ASSUME NEW f, NEW text, NEW state
  PROVE  Process(f, text, state)
           = ProcessWith(text, state, f[DictCall(text, state)], f[ListCall(text, state)])
BY Zenon DEF Process, DictCall, ListCall, ProcessWith

LEMMA ProcessType ==
  ASSUME NEW f \in [Call -> ParseState], NEW text \in Text, NEW state \in ParseState
  PROVE  Process(f, text, state) \in ParseState
<1> DEFINE begun == [state EXCEPT !.index = @ + 1]
           length == ReadUntilDelimiter(text, state, Colon)
<1>1. begun \in ParseState /\ NewLocals \in Locals
  BY BegunIs, LocalsAre
<1>2. length \in ParseState
  BY DelimiterType DEF Colon
<1> HIDE DEF length
<1>3. ReadFixedAmount(text, length, stoull(length.value)) \in ParseState
  <2>1. stoull(length.value) \in Nat
    BY <1>2, StateParts, NumberIsNat
  <2> QED  BY <1>2, <2>1, FixedAmountType
<1>4. ReadUntilDelimiter(text, begun, End) \in ParseState
  <2> HIDE DEF begun
  <2> QED  BY <1>1, DelimiterType DEF End
<1>5. DictCall(text, state) \in Call /\ ListCall(text, state) \in Call
  <2>1. "ProcessDict" \in Functions /\ "ProcessList" \in Functions
    BY DEF Functions
  <2> QED  BY <1>1, <2>1, CallIs DEF DictCall, ListCall
<1>6. f[DictCall(text, state)] \in ParseState /\ f[ListCall(text, state)] \in ParseState
  BY <1>5
<1>7. Throw(state) \in ParseState
  BY StateChanges
<1> HIDE DEF begun
<1>8. Process(f, text, state) =
              IF ~state.ok \/ AtEnd(text, state) THEN Throw(state)
              ELSE CASE text[state.index] \in Digit   ->
                          IF length.ok
                          THEN ReadFixedAmount(text, length, stoull(length.value))
                          ELSE length
                     [] text[state.index] = Integer -> ReadUntilDelimiter(text, begun, End)
                     [] text[state.index] = Dict    -> f[DictCall(text, state)]
                     [] text[state.index] = List    -> f[ListCall(text, state)]
                     [] OTHER                       -> Throw(state)
  BY ProcessIs, Zenon DEF length, begun, ProcessWith
<1> QED  BY <1>2, <1>3, <1>4, <1>6, <1>7, <1>8

LEMMA ProcessSame ==
  ASSUME NEW f \in [Call -> ParseState], NEW g,
         NEW text \in Text, NEW state \in ParseState, NEW locals \in Locals,
         \A e \in Call : SizeOf(e) < SizeOf(CallOf("Process", text, state, locals)) => f[e] = g[e]
  PROVE  Process(f, text, state) = Process(g, text, state)
<1>1. CASE ~state.ok \/ AtEnd(text, state)
  BY <1>1, ProcessIs DEF ProcessWith
<1>2. CASE ~(~state.ok \/ AtEnd(text, state))
  <2> DEFINE begun == [state EXCEPT !.index = @ + 1]
  <2>1. begun \in ParseState /\ begun.index > state.index /\ NewLocals \in Locals
    BY BegunIs, LocalsAre
  <2> HIDE DEF begun
  <2>2. Left(text, begun) < Left(text, state) /\ Left(text, begun) \in Nat /\ Left(text, state) \in Nat
    BY <1>2, <2>1, LessIsLeft
  <2>3. "Process" \in Functions /\ "ProcessDict" \in Functions /\ "ProcessList" \in Functions
    BY DEF Functions
  <2>4. SizeOf(CallOf("Process", text, state, locals)) = 2 * Left(text, state)
    BY <2>3, SizeIs
  <2>5. /\ SizeOf(CallOf("ProcessDict", text, begun, NewLocals)) = 2 * Left(text, begun) + 1
        /\ SizeOf(CallOf("ProcessList", text, begun, NewLocals)) = 2 * Left(text, begun) + 1
    BY <2>1, <2>3, SizeIs
  <2>6. /\ CallOf("ProcessDict", text, begun, NewLocals) \in Call
        /\ CallOf("ProcessList", text, begun, NewLocals) \in Call
    BY <2>1, <2>3, CallIs
  <2>7. 2 * Left(text, begun) + 1 < 2 * Left(text, state)
    BY <2>2
  <2>8. /\ f[CallOf("ProcessDict", text, begun, NewLocals)]
             = g[CallOf("ProcessDict", text, begun, NewLocals)]
        /\ f[CallOf("ProcessList", text, begun, NewLocals)]
             = g[CallOf("ProcessList", text, begun, NewLocals)]
    BY <2>4, <2>5, <2>6, <2>7
  <2>9. /\ f[DictCall(text, state)] = g[DictCall(text, state)]
        /\ f[ListCall(text, state)] = g[ListCall(text, state)]
    BY <2>8, Zenon DEF begun, DictCall, ListCall
  <2> QED  BY <2>9, ProcessIs, Zenon
<1> QED  BY <1>1, <1>2

NextCall(text, state) == CallOf("Process", text, state, NewLocals)

KeyCall(text, next, locals) == CallOf("ProcessDict", text, next, TakeKey(locals, next))

ValueCall(text, next, locals) ==
  CallOf("ProcessDict", text, SetInDict(next, locals.current_key), TakeValue(locals, next))

ItemCall(text, next) == CallOf("ProcessList", text, next, NewLocals)

LEMMA LoopCallsAre ==
  ASSUME NEW text \in Text, NEW state \in ParseState, NEW next \in ParseState,
         NEW locals \in Locals
  PROVE  /\ NextCall(text, state) \in Call
         /\ SizeOf(NextCall(text, state)) = 2 * Left(text, state)
         /\ KeyCall(text, next, locals) \in Call
         /\ SizeOf(KeyCall(text, next, locals)) = 2 * Left(text, next) + 1
         /\ ValueCall(text, next, locals) \in Call
         /\ SizeOf(ValueCall(text, next, locals)) = 2 * Left(text, next) + 1
         /\ ItemCall(text, next) \in Call
         /\ SizeOf(ItemCall(text, next)) = 2 * Left(text, next) + 1
<1>1. "Process" \in Functions /\ "ProcessDict" \in Functions /\ "ProcessList" \in Functions
  BY DEF Functions
<1>2. /\ NewLocals \in Locals /\ TakeKey(locals, next) \in Locals
      /\ TakeValue(locals, next) \in Locals
  BY LocalsAre
<1>3. locals.current_key \in Text
  BY DEF Locals
<1> DEFINE set == SetInDict(next, locals.current_key)
<1>4. set \in ParseState /\ set.index = next.index
  BY <1>3, SetType
<1>5. Left(text, set) = Left(text, next)
  BY <1>4 DEF Left, AtEnd
<1> HIDE DEF set
<1>6. /\ NextCall(text, state) \in Call
      /\ SizeOf(NextCall(text, state)) = 2 * Left(text, state)
  BY <1>1, <1>2, CallIs, SizeIs DEF NextCall
<1>7. /\ KeyCall(text, next, locals) \in Call
      /\ SizeOf(KeyCall(text, next, locals)) = 2 * Left(text, next) + 1
  BY <1>1, <1>2, CallIs, SizeIs DEF KeyCall
<1>8. /\ ValueCall(text, next, locals) \in Call
      /\ SizeOf(ValueCall(text, next, locals)) = 2 * Left(text, next) + 1
  <2>1. /\ CallOf("ProcessDict", text, set, TakeValue(locals, next)) \in Call
        /\ SizeOf(CallOf("ProcessDict", text, set, TakeValue(locals, next)))
             = 2 * Left(text, next) + 1
    BY <1>1, <1>2, <1>4, <1>5, CallIs, SizeIs
  <2> QED  BY <2>1 DEF ValueCall, set
<1>9. /\ ItemCall(text, next) \in Call
      /\ SizeOf(ItemCall(text, next)) = 2 * Left(text, next) + 1
  BY <1>1, <1>2, CallIs, SizeIs DEF ItemCall
<1> QED  BY <1>6, <1>7, <1>8, <1>9

LEMMA DictIs ==
  ASSUME NEW f, NEW text, NEW state, NEW locals
  PROVE  LET next == ReadOn(state, f[NextCall(text, state)])
         IN ProcessDict(f, text, state, locals) =
              IF LeavesLoop(text, state) THEN HashInfo(Close(text, state), locals)
              ELSE IF ~next.ok THEN next
              ELSE IF locals.current_key = <<>>
              THEN f[KeyCall(text, next, locals)]
              ELSE f[ValueCall(text, next, locals)]
BY Zenon DEF ProcessDict, NextCall, KeyCall, ValueCall

LEMMA ListIs ==
  ASSUME NEW f, NEW text, NEW state
  PROVE  LET next == ReadOn(state, f[NextCall(text, state)])
         IN ProcessList(f, text, state) =
              IF LeavesLoop(text, state) THEN Close(text, state)
              ELSE IF ~next.ok THEN next
              ELSE f[ItemCall(text, next)]
BY Zenon DEF ProcessList, NextCall, ItemCall

LEMMA LoopsType ==
  ASSUME NEW f \in [Call -> ParseState], NEW text \in Text, NEW state \in ParseState,
         NEW locals \in Locals
  PROVE  /\ ProcessDict(f, text, state, locals) \in ParseState
         /\ ProcessList(f, text, state) \in ParseState
<1> DEFINE next == ReadOn(state, f[NextCall(text, state)])
<1>1. next \in ParseState
  <2>1. f[NextCall(text, state)] \in ParseState
    BY LoopCallsAre
  <2> QED  BY <2>1, ReadOnIs
<1>2. /\ ProcessDict(f, text, state, locals) =
           IF LeavesLoop(text, state) THEN HashInfo(Close(text, state), locals)
           ELSE IF ~next.ok THEN next
           ELSE IF locals.current_key = <<>>
           THEN f[KeyCall(text, next, locals)]
           ELSE f[ValueCall(text, next, locals)]
      /\ ProcessList(f, text, state) =
              IF LeavesLoop(text, state) THEN Close(text, state)
              ELSE IF ~next.ok THEN next
              ELSE f[ItemCall(text, next)]
  BY DictIs, ListIs, Zenon
<1> HIDE DEF next
<1>3. Close(text, state) \in ParseState /\ HashInfo(Close(text, state), locals) \in ParseState
  BY CloseType, HashInfoType
<1>4. /\ f[KeyCall(text, next, locals)] \in ParseState
      /\ f[ValueCall(text, next, locals)] \in ParseState
      /\ f[ItemCall(text, next)] \in ParseState
  BY <1>1, LoopCallsAre
<1> QED  BY <1>1, <1>2, <1>3, <1>4

LEMMA LoopsSame ==
  ASSUME NEW f \in [Call -> ParseState], NEW g,
         NEW text \in Text, NEW state \in ParseState, NEW locals \in Locals,
         \A e \in Call : SizeOf(e) < 2 * Left(text, state) + 1 => f[e] = g[e]
  PROVE  /\ ProcessDict(f, text, state, locals) = ProcessDict(g, text, state, locals)
         /\ ProcessList(f, text, state) = ProcessList(g, text, state)
<1> DEFINE next == ReadOn(state, f[NextCall(text, state)])
<1>1. Left(text, state) \in Nat
  BY LessIsLeft
<1>2. f[NextCall(text, state)] = g[NextCall(text, state)]
      /\ f[NextCall(text, state)] \in ParseState
  <2>1. NextCall(text, state) \in Call /\ SizeOf(NextCall(text, state)) = 2 * Left(text, state)
    BY LoopCallsAre
  <2>2. SizeOf(NextCall(text, state)) < 2 * Left(text, state) + 1
    BY <1>1, <2>1
  <2> QED  BY <2>1, <2>2
<1>3. /\ ProcessDict(f, text, state, locals) =
           IF LeavesLoop(text, state) THEN HashInfo(Close(text, state), locals)
           ELSE IF ~next.ok THEN next
           ELSE IF locals.current_key = <<>>
           THEN f[KeyCall(text, next, locals)]
           ELSE f[ValueCall(text, next, locals)]
      /\ ProcessList(f, text, state) =
              IF LeavesLoop(text, state) THEN Close(text, state)
              ELSE IF ~next.ok THEN next
              ELSE f[ItemCall(text, next)]
  BY DictIs, ListIs, Zenon
<1>4. /\ ProcessDict(g, text, state, locals) =
           IF LeavesLoop(text, state) THEN HashInfo(Close(text, state), locals)
           ELSE IF ~next.ok THEN next
           ELSE IF locals.current_key = <<>>
           THEN g[KeyCall(text, next, locals)]
           ELSE g[ValueCall(text, next, locals)]
      /\ ProcessList(g, text, state) =
              IF LeavesLoop(text, state) THEN Close(text, state)
              ELSE IF ~next.ok THEN next
              ELSE g[ItemCall(text, next)]
  BY <1>2, DictIs, ListIs, Zenon
<1>5. next \in ParseState /\ (next.ok => next.index > state.index)
  BY <1>2, ReadOnIs
<1> HIDE DEF next
<1>6. CASE LeavesLoop(text, state) \/ ~next.ok
  BY <1>3, <1>4, <1>6
<1>7. CASE ~LeavesLoop(text, state) /\ next.ok
  <2>1. Left(text, next) < Left(text, state) /\ Left(text, next) \in Nat
    BY <1>5, <1>7, LessIsLeft DEF LeavesLoop
  <2>2. 2 * Left(text, next) + 1 < 2 * Left(text, state) + 1
    BY <1>1, <2>1
  <2>3. /\ f[KeyCall(text, next, locals)] = g[KeyCall(text, next, locals)]
        /\ f[ValueCall(text, next, locals)] = g[ValueCall(text, next, locals)]
        /\ f[ItemCall(text, next)] = g[ItemCall(text, next)]
    BY <1>5, <2>2, LoopCallsAre
  <2> QED  BY <1>3, <1>4, <2>3
<1> QED  BY <1>6, <1>7

LEMMA ParserIsBody ==
  /\ Parser \in [Call -> ParseState]
  /\ \A call \in Call : Parser[call] = ParserBody(Parser, call)
<1> DEFINE R == ParseState
           body == [p \in [Call -> R] \X Call |-> ParserBody(p[1], p[2])]
           size == [call \in Call |-> SizeOf(call)]
           C(f) == [call \in Call |-> ParserBody(f, call)]
<1>1. ASSUME NEW call \in Call
      PROVE  /\ call.function = "Process" \/ call.function = "ProcessDict"
                  \/ call.function = "ProcessList"
             /\ call.text \in Text /\ call.state \in ParseState /\ call.locals \in Locals
             /\ SizeOf(call) \in Nat
             /\ call.function = "Process" =>
                  SizeOf(CallOf("Process", call.text, call.state, call.locals)) = SizeOf(call)
             /\ call.function # "Process" =>
                  SizeOf(call) = 2 * Left(call.text, call.state) + 1
  <2>1. call.text \in Text /\ call.state \in ParseState /\ call.locals \in Locals
    BY CallParts
  <2>2. call.function \in Functions
    BY CallParts
  <2>3. Left(call.text, call.state) \in Nat
    BY <2>1, LessIsLeft
  <2>4. call.function = "Process" =>
          SizeOf(CallOf("Process", call.text, call.state, call.locals)) = SizeOf(call)
    BY <2>1, <2>2, SizeIs DEF SizeOf
  <2> QED  BY <2>1, <2>2, <2>3, <2>4 DEF Functions, SizeOf
<1>2. ASSUME NEW f \in [Call -> R], NEW call \in Call PROVE ParserBody(f, call) \in R
  <2>1. /\ Process(f, call.text, call.state) \in R
        /\ ProcessDict(f, call.text, call.state, call.locals) \in R
        /\ ProcessList(f, call.text, call.state) \in R
    BY <1>1, ProcessType, LoopsType
  <2> QED  BY <1>1, <2>1 DEF ParserBody
<1>3. ASSUME NEW f \in [Call -> R], NEW g, NEW call \in Call,
             \A e \in Call : SizeOf(e) < SizeOf(call) => f[e] = g[e]
      PROVE  ParserBody(f, call) = ParserBody(g, call)
  <2>1. CASE call.function = "Process"
    <3>1. Process(f, call.text, call.state) = Process(g, call.text, call.state)
      BY <1>1, <1>3, <2>1, ProcessSame
    <3> QED  BY <2>1, <3>1 DEF ParserBody
  <2>2. CASE call.function # "Process"
    <3>1. /\ ProcessDict(f, call.text, call.state, call.locals)
               = ProcessDict(g, call.text, call.state, call.locals)
          /\ ProcessList(f, call.text, call.state) = ProcessList(g, call.text, call.state)
      BY <1>1, <1>3, <2>2, LoopsSame
    <3> QED  BY <1>1, <2>2, <3>1 DEF ParserBody
  <2> QED  BY <2>1, <2>2
<1>4. Recursion(Call, R, size, body)
  <2>1. R # {}
    <3>1. NewState \in R
      BY DEF NewState, ParseState, Text
    <3> QED  BY <3>1
  <2>2. size \in [Call -> Nat]
    BY <1>1
  <2>3. body \in [[Call -> R] \X Call -> R]
    <3> HIDE DEF R
    <3> QED  BY <1>2
  <2>4. ASSUME NEW f \in [Call -> R], NEW g \in [Call -> R], NEW call \in Call,
               \A e \in Call : size[e] < size[call] => f[e] = g[e]
        PROVE  body[<<f, call>>] = body[<<g, call>>]
    <3> HIDE DEF R
    <3>1. ParserBody(f, call) = ParserBody(g, call)
      BY <1>3, <2>4
    <3> QED  BY <3>1
  <2> HIDE DEF R, size, body
  <2> QED  BY <2>1, <2>2, <2>3, <2>4 DEF Recursion, CallsSmaller
<1>5. PICK f \in [Call -> R] : \A call \in Call : f[call] = body[<<f, call>>]
  <2> HIDE DEF R, size, body
  <2> QED  BY <1>4, RecursionByMeasure
<1>6. f = C(f)
  <2> HIDE DEF R
  <2>1. \A call \in Call : f[call] = ParserBody(f, call)
    BY <1>5
  <2> QED  BY <2>1
<1>7. Parser = CHOOSE g : g = C(g)
  BY Zenon DEF Parser
<1>8. Parser = C(Parser)
  <2> HIDE DEF C
  <2> QED  BY <1>6, <1>7, Zenon
<1>9. ASSUME NEW call \in Call PROVE Parser[call] = ParserBody(Parser, call)
  BY <1>8, Zenon
<1>10. Parser \in [Call -> R]
  <2> HIDE DEF R
  <2> DEFINE T == {n \in Nat : \A call \in Call : SizeOf(call) < n => f[call] = Parser[call]}
  <2>1. 0 \in T
    <3>1. \A call \in Call : ~(SizeOf(call) < 0)
      BY <1>1
    <3> QED  BY <3>1
  <2>2. ASSUME NEW n \in Nat, n \in T PROVE n + 1 \in T
    <3>1. ASSUME NEW call \in Call, SizeOf(call) < n + 1 PROVE f[call] = Parser[call]
      <4>1. ASSUME NEW e \in Call, SizeOf(e) < SizeOf(call) PROVE f[e] = Parser[e]
        <5>1. SizeOf(e) \in Nat /\ SizeOf(call) \in Nat
          BY <1>1
        <5>2. SizeOf(e) < n
          BY <3>1, <4>1, <5>1
        <5> QED  BY <2>2, <5>2
      <4>2. ParserBody(f, call) = ParserBody(Parser, call)
        BY <1>3, <4>1
      <4>3. f[call] = ParserBody(f, call)
        BY <1>5
      <4> QED  BY <1>9, <4>2, <4>3
    <3> QED  BY <3>1
  <2>3. \A call \in Call : f[call] = Parser[call]
    <3> HIDE DEF T
    <3>1. Nat \subseteq T
      BY <2>1, <2>2, InductionOnNat
    <3>2. ASSUME NEW call \in Call PROVE f[call] = Parser[call]
      <4>1. SizeOf(call) + 1 \in T /\ SizeOf(call) < SizeOf(call) + 1
        BY <1>1, <3>1
      <4> QED  BY <4>1 DEF T
    <3> QED  BY <3>2
  <2>4. Parser = [call \in Call |-> ParserBody(Parser, call)]
    BY <1>8, Zenon
  <2>5. Parser = [call \in Call |-> f[call]]
    BY <1>9, <2>3, <2>4
  <2> QED  BY <2>5
<1> QED  BY <1>9, <1>10

-----------------------------------------------------------------------------
(* Reading, when what is read is known, and what is before and after it.    *)
LEMMA SameState ==
  ASSUME NEW r \in ParseState, NEW i, NEW l, NEW s, NEW v,
         r.index = i, r.info_dict = l, r.info_section = s, r.value = v, r.ok
  PROVE  r = StateAt(i, l, s, v)
BY StateParts

Reading(state, w, j) == [state EXCEPT !.value = w, !.index = j]

LEMMA ReadTo ==
  ASSUME NEW i \in Nat \ {0}, NEW l \in Logs, NEW s \in Sections, NEW v \in Text,
         NEW w \in Text, NEW j \in Nat \ {0}
  PROVE  Reading(StateAt(i, l, s, v), w, j) = StateAt(j, l, s, w)
<1> DEFINE r == StateAt(i, l, s, v)
           t == Reading(r, w, j)
<1>1. r \in ParseState /\ r.index = i /\ r.info_dict = l /\ r.info_section = s /\ r.value = v /\ r.ok
  BY StateIs
<1> HIDE DEF r
<1>2. t \in ParseState
  BY <1>1, StateChanges DEF Reading
<1>3. t.index = j /\ t.info_dict = l /\ t.info_section = s /\ t.value = w /\ t.ok
  BY <1>1 DEF ParseState, Reading
<1> HIDE DEF t
<1>4. t = StateAt(j, l, s, w)
  BY <1>2, <1>3, SameState
<1> QED  BY <1>4 DEF t, r

Moving(state, j, w) == [state EXCEPT !.index = j, !.value = w]

LEMMA MovedTo ==
  ASSUME NEW i \in Nat \ {0}, NEW l \in Logs, NEW s \in Sections, NEW v \in Text,
         NEW j \in Nat \ {0}, NEW w \in Text
  PROVE  Moving(StateAt(i, l, s, v), j, w) = StateAt(j, l, s, w)
<1> DEFINE r == StateAt(i, l, s, v)
           t == Moving(r, j, w)
<1>1. r \in ParseState /\ r.index = i /\ r.info_dict = l /\ r.info_section = s /\ r.value = v /\ r.ok
  BY StateIs
<1> HIDE DEF r
<1>2. t \in ParseState
  BY <1>1, StateChanges DEF Moving
<1>3. t.index = j /\ t.info_dict = l /\ t.info_section = s /\ t.value = w /\ t.ok
  BY <1>1 DEF ParseState, Moving
<1> HIDE DEF t
<1>4. t = StateAt(j, l, s, w)
  BY <1>2, <1>3, SameState
<1> QED  BY <1>4 DEF t, r

Skipping(state, j) == [state EXCEPT !.index = j]

LEMMA IndexTo ==
  ASSUME NEW i \in Nat \ {0}, NEW l \in Logs, NEW s \in Sections, NEW v \in Text,
         NEW j \in Nat \ {0}
  PROVE  Skipping(StateAt(i, l, s, v), j) = StateAt(j, l, s, v)
<1> DEFINE r == StateAt(i, l, s, v)
           t == Skipping(r, j)
<1>1. r \in ParseState /\ r.index = i /\ r.info_dict = l /\ r.info_section = s /\ r.value = v /\ r.ok
  BY StateIs
<1> HIDE DEF r
<1>2. t \in ParseState
  BY <1>1, StateChanges DEF Skipping
<1>3. t.index = j /\ t.info_dict = l /\ t.info_section = s /\ t.value = v /\ t.ok
  BY <1>1 DEF ParseState, Skipping
<1> HIDE DEF t
<1>4. t = StateAt(j, l, s, v)
  BY <1>2, <1>3, SameState
<1> QED  BY <1>4 DEF t, r

Remembering(state, w) == [state EXCEPT !.info_section = w]

LEMMA SectionTo ==
  ASSUME NEW i \in Nat \ {0}, NEW l \in Logs, NEW s \in Sections, NEW v \in Text,
         NEW w \in Sections
  PROVE  Remembering(StateAt(i, l, s, v), w) = StateAt(i, l, w, v)
<1> DEFINE r == StateAt(i, l, s, v)
           t == Remembering(r, w)
<1>1. r \in ParseState /\ r.index = i /\ r.info_dict = l /\ r.info_section = s /\ r.value = v /\ r.ok
  BY StateIs
<1> HIDE DEF r
<1>2. t \in ParseState
  BY <1>1, StateChanges DEF Remembering
<1>3. t.index = i /\ t.info_dict = l /\ t.info_section = w /\ t.value = v /\ t.ok
  BY <1>1 DEF ParseState, Remembering
<1> HIDE DEF t
<1>4. t = StateAt(i, l, w, v)
  BY <1>2, <1>3, SameState
<1> QED  BY <1>4 DEF t, r

Assigning(state, w) == [state EXCEPT !.info_dict = w]

LEMMA LogTo ==
  ASSUME NEW i \in Nat \ {0}, NEW l \in Logs, NEW s \in Sections, NEW v \in Text,
         NEW w \in Logs
  PROVE  Assigning(StateAt(i, l, s, v), w) = StateAt(i, w, s, v)
<1> DEFINE r == StateAt(i, l, s, v)
           t == Assigning(r, w)
<1>1. r \in ParseState /\ r.index = i /\ r.info_dict = l /\ r.info_section = s /\ r.value = v /\ r.ok
  BY StateIs
<1> HIDE DEF r
<1>2. t \in ParseState
  BY <1>1, StateChanges DEF Assigning
<1>3. t.index = i /\ t.info_dict = w /\ t.info_section = s /\ t.value = v /\ t.ok
  BY <1>1 DEF ParseState, Assigning
<1> HIDE DEF t
<1>4. t = StateAt(i, w, s, v)
  BY <1>2, <1>3, SameState
<1> QED  BY <1>4 DEF t, r

Placed(text, pre, b) ==
  /\ Len(text) >= Len(pre) + Len(b)
  /\ SubSeq(text, Len(pre) + 1, Len(pre) + Len(b)) = b
  /\ \A j \in 1 .. Len(b) : text[Len(pre) + j] = b[j]

LEMMA PlacedIs ==
  ASSUME NEW pre \in Text, NEW b \in Text, NEW post \in Text
  PROVE  /\ Cat(pre, Cat(b, post)) \in Text
         /\ Cat(pre, Cat(b, post)) = Cat(Cat(pre, b), post)
         /\ Cat(pre, b) \in Text /\ Cat(b, post) \in Text
         /\ Size(pre) \in Nat /\ Size(b) \in Nat /\ Size(post) \in Nat
         /\ Size(Cat(pre, b)) = Size(pre) + Size(b)
         /\ Size(Cat(b, post)) = Size(b) + Size(post)
         /\ Size(Cat(pre, Cat(b, post))) = Size(pre) + Size(b) + Size(post)
         /\ Placed(Cat(pre, Cat(b, post)), pre, b)
<1>1. pre \in Strings(Nat) /\ b \in Strings(Nat) /\ post \in Strings(Nat)
  BY TextIs
<1>2. /\ Size(pre) \in Nat /\ Size(b) \in Nat /\ Size(post) \in Nat
  BY <1>1, SizeIsNat
<1>3. /\ Cat(pre, b) \in Strings(Nat) /\ Cat(b, post) \in Strings(Nat)
      /\ Size(Cat(pre, b)) = Size(pre) + Size(b)
      /\ Size(Cat(b, post)) = Size(b) + Size(post)
  BY <1>1, CatType
<1>4. /\ Cat(pre, Cat(b, post)) \in Strings(Nat)
      /\ Size(Cat(pre, Cat(b, post))) = Size(pre) + Size(Cat(b, post))
  BY <1>1, <1>3, CatType
<1>5. Size(Cat(pre, Cat(b, post))) = Size(pre) + Size(b) + Size(post)
  BY <1>2, <1>3, <1>4
<1>6. Cat(pre, Cat(b, post)) = Cat(Cat(pre, b), post)
  BY <1>1, CatAssociates
<1> DEFINE text == Cat(pre, Cat(b, post))
           tail == Cat(b, post)
<1>7. /\ pre \in Seq(Nat) /\ b \in Seq(Nat) /\ post \in Seq(Nat)
      /\ Len(pre) \in Nat /\ Len(b) \in Nat /\ Len(post) \in Nat
  BY DEF Text
<1>8. /\ tail \in Seq(Nat) /\ Len(tail) = Len(b) + Len(post)
      /\ \A j \in 1 .. Len(b) : tail[j] = b[j]
  BY <1>7, Joined DEF Cat
<1>9. /\ Len(text) = Len(pre) + Len(tail)
      /\ \A j \in 1 .. Len(tail) : text[Len(pre) + j] = tail[j]
      /\ text \in Seq(Nat)
  <2>1. text = pre \o tail
    BY DEF Cat
  <2> HIDE DEF tail, text
  <2> QED  BY <1>7, <1>8, <2>1, Joined
<1> HIDE DEF text, tail
<1>10. \A j \in 1 .. Len(b) : text[Len(pre) + j] = b[j]
  <2> SUFFICES ASSUME NEW j \in 1 .. Len(b) PROVE text[Len(pre) + j] = b[j]
    OBVIOUS
  <2>1. j \in 1 .. Len(tail)
    BY <1>7, <1>8
  <2> QED  BY <1>8, <1>9, <2>1
<1>11. Len(pre) + Len(b) <= Len(text)
  BY <1>7, <1>8, <1>9
<1>12. SubSeq(text, Len(pre) + 1, Len(pre) + Len(b)) = b
  <2>1. text \in Text
    BY <1>9 DEF Text
  <2> QED  BY <1>7, <1>10, <1>11, <2>1, MiddleOf
<1>13. Placed(text, pre, b)
  BY <1>7, <1>10, <1>11, <1>12 DEF Placed
<1> QED  BY <1>2, <1>3, <1>4, <1>5, <1>6, <1>13, TextIs DEF text

LEMMA FixedRead ==
  ASSUME NEW pre \in Text, NEW b \in Text, NEW post \in Text,
         NEW l \in Logs, NEW s \in Sections, NEW v \in Text
  PROVE  ReadFixedAmount(Cat(pre, Cat(b, post)), StateAt(Size(pre) + 1, l, s, v), Size(b))
           = StateAt(Size(pre) + Size(b) + 1, l, s, b)
<1> DEFINE text == Cat(pre, Cat(b, post))
           state == StateAt(Size(pre) + 1, l, s, v)
<1>1. Placed(text, pre, b) /\ Size(pre) \in Nat /\ Size(b) \in Nat
  BY PlacedIs
<1>2. state.index = Size(pre) + 1 /\ Size(pre) + 1 \in Nat \ {0}
  BY <1>1, StateIs
<1> HIDE DEF text
<1>3. /\ ~(state.index - 1 + Size(b) > Len(text))
      /\ state.index + Size(b) - 1 = Size(pre) + Size(b)
      /\ state.index + Size(b) = Size(pre) + Size(b) + 1
  <2> HIDE DEF state
  <2> QED  BY <1>1, <1>2 DEF Placed, Size
<1>4. SubSeq(text, state.index, state.index + Size(b) - 1) = b
  <2> HIDE DEF state
  <2> QED  BY <1>1, <1>2, <1>3 DEF Placed, Size
<1>5. ReadFixedAmount(text, state, Size(b))
        = [state EXCEPT !.value = b, !.index = Size(pre) + Size(b) + 1]
  <2> HIDE DEF state
  <2> QED  BY <1>3, <1>4, Zenon DEF ReadFixedAmount
<1>6. Size(pre) + Size(b) + 1 \in Nat \ {0}
  BY <1>1
<1>7. [state EXCEPT !.value = b, !.index = Size(pre) + Size(b) + 1]
        = StateAt(Size(pre) + Size(b) + 1, l, s, b)
  <2> DEFINE i == Size(pre) + 1
             j == Size(pre) + Size(b) + 1
  <2>1. i \in Nat \ {0} /\ j \in Nat \ {0}
    BY <1>2, <1>6
  <2> HIDE DEF i, j
  <2>2. Reading(StateAt(i, l, s, v), b, j) = StateAt(j, l, s, b)
    BY <2>1, ReadTo
  <2> QED  BY <2>2, Zenon DEF i, j, Reading
<1> QED  BY <1>5, <1>7, Zenon DEF text

Without(b, c) == \A j \in 1 .. Size(b) : b[j] # c

LEMMA UntilRead ==
  ASSUME NEW pre \in Text, NEW b \in Text, NEW c \in Nat, NEW post \in Text,
         NEW l \in Logs, NEW s \in Sections, NEW v \in Text, Without(b, c)
  PROVE  ReadUntilDelimiter(Cat(pre, Cat(b, Cat(One(c), post))),
                            StateAt(Size(pre) + 1, l, s, v), c)
           = StateAt(Size(pre) + Size(b) + 2, l, s, b)
<1> DEFINE text == Cat(pre, Cat(b, Cat(One(c), post)))
           state == StateAt(Size(pre) + 1, l, s, v)
           found == {k \in state.index .. Len(text) : text[k] = c}
           m == Size(pre) + Size(b) + 1
<1>1. One(c) \in Text /\ Size(One(c)) = 1 /\ One(c)[1] = c
  BY OneType, TextIs DEF One
<1>2. Cat(One(c), post) \in Text
  BY <1>1, PlacedIs
<1>3. Placed(text, pre, b) /\ Size(pre) \in Nat /\ Size(b) \in Nat
      /\ text = Cat(Cat(pre, b), Cat(One(c), post)) /\ text \in Text
      /\ Cat(pre, b) \in Text /\ Size(Cat(pre, b)) = Size(pre) + Size(b)
  BY <1>2, PlacedIs
<1>4. Placed(text, Cat(pre, b), One(c))
  BY <1>1, <1>3, PlacedIs
<1> HIDE DEF text
<1>5. text[m] = c /\ m <= Len(text)
  <2>1. 1 \in 1 .. Len(One(c))
    BY <1>1 DEF Size
  <2>2. text[Len(Cat(pre, b)) + 1] = c /\ Len(text) >= Len(Cat(pre, b)) + 1
    BY <1>1, <1>4, <2>1 DEF Placed, Size
  <2>3. Len(Cat(pre, b)) = Size(pre) + Size(b)
    BY <1>3 DEF Size
  <2>4. Len(text) \in Nat
    BY <1>3 DEF Text
  <2> QED  BY <1>3, <2>2, <2>3, <2>4
<1>6. state.index = Size(pre) + 1 /\ Size(pre) + 1 \in Nat \ {0}
  BY <1>3, StateIs
<1> HIDE DEF state
<1>7. ASSUME NEW k \in Nat, Size(pre) + 1 <= k, k < m PROVE text[k] # c
  <2> DEFINE j == k - Size(pre)
  <2>1. j \in 1 .. Size(b) /\ Size(pre) + j = k
    BY <1>3, <1>7
  <2>2. text[Size(pre) + j] = b[j]
    BY <1>3, <2>1 DEF Placed, Size
  <2>3. b[j] # c
    BY <2>1 DEF Without
  <2> QED  BY <2>1, <2>2, <2>3
<1>8. m \in found /\ \A k \in found : m <= k
  <2>1. m \in Nat /\ Len(text) \in Nat /\ Size(pre) + 1 <= m
    BY <1>3 DEF Text
  <2>2. m \in found
    BY <1>3, <1>5, <1>6, <2>1
  <2>3. ASSUME NEW k \in found PROVE m <= k
    <3>1. k \in Nat /\ Size(pre) + 1 <= k /\ text[k] = c
      BY <1>3, <1>6
    <3> QED  BY <1>7, <2>1, <3>1
  <2> QED  BY <2>2, <2>3
<1>9. found # {} /\ Min(found) = m
  <2>1. \A k \in found : k \in Int
    BY <1>3, <1>6
  <2>2. m \in Int
    BY <1>3
  <2> HIDE DEF found, m
  <2>3. \A k \in found : (\A y \in found : k <= y) => k = m
    BY <1>8, <2>1, <2>2
  <2> QED  BY <1>8, <2>3 DEF Min
<1>10. ReadUntilDelimiter(text, state, c)
         = [state EXCEPT !.value = SubSeq(text, state.index, Min(found) - 1),
                         !.index = Min(found) + 1]
  BY <1>9, Zenon DEF ReadUntilDelimiter
<1> HIDE DEF found
<1>11. SubSeq(text, state.index, Min(found) - 1) = b
  <2>1. Min(found) - 1 = Size(pre) + Size(b)
    BY <1>3, <1>9
  <2> QED  BY <1>3, <1>6, <2>1 DEF Placed, Size
<1>12. Min(found) + 1 = Size(pre) + Size(b) + 2
  BY <1>3, <1>9
<1>13. ReadUntilDelimiter(text, state, c)
         = [state EXCEPT !.value = b, !.index = Size(pre) + Size(b) + 2]
  BY <1>10, <1>11, <1>12, Zenon
<1>14. Size(pre) + Size(b) + 2 \in Nat \ {0}
  BY <1>3
<1>15. [state EXCEPT !.value = b, !.index = Size(pre) + Size(b) + 2]
         = StateAt(Size(pre) + Size(b) + 2, l, s, b)
  <2> DEFINE i == Size(pre) + 1
             j == Size(pre) + Size(b) + 2
  <2>1. i \in Nat \ {0} /\ j \in Nat \ {0}
    BY <1>6, <1>14
  <2> HIDE DEF i, j
  <2>2. Reading(StateAt(i, l, s, v), b, j) = StateAt(j, l, s, b)
    BY <2>1, ReadTo
  <2> QED  BY <2>2, Zenon DEF i, j, state, Reading
<1> QED  BY <1>13, <1>15, Zenon DEF text, state

(* Where a text with something in it is read.                               *)
LEMMA ByteThere ==
  ASSUME NEW pre \in Text, NEW c \in Nat, NEW post \in Text,
         NEW l \in Logs, NEW s \in Sections, NEW v \in Text
  PROVE  /\ Cat(pre, Cat(One(c), post))[Size(pre) + 1] = c
         /\ ~AtEnd(Cat(pre, Cat(One(c), post)), StateAt(Size(pre) + 1, l, s, v))
<1> DEFINE text == Cat(pre, Cat(One(c), post))
<1>1. One(c) \in Text /\ Size(One(c)) = 1 /\ One(c)[1] = c
  BY OneType, TextIs DEF One
<1>2. text \in Text /\ Placed(text, pre, One(c)) /\ Size(pre) \in Nat
  BY <1>1, PlacedIs
<1> HIDE DEF text
<1>3. 1 \in 1 .. Len(One(c)) /\ Len(text) \in Nat
  BY <1>1, <1>2 DEF Size, Text
<1>4. text[Size(pre) + 1] = c /\ Size(pre) + 1 <= Len(text)
  BY <1>1, <1>2, <1>3 DEF Placed, Size
<1>5. ~AtEnd(text, StateAt(Size(pre) + 1, l, s, v))
  <2>1. Size(pre) + 1 \in Nat \ {0}
    BY <1>2
  <2>2. StateAt(Size(pre) + 1, l, s, v).index = Size(pre) + 1
    BY <2>1, StateIs
  <2> QED  BY <1>2, <1>3, <1>4, <2>2 DEF AtEnd
<1> QED  BY <1>4, <1>5 DEF text

Begun(state) == [state EXCEPT !.index = @ + 1]

LEMMA BegunTo ==
  ASSUME NEW i \in Nat \ {0}, NEW l \in Logs, NEW s \in Sections, NEW v \in Text
  PROVE  Begun(StateAt(i, l, s, v)) = StateAt(i + 1, l, s, v)
<1> DEFINE r == StateAt(i, l, s, v)
           j == i + 1
<1>1. r.index = i
  BY StateIs
<1>2. Begun(r) = Skipping(r, j)
  <2> HIDE DEF r
  <2> QED  BY <1>1, Zenon DEF Begun, Skipping
<1>3. j \in Nat \ {0}
  OBVIOUS
<1> HIDE DEF j
<1>4. Skipping(r, j) = StateAt(j, l, s, v)
  BY <1>3, IndexTo
<1> QED  BY <1>2, <1>4 DEF j

(* What the three functions do with a call.                                 *)
LEMMA ParserProcess ==
  ASSUME NEW text \in Text, NEW state \in ParseState, NEW locals \in Locals
  PROVE  /\ Parser[CallOf("Process", text, state, locals)] \in ParseState
         /\ Parser[CallOf("Process", text, state, locals)]
              = ProcessWith(text, state, Parser[DictCall(text, state)],
                            Parser[ListCall(text, state)])
<1> DEFINE call == CallOf("Process", text, state, locals)
<1>1. "Process" \in Functions
  BY DEF Functions
<1>2. call \in Call /\ call.function = "Process" /\ call.text = text /\ call.state = state
  BY <1>1, CallIs
<1> HIDE DEF call
<1>3. Parser[call] = ParserBody(Parser, call) /\ Parser[call] \in ParseState
  BY <1>2, ParserIsBody
<1>4. ParserBody(Parser, call) = Process(Parser, text, state)
  BY <1>2 DEF ParserBody
<1> QED  BY <1>3, <1>4, ProcessIs DEF call

DictTurn(text, state, locals, next) ==
  IF LeavesLoop(text, state) THEN HashInfo(Close(text, state), locals)
  ELSE IF ~next.ok THEN next
  ELSE IF locals.current_key = <<>>
  THEN Parser[KeyCall(text, next, locals)]
  ELSE Parser[ValueCall(text, next, locals)]

ListTurn(text, state, next) ==
  IF LeavesLoop(text, state) THEN Close(text, state)
  ELSE IF ~next.ok THEN next
  ELSE Parser[ItemCall(text, next)]

LEMMA ParserDict ==
  ASSUME NEW text \in Text, NEW state \in ParseState, NEW locals \in Locals
  PROVE  /\ Parser[CallOf("ProcessDict", text, state, locals)] \in ParseState
         /\ Parser[CallOf("ProcessDict", text, state, locals)]
              = DictTurn(text, state, locals, ReadOn(state, Parser[NextCall(text, state)]))
<1> DEFINE call == CallOf("ProcessDict", text, state, locals)
<1>1. "ProcessDict" \in Functions
  BY DEF Functions
<1>2. /\ call \in Call /\ call.function = "ProcessDict" /\ call.text = text /\ call.state = state
      /\ call.locals = locals
  BY <1>1, CallIs
<1> HIDE DEF call
<1>3. Parser[call] = ParserBody(Parser, call) /\ Parser[call] \in ParseState
  BY <1>2, ParserIsBody
<1>4. ParserBody(Parser, call) = ProcessDict(Parser, text, state, locals)
  BY <1>2 DEF ParserBody
<1>5. ProcessDict(Parser, text, state, locals)
        = DictTurn(text, state, locals, ReadOn(state, Parser[NextCall(text, state)]))
  BY DictIs, Zenon DEF DictTurn
<1> QED  BY <1>3, <1>4, <1>5 DEF call

LEMMA ParserList ==
  ASSUME NEW text \in Text, NEW state \in ParseState, NEW locals \in Locals
  PROVE  /\ Parser[CallOf("ProcessList", text, state, locals)] \in ParseState
         /\ Parser[CallOf("ProcessList", text, state, locals)]
              = ListTurn(text, state, ReadOn(state, Parser[NextCall(text, state)]))
<1> DEFINE call == CallOf("ProcessList", text, state, locals)
<1>1. "ProcessList" \in Functions
  BY DEF Functions
<1>2. /\ call \in Call /\ call.function = "ProcessList" /\ call.text = text /\ call.state = state
  BY <1>1, CallIs
<1> HIDE DEF call
<1>3. Parser[call] = ParserBody(Parser, call) /\ Parser[call] \in ParseState
  BY <1>2, ParserIsBody
<1>4. ParserBody(Parser, call) = ProcessList(Parser, text, state)
  BY <1>2 DEF ParserBody
<1>5. ProcessList(Parser, text, state)
        = ListTurn(text, state, ReadOn(state, Parser[NextCall(text, state)]))
  BY ListIs, Zenon DEF ListTurn
<1> QED  BY <1>3, <1>4, <1>5 DEF call

(* The byte that a document begins with tells what it is.                   *)
LEMMA BeginningTells ==
  ASSUME NEW text, NEW state, state.ok, ~AtEnd(text, state), NEW dict, NEW list
  PROVE  /\ text[state.index] = Integer =>
              ProcessWith(text, state, dict, list) = ReadUntilDelimiter(text, Begun(state), End)
         /\ text[state.index] = Dict => ProcessWith(text, state, dict, list) = dict
         /\ text[state.index] = List => ProcessWith(text, state, dict, list) = list
         /\ text[state.index] \in Digit =>
              IF ReadUntilDelimiter(text, state, Colon).ok
              THEN ProcessWith(text, state, dict, list)
                     = ReadFixedAmount(text, ReadUntilDelimiter(text, state, Colon),
                                       stoull(ReadUntilDelimiter(text, state, Colon).value))
              ELSE ProcessWith(text, state, dict, list) = ReadUntilDelimiter(text, state, Colon)
<1> DEFINE length == ReadUntilDelimiter(text, state, Colon)
           a == ReadFixedAmount(text, length, stoull(length.value))
           b == ReadUntilDelimiter(text, Begun(state), End)
           x == text[state.index]
<1>1. ProcessWith(text, state, dict, list) =
        CASE x \in Digit   -> (IF length.ok THEN a ELSE length)
          [] x = Integer   -> b
          [] x = Dict      -> dict
          [] x = List      -> list
          [] OTHER         -> Throw(state)
  BY Zenon DEF ProcessWith, Begun
<1> HIDE DEF length, a, b, x
<1>2. /\ x = Integer => x \notin Digit /\ x # Dict /\ x # List
      /\ x = Dict => x \notin Digit /\ x # Integer /\ x # List
      /\ x = List => x \notin Digit /\ x # Dict /\ x # Integer
      /\ x \in Digit => x # Dict /\ x # List /\ x # Integer
  BY DEF Digit, Integer, Dict, List
<1>3. /\ x = Integer => ProcessWith(text, state, dict, list) = b
      /\ x = Dict => ProcessWith(text, state, dict, list) = dict
      /\ x = List => ProcessWith(text, state, dict, list) = list
      /\ x \in Digit =>
           ProcessWith(text, state, dict, list) = IF length.ok THEN a ELSE length
  BY <1>1, <1>2
<1> QED  BY <1>3, Zenon DEF length, a, b, x

EndsAt(pre, b) == Size(pre) + Size(b) + 1

Outcome(pre, b, post, l, s, v) ==
  Parser[NextCall(Cat(pre, Cat(b, post)), StateAt(Size(pre) + 1, l, s, v))]

LEMMA NumberIsRead ==
  ASSUME NEW pre \in Text, NEW n \in Nat, NEW post \in Text,
         NEW l \in Logs, NEW s \in Sections, NEW v \in Text
  PROVE  Outcome(pre, Encode[Number(n)], post, l, s, v)
           = StateAt(EndsAt(pre, Encode[Number(n)]), l, s, Decimal[n])
<1> DEFINE b == Decimal[n]
           state == StateAt(Size(pre) + 1, l, s, v)
           text == Cat(pre, Cat(Encode[Number(n)], post))
           before == Cat(pre, One(Integer))
<1>1. /\ b \in Text /\ One(Integer) \in Text /\ One(End) \in Text /\ Integer \in Nat /\ End \in Nat
      /\ Size(One(Integer)) = 1 /\ Size(One(End)) = 1
  BY DecimalType, OneType, TextIs DEF Integer, End
<1>2. Encode[Number(n)] = Cat(One(Integer), Cat(b, One(End)))
  BY NumberIsWritten DEF Enclosed
<1> HIDE DEF b
<1>3. Without(b, End)
  BY DecimalType DEF b, Digit, End, Without
<1>4. /\ Cat(b, One(End)) \in Text /\ Cat(One(End), post) \in Text
      /\ Size(Cat(b, One(End))) = Size(b) + 1 /\ Size(b) \in Nat
      /\ Cat(Cat(b, One(End)), post) = Cat(b, Cat(One(End), post))
      /\ Cat(b, Cat(One(End), post)) \in Text
  BY <1>1, PlacedIs
<1>5. /\ Encode[Number(n)] \in Text /\ Size(Encode[Number(n)]) = Size(b) + 2
      /\ Cat(Encode[Number(n)], post) = Cat(One(Integer), Cat(b, Cat(One(End), post)))
  BY <1>1, <1>2, <1>4, PlacedIs
<1>6. /\ before \in Text /\ Size(before) = Size(pre) + 1 /\ Size(pre) \in Nat
      /\ text = Cat(before, Cat(b, Cat(One(End), post)))
      /\ text = Cat(pre, Cat(One(Integer), Cat(b, Cat(One(End), post))))
      /\ text \in Text
  BY <1>1, <1>4, <1>5, PlacedIs
<1> HIDE DEF before
<1>7. text[Size(pre) + 1] = Integer /\ ~AtEnd(text, state)
  <2> DEFINE tail == Cat(b, Cat(One(End), post))
  <2>1. tail \in Text /\ text = Cat(pre, Cat(One(Integer), tail))
    BY <1>4, <1>6
  <2> HIDE DEF tail, text
  <2>2. /\ Cat(pre, Cat(One(Integer), tail))[Size(pre) + 1] = Integer
        /\ ~AtEnd(Cat(pre, Cat(One(Integer), tail)), StateAt(Size(pre) + 1, l, s, v))
    BY <1>1, <2>1, ByteThere
  <2> QED  BY <2>1, <2>2
<1>8. Size(pre) + 1 \in Nat \ {0}
  BY <1>6
<1>9. state \in ParseState /\ state.index = Size(pre) + 1 /\ state.ok
  BY <1>8, StateIs
<1>10. Begun(state) = StateAt(Size(before) + 1, l, s, v)
  BY <1>6, <1>8, BegunTo
<1> HIDE DEF state, text
<1>11. Parser[NextCall(text, state)] = ReadUntilDelimiter(text, Begun(state), End)
  BY <1>6, <1>7, <1>9, LocalsAre, ParserProcess, BeginningTells DEF NextCall
<1>12. ReadUntilDelimiter(text, Begun(state), End) = StateAt(Size(before) + Size(b) + 2, l, s, b)
  <2>1. ReadUntilDelimiter(Cat(before, Cat(b, Cat(One(End), post))),
                           StateAt(Size(before) + 1, l, s, v), End)
          = StateAt(Size(before) + Size(b) + 2, l, s, b)
    <3>1. before \in Text /\ b \in Text /\ End \in Nat
      BY <1>1, <1>6
    <3> QED  BY <1>3, <3>1, UntilRead
  <2> QED  BY <1>6, <1>10, <2>1, Zenon
<1>13. Size(before) + Size(b) + 2 = EndsAt(pre, Encode[Number(n)])
  BY <1>4, <1>5, <1>6 DEF EndsAt
<1> QED  BY <1>11, <1>12, <1>13, Zenon DEF Outcome, text, state, b

LEMMA StringIsRead ==
  ASSUME NEW pre \in Text, NEW b \in Text, NEW post \in Text,
         NEW l \in Logs, NEW s \in Sections, NEW v \in Text
  PROVE  Outcome(pre, EncodeString(b), post, l, s, v)
           = StateAt(EndsAt(pre, EncodeString(b)), l, s, b)
<1> DEFINE d == Decimal[Size(b)]
           state == StateAt(Size(pre) + 1, l, s, v)
           text == Cat(pre, Cat(EncodeString(b), post))
           front == Cat(pre, d)
           before == Cat(front, One(Colon))
           tail == Cat(One(Colon), Cat(b, post))
           length == StateAt(Size(pre) + Size(d) + 2, l, s, d)
<1>1. Size(b) \in Nat /\ Size(post) \in Nat
  BY SizeIsNat, TextIs
<1>2. /\ d \in Text /\ Size(d) >= 1 /\ Size(d) \in Nat /\ d[1] \in Digit /\ Without(d, Colon)
      /\ stoull(d) = Size(b)
  <2>1. /\ d \in Text /\ Size(d) >= 1 /\ Size(d) \in Nat
        /\ \A i \in 1 .. Size(d) : d[i] \in Digit
    BY <1>1, DecimalType, SizeIsNat, TextIs
  <2>2. stoull(d) = Size(b)
    BY <1>1, NumberIsReadBack
  <2> HIDE DEF d
  <2>3. Without(d, Colon)
    BY <2>1 DEF Without, Digit, Colon
  <2> QED  BY <2>1, <2>2, <2>3
<1>3. One(Colon) \in Text /\ Size(One(Colon)) = 1 /\ Colon \in Nat
  BY OneType, TextIs DEF Colon
<1>4. EncodeString(b) \in Text /\ EncodeString(b) = Cat(d, Cat(One(Colon), b))
  BY EncodeStringIs
<1> HIDE DEF d
<1>5. /\ Cat(b, post) \in Text /\ tail \in Text
      /\ Cat(One(Colon), b) \in Text /\ Size(Cat(One(Colon), b)) = Size(b) + 1
      /\ tail = Cat(Cat(One(Colon), b), post)
  BY <1>1, <1>3, PlacedIs
<1>6. Size(EncodeString(b)) = Size(d) + Size(b) + 1
      /\ Cat(EncodeString(b), post) = Cat(d, tail)
  <2> HIDE DEF tail
  <2> QED  BY <1>1, <1>2, <1>3, <1>4, <1>5, PlacedIs
<1>7. /\ text = Cat(pre, Cat(d, tail)) /\ text = Cat(front, tail) /\ text \in Text
      /\ front \in Text /\ Size(front) = Size(pre) + Size(d) /\ Size(pre) \in Nat
      /\ Placed(text, pre, d)
  <2> HIDE DEF tail
  <2> QED  BY <1>2, <1>5, <1>6, PlacedIs
<1> HIDE DEF front
<1>8. /\ text = Cat(before, Cat(b, post)) /\ before \in Text
      /\ Size(before) = Size(pre) + Size(d) + 1
  BY <1>2, <1>3, <1>5, <1>7, PlacedIs
<1> HIDE DEF before, text
<1>9. text[Size(pre) + 1] \in Digit /\ Size(pre) + 1 <= Len(text) /\ Len(text) \in Nat
  <2>1. Len(text) \in Nat
    BY <1>7 DEF Text
  <2>2. 1 \in 1 .. Len(d) /\ Len(pre) = Size(pre) /\ Len(d) \in Nat /\ Len(d) >= 1
    BY <1>2 DEF Size
  <2>3. text[Size(pre) + 1] = d[1] /\ Len(text) >= Size(pre) + Len(d)
    BY <1>7, <2>2 DEF Placed
  <2> QED  BY <1>2, <1>7, <2>1, <2>2, <2>3
<1>10. Size(pre) + 1 \in Nat \ {0}
  BY <1>7
<1>11. state \in ParseState /\ state.index = Size(pre) + 1 /\ state.ok
  BY <1>10, StateIs
<1>12. ReadUntilDelimiter(text, state, Colon) = length
  <2>1. ReadUntilDelimiter(Cat(pre, Cat(d, tail)), state, Colon) = length
    <3>1. Cat(b, post) \in Text /\ Colon \in Nat /\ d \in Text /\ Without(d, Colon)
      BY <1>2, <1>3, <1>5
    <3> HIDE DEF d
    <3> QED  BY <3>1, UntilRead
  <2> HIDE DEF tail, state, length
  <2> QED  BY <1>7, <2>1
<1>13. length.ok /\ length.value = d
  <2>1. Size(pre) + Size(d) + 2 \in Nat \ {0} /\ d \in Text
    BY <1>2, <1>7
  <2> QED  BY <2>1, StateIs
<1>14. length = StateAt(Size(before) + 1, l, s, d)
  <2>1. Size(before) + 1 = Size(pre) + Size(d) + 2
    BY <1>2, <1>7, <1>8
  <2> QED  BY <2>1
<1> HIDE DEF length, state
<1>15. ~AtEnd(text, state)
  BY <1>7, <1>9, <1>11 DEF AtEnd
<1>16. Parser[NextCall(text, state)] = ReadFixedAmount(text, length, Size(b))
  <2>1. Parser[NextCall(text, state)]
          = ProcessWith(text, state, Parser[DictCall(text, state)],
                        Parser[ListCall(text, state)])
    BY <1>7, <1>11, LocalsAre, ParserProcess DEF NextCall
  <2>2. text[state.index] \in Digit
    BY <1>9, <1>11
  <2> QED  BY <1>2, <1>11, <1>12, <1>13, <1>15, <2>1, <2>2, BeginningTells
<1>17. ReadFixedAmount(text, length, Size(b)) = StateAt(Size(before) + Size(b) + 1, l, s, b)
  <2>1. ReadFixedAmount(Cat(before, Cat(b, post)), StateAt(Size(before) + 1, l, s, d), Size(b))
          = StateAt(Size(before) + Size(b) + 1, l, s, b)
    <3>1. before \in Text /\ d \in Text
      BY <1>2, <1>8
    <3> QED  BY <3>1, FixedRead
  <2> QED  BY <1>8, <1>14, <2>1, Zenon
<1>18. Size(before) + Size(b) + 1 = EndsAt(pre, EncodeString(b))
  BY <1>1, <1>2, <1>6, <1>7, <1>8 DEF EndsAt
<1> QED  BY <1>16, <1>17, <1>18, Zenon DEF Outcome, text, state

(* The loops read on at a text that begins, and end at the mark.            *)
Begins(b) == b \in Text /\ Size(b) >= 1 /\ b[1] # End

LEMMA PlaceIs ==
  ASSUME NEW pre \in Text, NEW l \in Logs, NEW s \in Sections, NEW v \in Text
  PROVE  /\ StateAt(Size(pre) + 1, l, s, v) \in ParseState
         /\ StateAt(Size(pre) + 1, l, s, v).index = Size(pre) + 1
         /\ StateAt(Size(pre) + 1, l, s, v).ok
<1>1. Size(pre) + 1 \in Nat \ {0}
  BY TextIs, SizeIsNat
<1> QED  BY <1>1, StateIs

Turn(text, state, next) ==
  /\ text \in Text /\ next \in ParseState /\ next.ok /\ ~LeavesLoop(text, state)
  /\ ReadOn(state, Parser[NextCall(text, state)]) = next

LEMMA TurnIs ==
  ASSUME NEW pre \in Text, NEW b, Begins(b), NEW tail \in Text,
         NEW l \in Logs, NEW s \in Sections, NEW v \in Text,
         NEW l2 \in Logs, NEW s2 \in Sections, NEW w \in Text,
         Outcome(pre, b, tail, l, s, v) = StateAt(EndsAt(pre, b), l2, s2, w)
  PROVE  /\ Turn(Cat(pre, Cat(b, tail)), StateAt(Size(pre) + 1, l, s, v),
                 StateAt(EndsAt(pre, b), l2, s2, w))
         /\ Cat(pre, b) \in Text
         /\ Cat(pre, Cat(b, tail)) = Cat(Cat(pre, b), tail)
         /\ EndsAt(pre, b) = Size(Cat(pre, b)) + 1
<1> DEFINE text == Cat(pre, Cat(b, tail))
           state == StateAt(Size(pre) + 1, l, s, v)
           next == StateAt(EndsAt(pre, b), l2, s2, w)
<1>1. b \in Text /\ Size(b) >= 1 /\ b[1] # End
  BY DEF Begins
<1>2. /\ text \in Text /\ text = Cat(Cat(pre, b), tail) /\ Cat(pre, b) \in Text
      /\ Size(Cat(pre, b)) = Size(pre) + Size(b) /\ Size(pre) \in Nat /\ Size(b) \in Nat
      /\ Placed(text, pre, b)
  BY <1>1, PlacedIs
<1> HIDE DEF text
<1>3. state \in ParseState /\ state.index = Size(pre) + 1 /\ state.ok
  BY PlaceIs
<1>4. EndsAt(pre, b) = Size(Cat(pre, b)) + 1
  BY <1>2 DEF EndsAt
<1>5. /\ next \in ParseState /\ next.ok /\ next.index = Size(Cat(pre, b)) + 1
  BY <1>2, <1>4, PlaceIs
<1>6. Parser[NextCall(text, state)] = next
  BY DEF Outcome, text
<1> HIDE DEF state, next
<1>7. ReadOn(state, next) = next
  BY <1>1, <1>2, <1>3, <1>5 DEF ReadOn
<1>8. ~LeavesLoop(text, state)
  <2>1. Len(text) \in Nat /\ Len(pre) = Size(pre) /\ Len(b) = Size(b)
    BY <1>2 DEF Text, Size
  <2>2. 1 \in 1 .. Len(b)
    BY <1>1, <1>2, <2>1
  <2>3. text[Size(pre) + 1] = b[1] /\ Len(text) >= Size(pre) + Size(b)
    BY <1>2, <2>1, <2>2 DEF Placed
  <2>4. Size(pre) + 1 <= Len(text)
    BY <1>1, <1>2, <2>1, <2>3
  <2> QED  BY <1>1, <1>2, <1>3, <2>1, <2>3, <2>4 DEF LeavesLoop, AtEnd
<1>9. ReadOn(state, Parser[NextCall(text, state)]) = next
  BY <1>6, <1>7
<1>10. Turn(text, state, next)
  BY <1>2, <1>5, <1>8, <1>9 DEF Turn
<1> QED  BY <1>2, <1>4, <1>10, Zenon DEF text, state, next

LEMMA LoopEnds ==
  ASSUME NEW pre \in Text, NEW post \in Text,
         NEW l \in Logs, NEW s \in Sections, NEW v \in Text
  PROVE  /\ Cat(pre, Cat(One(End), post)) \in Text
         /\ LeavesLoop(Cat(pre, Cat(One(End), post)), StateAt(Size(pre) + 1, l, s, v))
         /\ Close(Cat(pre, Cat(One(End), post)), StateAt(Size(pre) + 1, l, s, v))
              = StateAt(Size(pre) + 2, l, s, None)
<1> DEFINE text == Cat(pre, Cat(One(End), post))
           state == StateAt(Size(pre) + 1, l, s, v)
<1>1. One(End) \in Text /\ End \in Nat
  BY OneType, TextIs DEF End
<1>2. text \in Text /\ Size(pre) \in Nat
  BY <1>1, PlacedIs
<1>3. text[Size(pre) + 1] = End /\ ~AtEnd(text, state)
  BY <1>1, ByteThere
<1> HIDE DEF text
<1>4. state \in ParseState /\ state.index = Size(pre) + 1 /\ state.ok
  BY PlaceIs
<1>5. LeavesLoop(text, state)
  <2> HIDE DEF state
  <2> QED  BY <1>3, <1>4 DEF LeavesLoop
<1>6. Close(text, state) = StateAt(Size(pre) + 2, l, s, None)
  <2> DEFINE i == Size(pre) + 1
             j == Size(pre) + 2
  <2>1. i \in Nat \ {0} /\ j \in Nat \ {0} /\ None \in Text
    BY <1>2, NoneType, TextIs
  <2>2. Close(text, state) = Moving(state, j, None)
    <3>1. state.index + 1 = j
      BY <1>2, <1>4
    <3> HIDE DEF state, j
    <3> QED  BY <1>3, <3>1, Zenon DEF Close, Moving, None
  <2> HIDE DEF i, j
  <2>3. Moving(StateAt(i, l, s, v), j, None) = StateAt(j, l, s, None)
    BY <2>1, MovedTo
  <2> QED  BY <2>2, <2>3, Zenon DEF i, j
<1> QED  BY <1>2, <1>5, <1>6 DEF text

(* A text is read wherever it is: what there was of info_dict stays, and    *)
(* what it assigns comes behind it.                                         *)
ReadsAs(b, log, value) ==
  /\ Begins(b) /\ log \in Logs /\ value \in Text
  /\ \A pre \in Text, post \in Text, l \in Logs, s \in Sections, v \in Text :
       \E s2 \in Sections :
         Outcome(pre, b, post, l, s, v) = StateAt(EndsAt(pre, b), Cat(l, log), s2, value)

LEMMA LogsAre == Logs = Strings(Text \X Text)
BY DEF Logs, Strings

LEMMA LogsJoin ==
  ASSUME NEW l \in Logs, NEW m \in Logs, NEW n \in Logs
  PROVE  /\ Cat(l, m) \in Logs /\ Cat(Cat(l, m), n) = Cat(l, Cat(m, n))
         /\ None \in Logs /\ Cat(l, None) = l /\ Cat(None, l) = l
<1>1. l \in Strings(Text \X Text) /\ m \in Strings(Text \X Text) /\ n \in Strings(Text \X Text)
  BY LogsAre
<1>2. Cat(l, m) \in Strings(Text \X Text) /\ Cat(Cat(l, m), n) = Cat(l, Cat(m, n))
  BY <1>1, CatType, CatAssociates
<1>3. None \in Strings(Text \X Text) /\ Cat(l, None) = l /\ Cat(None, l) = l
  BY <1>1, NoneType, CatNone
<1> QED  BY <1>2, <1>3, LogsAre

(* The loop of ProcessList, from any of the list's documents on.            *)
ListText(pre, b, post) == Cat(pre, Cat(b, Cat(One(End), post)))

ListFrom(b, post, log) ==
  \A pre \in Text, l \in Logs, s \in Sections, v \in Text :
    \E s2 \in Sections :
      Parser[ItemCall(ListText(pre, b, post), StateAt(Size(pre) + 1, l, s, v))]
        = StateAt(EndsAt(pre, b) + 1, Cat(l, log), s2, None)

LEMMA ListTextIs ==
  ASSUME NEW pre \in Text, NEW b \in Text, NEW rest \in Text, NEW post \in Text
  PROVE  /\ ListText(pre, b, post) \in Text
         /\ ListText(pre, None, post) = Cat(pre, Cat(One(End), post))
         /\ Cat(rest, Cat(One(End), post)) \in Text
         /\ ListText(pre, Cat(b, rest), post) = Cat(pre, Cat(b, Cat(rest, Cat(One(End), post))))
         /\ ListText(Cat(pre, b), rest, post) = Cat(Cat(pre, b), Cat(rest, Cat(One(End), post)))
         /\ Cat(b, rest) \in Text /\ Cat(pre, b) \in Text
         /\ EndsAt(pre, Cat(b, rest)) = EndsAt(Cat(pre, b), rest)
         /\ EndsAt(pre, None) = Size(pre) + 1 /\ Size(pre) \in Nat
<1>1. One(End) \in Text
  BY OneType, TextIs DEF End
<1>2. Cat(One(End), post) \in Text
  BY <1>1, PlacedIs
<1> DEFINE t == Cat(One(End), post)
<1> HIDE DEF t
<1>3. t \in Text
  BY <1>2 DEF t
<1>4. Cat(None, t) = t /\ None \in Text /\ Size(None) = 0
  BY <1>3, CatNone, NoneType, TextIs
<1>5. /\ Cat(rest, t) \in Text /\ Cat(b, rest) \in Text /\ Cat(pre, b) \in Text
      /\ Cat(Cat(b, rest), t) = Cat(b, Cat(rest, t))
      /\ Size(Cat(b, rest)) = Size(b) + Size(rest) /\ Size(Cat(pre, b)) = Size(pre) + Size(b)
      /\ Size(b) \in Nat /\ Size(rest) \in Nat /\ Size(pre) \in Nat
  BY <1>3, PlacedIs
<1>6. Cat(pre, Cat(b, t)) \in Text
  BY <1>3, PlacedIs
<1>7. EndsAt(pre, Cat(b, rest)) = EndsAt(Cat(pre, b), rest)
  BY <1>5 DEF EndsAt
<1>8. EndsAt(pre, None) = Size(pre) + 1
  BY <1>4, <1>5 DEF EndsAt
<1> QED  BY <1>4, <1>5, <1>6, <1>7, <1>8 DEF ListText, t

LEMMA ListNone ==
  ASSUME NEW post \in Text
  PROVE  ListFrom(None, post, None)
<1> SUFFICES ASSUME NEW pre \in Text, NEW l \in Logs, NEW s \in Sections, NEW v \in Text
             PROVE  Parser[ItemCall(ListText(pre, None, post), StateAt(Size(pre) + 1, l, s, v))]
                      = StateAt(EndsAt(pre, None) + 1, Cat(l, None), s, None)
  BY DEF ListFrom
<1> DEFINE text == ListText(pre, None, post)
           state == StateAt(Size(pre) + 1, l, s, v)
<1>1. /\ text \in Text /\ LeavesLoop(text, state)
      /\ Close(text, state) = StateAt(Size(pre) + 2, l, s, None)
  <2>1. text = Cat(pre, Cat(One(End), post)) /\ text \in Text
    BY NoneType, TextIs, ListTextIs
  <2> HIDE DEF text
  <2> QED  BY <2>1, LoopEnds
<1>2. state \in ParseState /\ NewLocals \in Locals
  BY PlaceIs, LocalsAre
<1> HIDE DEF text, state
<1>3. Parser[ItemCall(text, state)]
        = ListTurn(text, state, ReadOn(state, Parser[NextCall(text, state)]))
  BY <1>1, <1>2, ParserList, Zenon DEF ItemCall
<1>4. Parser[ItemCall(text, state)] = Close(text, state)
  BY <1>1, <1>3, Zenon DEF ListTurn
<1>5. EndsAt(pre, None) + 1 = Size(pre) + 2 /\ Cat(l, None) = l
  <2>1. EndsAt(pre, None) = Size(pre) + 1 /\ Size(pre) \in Nat
    BY ListTextIs
  <2>2. Cat(l, None) = l
    BY LogsJoin
  <2> QED  BY <2>1, <2>2
<1> QED  BY <1>1, <1>4, <1>5 DEF text, state

LEMMA ListMore ==
  ASSUME NEW b, NEW log, NEW value, ReadsAs(b, log, value),
         NEW post \in Text, NEW rest \in Text, NEW later \in Logs, ListFrom(rest, post, later)
  PROVE  ListFrom(Cat(b, rest), post, Cat(log, later))
<1> SUFFICES ASSUME NEW pre \in Text, NEW l \in Logs, NEW s \in Sections, NEW v \in Text
             PROVE  \E s2 \in Sections :
                      Parser[ItemCall(ListText(pre, Cat(b, rest), post),
                                      StateAt(Size(pre) + 1, l, s, v))]
                        = StateAt(EndsAt(pre, Cat(b, rest)) + 1, Cat(l, Cat(log, later)), s2, None)
  BY DEF ListFrom
<1>1. Begins(b) /\ b \in Text /\ log \in Logs /\ value \in Text
  BY DEF ReadsAs, Begins
<1> DEFINE tail == Cat(rest, Cat(One(End), post))
           text == Cat(pre, Cat(b, tail))
           state == StateAt(Size(pre) + 1, l, s, v)
           l2 == Cat(l, log)
<1>2. /\ tail \in Text /\ text = ListText(pre, Cat(b, rest), post)
      /\ ListText(Cat(pre, b), rest, post) = Cat(Cat(pre, b), tail)
      /\ EndsAt(pre, Cat(b, rest)) = EndsAt(Cat(pre, b), rest)
  BY <1>1, ListTextIs
<1> HIDE DEF tail
<1>3. PICK s1 \in Sections :
        Outcome(pre, b, tail, l, s, v) = StateAt(EndsAt(pre, b), l2, s1, value)
  BY <1>2 DEF ReadsAs
<1>4. l2 \in Logs /\ Cat(l2, later) = Cat(l, Cat(log, later))
  BY <1>1, LogsJoin
<1> HIDE DEF l2
<1> DEFINE next == StateAt(EndsAt(pre, b), l2, s1, value)
<1>5. /\ text \in Text /\ next \in ParseState /\ next.ok /\ ~LeavesLoop(text, state)
      /\ ReadOn(state, Parser[NextCall(text, state)]) = next
      /\ Cat(pre, b) \in Text /\ text = Cat(Cat(pre, b), tail)
      /\ EndsAt(pre, b) = Size(Cat(pre, b)) + 1
  <2>1. Begins(b) /\ tail \in Text /\ l2 \in Logs /\ s1 \in Sections /\ value \in Text
    BY <1>1, <1>2, <1>3, <1>4
  <2>2. Outcome(pre, b, tail, l, s, v) = next
    BY <1>3
  <2>3. /\ Turn(text, state, next)
        /\ Cat(pre, b) \in Text /\ text = Cat(Cat(pre, b), tail)
        /\ EndsAt(pre, b) = Size(Cat(pre, b)) + 1
    BY <2>1, <2>2, TurnIs
  <2> HIDE DEF text, state, next
  <2> QED  BY <2>3, Zenon DEF Turn
<1>6. state \in ParseState /\ NewLocals \in Locals
  BY PlaceIs, LocalsAre
<1> HIDE DEF text, state
<1>7. Parser[ItemCall(text, state)]
        = ListTurn(text, state, ReadOn(state, Parser[NextCall(text, state)]))
  BY <1>5, <1>6, ParserList, Zenon DEF ItemCall
<1>8. Parser[ItemCall(text, state)] = Parser[ItemCall(text, next)]
  <2> HIDE DEF next
  <2> QED  BY <1>5, <1>7, Zenon DEF ListTurn
<1>9. next = StateAt(Size(Cat(pre, b)) + 1, l2, s1, value)
  BY <1>5
<1> HIDE DEF next
<1>10. PICK s2 \in Sections :
         Parser[ItemCall(ListText(Cat(pre, b), rest, post), next)]
           = StateAt(EndsAt(Cat(pre, b), rest) + 1, Cat(l2, later), s2, None)
  <2>1. \A p \in Text, m \in Logs, t \in Sections, w \in Text :
          \E s2 \in Sections :
            Parser[ItemCall(ListText(p, rest, post), StateAt(Size(p) + 1, m, t, w))]
              = StateAt(EndsAt(p, rest) + 1, Cat(m, later), s2, None)
    BY DEF ListFrom
  <2>2. \E s2 \in Sections :
          Parser[ItemCall(ListText(Cat(pre, b), rest, post),
                          StateAt(Size(Cat(pre, b)) + 1, l2, s1, value))]
            = StateAt(EndsAt(Cat(pre, b), rest) + 1, Cat(l2, later), s2, None)
    <3>1. Cat(pre, b) \in Text /\ l2 \in Logs /\ s1 \in Sections /\ value \in Text
      BY <1>1, <1>4, <1>5
    <3> DEFINE front == Cat(pre, b)
    <3> HIDE DEF front
    <3>2. \E s2 \in Sections :
            Parser[ItemCall(ListText(front, rest, post), StateAt(Size(front) + 1, l2, s1, value))]
              = StateAt(EndsAt(front, rest) + 1, Cat(l2, later), s2, None)
      BY <2>1, <3>1 DEF front
    <3> QED  BY <3>2 DEF front
  <2> QED  BY <1>9, <2>2, Zenon
<1>11. Parser[ItemCall(text, state)]
         = StateAt(EndsAt(pre, Cat(b, rest)) + 1, Cat(l, Cat(log, later)), s2, None)
  BY <1>2, <1>4, <1>5, <1>8, <1>10, Zenon
<1> QED  BY <1>2, <1>11 DEF text, state

(* What holds of the last part, and of each with those behind it, holds of  *)
(* all.                                                                     *)
LEMMA FromTheLast ==
  ASSUME NEW n \in Nat, NEW T \in SUBSET (0 .. n), n \in T,
         \A k \in 1 .. n : k \in T => k - 1 \in T
  PROVE  0 \in T
<1> DEFINE U == {m \in Nat : m <= n => n - m \in T}
<1>1. 0 \in U
  OBVIOUS
<1>2. ASSUME NEW m \in Nat, m \in U PROVE m + 1 \in U
  <2> SUFFICES ASSUME m + 1 <= n PROVE n - (m + 1) \in T
    OBVIOUS
  <2>1. n - m \in T /\ n - m \in 1 .. n /\ (n - m) - 1 = n - (m + 1)
    BY <1>2
  <2> QED  BY <2>1
<1> HIDE DEF U
<1>3. Nat \subseteq U
  BY <1>1, <1>2, InductionOnNat
<1> QED  BY <1>3 DEF U

ItemsRead(parts, logs) ==
  /\ parts \in Strings(Text) /\ logs \in Strings(Logs) /\ Size(logs) = Size(parts)
  /\ \A k \in 1 .. Size(parts) : \E value \in Text : ReadsAs(parts[k], logs[k], value)

LEMMA ListAll ==
  ASSUME NEW parts, NEW logs, ItemsRead(parts, logs), NEW post \in Text
  PROVE  /\ ListFrom(FlattenSeq(parts), post, FlattenSeq(logs))
         /\ FlattenSeq(parts) \in Text /\ FlattenSeq(logs) \in Logs
<1> DEFINE n == Size(parts)
<1>1. /\ parts \in Strings(Text) /\ logs \in Strings(Strings(Text \X Text)) /\ Size(logs) = n
      /\ \A k \in 1 .. n : \E value \in Text : ReadsAs(parts[k], logs[k], value)
  BY LogsAre DEF ItemsRead
<1>2. PICK rest : Remainders(rest, parts)
  BY <1>1, FlattenParts
<1>3. PICK later : RemaindersOf(Text \X Text, later, logs)
  BY <1>1, FlattenPartsOf
<1>4. n \in Nat
  BY <1>1, SizeIsNat
<1>5. /\ rest \in [0 .. n -> Text] /\ rest[0] = FlattenSeq(parts) /\ rest[n] = None
      /\ \A k \in 1 .. n : rest[k - 1] = Cat(parts[k], rest[k])
  BY <1>2 DEF Remainders
<1>6. /\ later \in [0 .. n -> Logs] /\ later[0] = FlattenSeq(logs) /\ later[n] = None
      /\ \A k \in 1 .. n : later[k - 1] = Cat(logs[k], later[k])
  BY <1>1, <1>3, LogsAre DEF RemaindersOf
<1> HIDE DEF n
<1> DEFINE T == {k \in 0 .. n : ListFrom(rest[k], post, later[k])}
<1>7. n \in T
  <2>1. ListFrom(None, post, None)
    BY ListNone
  <2>2. n \in 0 .. n
    BY <1>4
  <2> QED  BY <1>5, <1>6, <2>1, <2>2
<1>8. ASSUME NEW k \in 1 .. n, k \in T PROVE k - 1 \in T
  <2>1. k \in 0 .. n /\ k - 1 \in 0 .. n
    BY <1>4
  <2>2. PICK value \in Text : ReadsAs(parts[k], logs[k], value)
    BY <1>1
  <2>3. ListFrom(rest[k], post, later[k]) /\ rest[k] \in Text /\ later[k] \in Logs
    BY <1>5, <1>6, <1>8, <2>1
  <2>4. ListFrom(Cat(parts[k], rest[k]), post, Cat(logs[k], later[k]))
    BY <2>2, <2>3, ListMore
  <2> QED  BY <1>5, <1>6, <2>1, <2>4
<1>9. 0 \in T
  <2>1. T \in SUBSET (0 .. n)
    OBVIOUS
  <2> HIDE DEF T
  <2> QED  BY <1>4, <1>7, <1>8, <2>1, FromTheLast
<1>10. 0 \in 0 .. n
  BY <1>4
<1> QED  BY <1>5, <1>6, <1>9, <1>10

(* The text of a list and of a dictionary, in what it is part of.           *)
LEMMA EnclosedIs ==
  ASSUME NEW mark \in Nat, mark # End, NEW pre \in Text, NEW b \in Text, NEW post \in Text
  PROVE  /\ Begins(Enclosed(mark, b))
         /\ Cat(pre, Cat(Enclosed(mark, b), post)) \in Text
         /\ Cat(pre, Cat(Enclosed(mark, b), post)) = ListText(Cat(pre, One(mark)), b, post)
         /\ Cat(pre, Cat(Enclosed(mark, b), post))[Size(pre) + 1] = mark
         /\ Cat(pre, One(mark)) \in Text /\ Size(Cat(pre, One(mark))) = Size(pre) + 1
         /\ EndsAt(Cat(pre, One(mark)), b) + 1 = EndsAt(pre, Enclosed(mark, b))
         /\ \A l \in Logs, s \in Sections, v \in Text :
              ~AtEnd(Cat(pre, Cat(Enclosed(mark, b), post)), StateAt(Size(pre) + 1, l, s, v))
<1>1. /\ One(mark) \in Text /\ Size(One(mark)) = 1 /\ One(mark)[1] = mark
      /\ One(End) \in Text /\ Size(One(End)) = 1
  BY OneType, TextIs DEF End, One
<1>2. /\ Cat(b, One(End)) \in Text /\ Size(Cat(b, One(End))) = Size(b) + 1 /\ Size(b) \in Nat
      /\ Cat(One(End), post) \in Text
      /\ Cat(Cat(b, One(End)), post) = Cat(b, Cat(One(End), post))
      /\ Cat(b, Cat(One(End), post)) \in Text
  BY <1>1, PlacedIs
<1> DEFINE e == Enclosed(mark, b)
           tail == Cat(b, Cat(One(End), post))
<1>3. /\ e \in Text /\ Size(e) = Size(b) + 2
      /\ Cat(e, post) = Cat(One(mark), tail)
  BY <1>1, <1>2, PlacedIs DEF Enclosed
<1>4. e[1] = mark
  <2>1. 1 \in Nat /\ 1 <= 1 /\ 1 <= Size(One(mark))
    BY <1>1
  <2>2. Cat(One(mark), Cat(b, One(End)))[1] = One(mark)[1]
    BY <1>1, <1>2, <2>1, TextIs, ElementInFront
  <2> QED  BY <1>1, <2>2 DEF Enclosed
<1>5. tail \in Text
  BY <1>2
<1> HIDE DEF e, tail
<1>6. Begins(e)
  BY <1>2, <1>3, <1>4 DEF Begins
<1>7. /\ Cat(pre, Cat(e, post)) \in Text /\ Size(pre) \in Nat
      /\ Cat(pre, Cat(One(mark), tail)) = Cat(Cat(pre, One(mark)), tail)
      /\ Cat(pre, One(mark)) \in Text /\ Size(Cat(pre, One(mark))) = Size(pre) + 1
  BY <1>1, <1>3, <1>5, PlacedIs
<1>8. Cat(pre, Cat(e, post)) = ListText(Cat(pre, One(mark)), b, post)
  BY <1>3, <1>7, Zenon DEF ListText, tail
<1>9. /\ Cat(pre, Cat(One(mark), tail))[Size(pre) + 1] = mark
      /\ \A l \in Logs, s \in Sections, v \in Text :
           ~AtEnd(Cat(pre, Cat(One(mark), tail)), StateAt(Size(pre) + 1, l, s, v))
  <2>1. ASSUME NEW l \in Logs, NEW s \in Sections, NEW v \in Text
        PROVE  /\ Cat(pre, Cat(One(mark), tail))[Size(pre) + 1] = mark
               /\ ~AtEnd(Cat(pre, Cat(One(mark), tail)), StateAt(Size(pre) + 1, l, s, v))
    BY <1>5, ByteThere
  <2>2. None \in Logs /\ <<1, 1>> \in Sections /\ None \in Text
    BY NoneType, TextIs, LogsAre DEF Sections
  <2> QED  BY <2>1, <2>2
<1>10. EndsAt(Cat(pre, One(mark)), b) + 1 = EndsAt(pre, e)
  BY <1>2, <1>3, <1>7 DEF EndsAt
<1> QED  BY <1>3, <1>6, <1>7, <1>8, <1>9, <1>10 DEF e

LEMMA ListIsRead ==
  ASSUME NEW parts, NEW logs, ItemsRead(parts, logs)
  PROVE  ReadsAs(Enclosed(List, FlattenSeq(parts)), FlattenSeq(logs), None)
<1> DEFINE b == FlattenSeq(parts)
           log == FlattenSeq(logs)
           e == Enclosed(List, b)
<1>1. \A post \in Text : ListFrom(b, post, log)
  BY ListAll
<1>2. b \in Text /\ log \in Logs /\ None \in Text /\ List \in Nat /\ List # End
  <2>1. None \in Text
    BY NoneType, TextIs
  <2> QED  BY <2>1, ListAll DEF List, End
<1> HIDE DEF b, log
<1>3. Begins(e)
  <2>1. None \in Text
    BY NoneType, TextIs
  <2> QED  BY <1>2, <2>1, EnclosedIs
<1>4. ASSUME NEW pre \in Text, NEW post \in Text, NEW l \in Logs, NEW s \in Sections, NEW v \in Text
      PROVE  \E s2 \in Sections :
               Outcome(pre, e, post, l, s, v) = StateAt(EndsAt(pre, e), Cat(l, log), s2, None)
  <2> DEFINE text == Cat(pre, Cat(e, post))
             state == StateAt(Size(pre) + 1, l, s, v)
             front == Cat(pre, One(List))
  <2>1. /\ text \in Text /\ text = ListText(front, b, post) /\ text[Size(pre) + 1] = List
        /\ front \in Text /\ Size(front) = Size(pre) + 1 /\ EndsAt(front, b) + 1 = EndsAt(pre, e)
        /\ ~AtEnd(text, state)
    BY <1>2, EnclosedIs
  <2>2. state \in ParseState /\ state.index = Size(pre) + 1 /\ state.ok
    BY PlaceIs
  <2>3. Begun(state) = StateAt(Size(pre) + 1 + 1, l, s, v)
    <3>1. Size(pre) + 1 \in Nat \ {0}
      BY SizeIsNat, TextIs
    <3> QED  BY <3>1, BegunTo
  <2> HIDE DEF text, state, front
  <2>4. Parser[NextCall(text, state)] = Parser[ListCall(text, state)]
    <3>1. Parser[NextCall(text, state)]
            = ProcessWith(text, state, Parser[DictCall(text, state)],
                          Parser[ListCall(text, state)])
      BY <2>1, <2>2, LocalsAre, ParserProcess DEF NextCall
    <3> QED  BY <2>1, <2>2, <3>1, BeginningTells
  <2>5. ListCall(text, state) = ItemCall(text, Begun(state))
    BY Zenon DEF ListCall, ItemCall, Begun
  <2>6. ListFrom(b, post, log)
    BY <1>1
  <2>7. \A p \in Text, m \in Logs, t \in Sections, w \in Text :
          \E s2 \in Sections :
            Parser[ItemCall(ListText(p, b, post), StateAt(Size(p) + 1, m, t, w))]
              = StateAt(EndsAt(p, b) + 1, Cat(m, log), s2, None)
    BY <2>6 DEF ListFrom
  <2>8. PICK s2 \in Sections :
          Parser[ItemCall(ListText(front, b, post), StateAt(Size(front) + 1, l, s, v))]
            = StateAt(EndsAt(front, b) + 1, Cat(l, log), s2, None)
    BY <2>1, <2>7, Zenon
  <2>9. Parser[NextCall(text, state)] = StateAt(EndsAt(pre, e), Cat(l, log), s2, None)
    BY <2>1, <2>3, <2>4, <2>5, <2>8, Zenon
  <2> QED  BY <2>9 DEF Outcome, text, state
<1> HIDE DEF e
<1>5. ReadsAs(e, log, None)
  BY <1>2, <1>3, <1>4 DEF ReadsAs
<1> QED  BY <1>5 DEF e, b, log

(* The locals of ProcessDict between entries, and with a key.               *)
Pending(key, first, last, found) ==
  [current_key |-> key, start_index |-> first, end_index |-> last, found_info |-> found]

Resting(first, last) == Pending(None, first, last, FALSE)

LEMMA SameLocals ==
  ASSUME NEW x \in Locals, NEW key \in Text, NEW first \in Int, NEW last \in Int
  PROVE  /\ Pending(key, first, last, TRUE) \in Locals
         /\ Pending(key, first, last, FALSE) \in Locals
         /\ x.current_key = key /\ x.start_index = first /\ x.end_index = last /\ x.found_info
              => x = Pending(key, first, last, TRUE)
         /\ x.current_key = key /\ x.start_index = first /\ x.end_index = last /\ ~x.found_info
              => x = Pending(key, first, last, FALSE)
BY DEF Locals, Pending

LEMMA PendingIs ==
  ASSUME NEW key \in Text, NEW first \in Int, NEW last \in Int
  PROVE  /\ Pending(key, first, last, TRUE) \in Locals
         /\ Pending(key, first, last, FALSE) \in Locals
         /\ Pending(key, first, last, TRUE).current_key = key
         /\ Pending(key, first, last, FALSE).current_key = key
         /\ Resting(first, last) \in Locals /\ Resting(first, last).current_key = None
         /\ NewLocals = Resting(-1, -1)
<1>1. None \in Text
  BY NoneType, TextIs
<1>2. NewLocals = Resting(-1, -1)
  BY Zenon DEF NewLocals, Resting, Pending, None
<1> QED  BY <1>1, <1>2 DEF Locals, Pending, Resting

LEMMA KeyTaken ==
  ASSUME NEW first \in Int, NEW last \in Int, NEW c \in Nat, NEW state \in ParseState,
         state.value = One(c)
  PROVE  TakeKey(Resting(first, last), state)
           = IF c = InfoKey THEN Pending(One(c), state.index, last, TRUE)
             ELSE Pending(One(c), first, last, FALSE)
<1> DEFINE r == Resting(first, last)
           k == One(c)
           i == state.index
<1>1. k \in Text /\ i \in Int /\ One(InfoKey) \in Text
  BY OneType, TextIs, StateParts DEF InfoKey
<1>2. r \in Locals
  BY <1>1, PendingIs
<1>3. r.current_key = None /\ r.start_index = first /\ r.end_index = last /\ ~r.found_info
  BY DEF Resting, Pending
<1>4. (k = One(InfoKey)) <=> (c = InfoKey)
  BY DEF One, InfoKey
<1>5. TakeKey(r, state) =
        IF k = One(InfoKey)
        THEN [r EXCEPT !.current_key = One(InfoKey), !.start_index = i, !.found_info = TRUE]
        ELSE [r EXCEPT !.current_key = k]
  BY Zenon DEF TakeKey, One
<1> HIDE DEF r, k, i
<1> DEFINE x == [r EXCEPT !.current_key = k, !.start_index = i, !.found_info = TRUE]
           y == [r EXCEPT !.current_key = k]
<1>6. /\ x \in Locals /\ x.current_key = k /\ x.start_index = i /\ x.end_index = last
      /\ x.found_info
  BY <1>1, <1>2, <1>3 DEF Locals
<1>7. /\ y \in Locals /\ y.current_key = k /\ y.start_index = first /\ y.end_index = last
      /\ ~y.found_info
  BY <1>1, <1>2, <1>3 DEF Locals
<1>8. TakeKey(r, state) = IF c = InfoKey THEN x ELSE y
  BY <1>4, <1>5, Zenon
<1> HIDE DEF x, y
<1>9. x = Pending(k, i, last, TRUE)
  BY <1>1, <1>6, SameLocals
<1>10. y = Pending(k, first, last, FALSE)
  BY <1>1, <1>7, SameLocals
<1> QED  BY <1>8, <1>9, <1>10 DEF r, k, i

LEMMA ValueTaken ==
  ASSUME NEW key \in Text, NEW first \in Int, NEW last \in Int, NEW state \in ParseState
  PROVE  /\ TakeValue(Pending(key, first, last, TRUE), state) = Resting(first, state.index)
         /\ TakeValue(Pending(key, first, last, FALSE), state) = Resting(first, last)
<1> DEFINE r == Pending(key, first, last, TRUE)
           u == Pending(key, first, last, FALSE)
           i == state.index
<1>1. None \in Text /\ i \in Int
  BY NoneType, TextIs, StateParts
<1>2. r \in Locals /\ u \in Locals
  BY PendingIs
<1>3. /\ r.current_key = key /\ r.start_index = first /\ r.end_index = last /\ r.found_info
      /\ u.current_key = key /\ u.start_index = first /\ u.end_index = last /\ ~u.found_info
  BY DEF Pending
<1>4. /\ TakeValue(r, state) = [r EXCEPT !.current_key = None, !.found_info = FALSE,
                                         !.end_index = IF r.found_info THEN i ELSE @]
      /\ TakeValue(u, state) = [u EXCEPT !.current_key = None, !.found_info = FALSE,
                                         !.end_index = IF u.found_info THEN i ELSE @]
  BY Zenon DEF TakeValue, None
<1> HIDE DEF r, u, i
<1> DEFINE x == [r EXCEPT !.current_key = None, !.found_info = FALSE,
                          !.end_index = IF r.found_info THEN i ELSE @]
           y == [u EXCEPT !.current_key = None, !.found_info = FALSE,
                          !.end_index = IF u.found_info THEN i ELSE @]
<1>5. /\ x \in Locals /\ x.current_key = None /\ x.start_index = first /\ x.end_index = i
      /\ ~x.found_info
  BY <1>1, <1>2, <1>3 DEF Locals
<1>6. /\ y \in Locals /\ y.current_key = None /\ y.start_index = first /\ y.end_index = last
      /\ ~y.found_info
  BY <1>1, <1>2, <1>3 DEF Locals
<1>7. TakeValue(r, state) = x /\ TakeValue(u, state) = y
  BY <1>4
<1> HIDE DEF x, y
<1>8. x = Resting(first, i)
  BY <1>1, <1>5, SameLocals DEF Resting
<1>9. y = Resting(first, last)
  BY <1>1, <1>6, SameLocals DEF Resting
<1> QED  BY <1>7, <1>8, <1>9 DEF r, u, i

WithInfo(key, first, last) == Pending(key, first, last, TRUE)

WithOther(key, first, last) == Pending(key, first, last, FALSE)

LEMMA ValueIsTaken ==
  ASSUME NEW key \in Text, NEW first \in Int, NEW last \in Int, NEW state \in ParseState
  PROVE  /\ TakeValue(WithInfo(key, first, last), state) = Resting(first, state.index)
         /\ TakeValue(WithOther(key, first, last), state) = Resting(first, last)
BY ValueTaken DEF WithInfo, WithOther

(* An assignment comes behind those there are; the hash is of the section   *)
(* when both ends of it are known.                                          *)
Entered(key, value) == One(<<key, value>>)

LEMMA EnteredIs ==
  ASSUME NEW i \in Nat \ {0}, NEW l \in Logs, NEW s \in Sections, NEW w \in Text, NEW key \in Text
  PROVE  /\ Entered(key, w) \in Logs /\ Cat(l, Entered(key, w)) \in Logs
         /\ SetInDict(StateAt(i, l, s, w), key) = StateAt(i, Cat(l, Entered(key, w)), s, w)
<1> DEFINE m == Cat(l, Entered(key, w))
           r == StateAt(i, l, s, w)
<1>1. Entered(key, w) \in Logs
  BY OneType, LogsAre DEF Entered
<1>2. m \in Logs
  BY <1>1, LogsJoin
<1>3. r.info_dict = l /\ r.value = w
  BY StateIs
<1>4. SetInDict(r, key) = Assigning(r, m)
  <2>1. l \in Seq(Text \X Text) /\ <<key, w>> \in Text \X Text
    BY DEF Logs
  <2>2. Append(l, <<key, w>>) = m
    BY <2>1 DEF Entered, Cat, One
  <2> HIDE DEF r
  <2>3. Append(r.info_dict, <<key, r.value>>) = m
    BY <1>3, <2>2
  <2> QED  BY <2>3, Zenon DEF SetInDict, Assigning
<1> HIDE DEF m
<1>5. Assigning(r, m) = StateAt(i, m, s, w)
  BY <1>2, LogTo
<1> QED  BY <1>1, <1>2, <1>4, <1>5 DEF m, r

Kept(s, first, last) == IF first = -1 \/ last = -1 THEN s ELSE <<first, last>>

LEMMA HashedIs ==
  ASSUME NEW i \in Nat \ {0}, NEW l \in Logs, NEW s \in Sections, NEW w \in Text,
         NEW first \in Int, NEW last \in Int
  PROVE  /\ HashInfo(StateAt(i, l, s, w), Resting(first, last))
              = StateAt(i, l, Kept(s, first, last), w)
         /\ Kept(s, first, last) \in Sections
<1> DEFINE r == StateAt(i, l, s, w)
           x == Resting(first, last)
           p == <<first, last>>
<1>1. r.ok
  BY StateIs
<1>2. x.start_index = first /\ x.end_index = last
  BY DEF Resting, Pending
<1>3. p \in Sections
  BY DEF Sections
<1>4. HashInfo(r, x) = IF first = -1 \/ last = -1 THEN r ELSE Remembering(r, p)
  <2>1. HashInfo(r, x) = IF ~r.ok \/ x.start_index = -1 \/ x.end_index = -1 THEN r
                         ELSE [r EXCEPT !.info_section = <<x.start_index, x.end_index>>]
    BY Zenon DEF HashInfo
  <2> HIDE DEF r, x
  <2> QED  BY <1>1, <1>2, <2>1, Zenon DEF Remembering
<1>5. Kept(s, first, last) = IF first = -1 \/ last = -1 THEN s ELSE p
  BY DEF Kept
<1> HIDE DEF p
<1>6. Remembering(r, p) = StateAt(i, l, p, w)
  BY <1>3, SectionTo
<1> HIDE DEF x
<1>7. CASE first = -1 \/ last = -1
  BY <1>4, <1>5, <1>7 DEF r, x
<1>8. CASE ~(first = -1 \/ last = -1)
  <2>1. HashInfo(r, x) = StateAt(i, l, p, w) /\ Kept(s, first, last) = p
    BY <1>4, <1>5, <1>6, <1>8, Zenon
  <2> QED  BY <1>3, <2>1 DEF r, x
<1> QED  BY <1>7, <1>8

(* The loop of ProcessDict, from any of the dictionary's entries on.        *)
LoopCall(text, state, locals) == CallOf("ProcessDict", text, state, locals)

WithName(c, index, first, last) ==
  IF c = InfoKey THEN Pending(One(c), index, last, TRUE) ELSE Pending(One(c), first, last, FALSE)

AfterValue(text, state, locals, index, l, key, value) ==
  \E s \in Sections :
    /\ StateAt(index, l, s, value) \in ParseState
    /\ Parser[LoopCall(text, state, locals)]
         = Parser[LoopCall(text, StateAt(index, Cat(l, Entered(key, value)), s, value),
                           TakeValue(locals, StateAt(index, l, s, value)))]

(* A turn for a name, and one for its value.                                *)
LEMMA StringBegins ==
  ASSUME NEW b \in Text
  PROVE  Begins(EncodeString(b))
<1> DEFINE k == EncodeString(b)
           d == Decimal[Size(b)]
           t == Cat(One(Colon), b)
<1>1. d \in Text /\ Size(d) >= 1 /\ Size(d) \in Nat /\ d[1] \in Digit
  BY DecimalType, SizeIsNat, TextIs
<1>2. k \in Text /\ k = Cat(d, t)
  BY EncodeStringIs
<1>3. t \in Text
  BY OneType, CatType, TextIs DEF Colon
<1> HIDE DEF d, t
<1>4. 1 \in Nat /\ 1 <= 1 /\ 1 <= Size(d)
  BY <1>1
<1>5. Cat(d, t)[1] = d[1] /\ Size(Cat(d, t)) = Size(d) + Size(t) /\ Size(t) \in Nat
  BY <1>1, <1>3, <1>4, TextIs, ElementInFront, CatType, SizeIsNat
<1> HIDE DEF k
<1>6. Begins(k)
  BY <1>1, <1>2, <1>5 DEF Begins, Digit, End
<1> QED  BY <1>6 DEF k

LEMMA KeyTurn ==
  ASSUME NEW pre \in Text, NEW c \in Nat, NEW tail \in Text,
         NEW l \in Logs, NEW s \in Sections, NEW v \in Text, NEW first \in Int, NEW last \in Int,
         NEW text, text = Cat(pre, Cat(EncodeString(One(c)), tail)),
         NEW front, front = Cat(pre, EncodeString(One(c)))
  PROVE  /\ Parser[LoopCall(text, StateAt(Size(pre) + 1, l, s, v), Resting(first, last))]
              = Parser[LoopCall(text, StateAt(Size(front) + 1, l, s, One(c)),
                                WithName(c, Size(front) + 1, first, last))]
         /\ front \in Text /\ text = Cat(front, tail)
<1> DEFINE k == EncodeString(One(c))
           state == StateAt(Size(pre) + 1, l, s, v)
           next == StateAt(EndsAt(pre, k), l, s, One(c))
           r == Resting(first, last)
<1>1. One(c) \in Text /\ Size(One(c)) = 1
  BY OneType, TextIs
<1>2. Begins(k)
  BY <1>1, StringBegins
<1>3. Outcome(pre, k, tail, l, s, v) = next
  BY <1>1, StringIsRead
<1> HIDE DEF k
<1>4. /\ text \in Text /\ next \in ParseState /\ next.ok /\ ~LeavesLoop(text, state)
      /\ ReadOn(state, Parser[NextCall(text, state)]) = next
      /\ front \in Text /\ text = Cat(front, tail) /\ EndsAt(pre, k) = Size(front) + 1
  <2>1. text = Cat(pre, Cat(k, tail)) /\ front = Cat(pre, k)
    BY DEF k
  <2> DEFINE placed == Cat(pre, Cat(k, tail))
             ends == Cat(pre, k)
  <2>2. l \in Logs /\ s \in Sections /\ v \in Text /\ One(c) \in Text
    BY <1>1
  <2>3. /\ Turn(placed, state, next)
        /\ ends \in Text /\ placed = Cat(ends, tail) /\ EndsAt(pre, k) = Size(ends) + 1
    BY <1>2, <1>3, <2>2, TurnIs
  <2>4. text = placed /\ front = ends
    BY <2>1
  <2> HIDE DEF placed, ends, state, next
  <2> QED  BY <2>3, <2>4, Zenon DEF Turn
<1>5. state \in ParseState /\ r \in Locals /\ r.current_key = None
  <2>1. state \in ParseState
    BY PlaceIs
  <2>2. Resting(first, last) \in Locals /\ Resting(first, last).current_key = None
    BY PendingIs
  <2> HIDE DEF state
  <2> QED  BY <2>1, <2>2
<1>6. next = StateAt(Size(front) + 1, l, s, One(c))
  BY <1>4
<1>7. next.index = Size(front) + 1 /\ next.value = One(c)
  <2>1. Size(front) + 1 \in Nat \ {0}
    BY <1>4, TextIs, SizeIsNat
  <2> QED  BY <1>1, <1>6, <2>1, StateIs
<1> HIDE DEF state, next, r
<1>8. Parser[LoopCall(text, state, r)]
        = DictTurn(text, state, r, ReadOn(state, Parser[NextCall(text, state)]))
  BY <1>4, <1>5, ParserDict, Zenon DEF LoopCall
<1>9. Parser[LoopCall(text, state, r)] = Parser[KeyCall(text, next, r)]
  BY <1>4, <1>5, <1>8, Zenon DEF DictTurn, None
<1>10. KeyCall(text, next, r) = LoopCall(text, next, TakeKey(r, next))
  BY Zenon DEF KeyCall, LoopCall
<1>11. TakeKey(r, next)
         = IF c = InfoKey THEN Pending(One(c), Size(front) + 1, last, TRUE)
           ELSE Pending(One(c), first, last, FALSE)
  <2>1. TakeKey(Resting(first, last), next)
         = IF c = InfoKey THEN Pending(One(c), next.index, last, TRUE)
           ELSE Pending(One(c), first, last, FALSE)
    BY <1>4, <1>7, KeyTaken
  <2> QED  BY <1>7, <2>1 DEF r
<1> QED  BY <1>4, <1>6, <1>9, <1>10, <1>11, Zenon DEF state, r, WithName

LEMMA ValueTurn ==
  ASSUME NEW pre \in Text, NEW c \in Nat, NEW b, NEW log, NEW value, ReadsAs(b, log, value),
         NEW tail \in Text, NEW l \in Logs, NEW s \in Sections, NEW v \in Text,
         NEW locals \in Locals, locals.current_key = One(c),
         NEW text, text = Cat(pre, Cat(b, tail)), NEW front, front = Cat(pre, b)
  PROVE  /\ AfterValue(text, StateAt(Size(pre) + 1, l, s, v), locals, Size(front) + 1,
                       Cat(l, log), One(c), value)
         /\ front \in Text /\ text = Cat(front, tail)
<1> DEFINE state == StateAt(Size(pre) + 1, l, s, v)
           m == Cat(l, log)
           key == One(c)
<1>1. /\ Begins(b) /\ b \in Text /\ log \in Logs /\ value \in Text
  BY DEF ReadsAs, Begins
<1>2. key \in Text /\ key # <<>>
  BY OneType, TextIs DEF One
<1>3. m \in Logs
  BY <1>1, LogsJoin
<1>4. \E s2 \in Sections :
        Outcome(pre, b, tail, l, s, v) = StateAt(EndsAt(pre, b), m, s2, value)
  BY DEF ReadsAs
<1> HIDE DEF m
<1>5. PICK s2 \in Sections : Outcome(pre, b, tail, l, s, v) = StateAt(EndsAt(pre, b), m, s2, value)
  BY <1>4
<1> DEFINE next == StateAt(EndsAt(pre, b), m, s2, value)
<1>6. /\ text \in Text /\ next \in ParseState /\ next.ok /\ ~LeavesLoop(text, state)
      /\ ReadOn(state, Parser[NextCall(text, state)]) = next
      /\ front \in Text /\ text = Cat(front, tail) /\ EndsAt(pre, b) = Size(front) + 1
  <2> DEFINE placed == Cat(pre, Cat(b, tail))
             ends == Cat(pre, b)
  <2>1. /\ Turn(placed, state, next)
        /\ ends \in Text /\ placed = Cat(ends, tail) /\ EndsAt(pre, b) = Size(ends) + 1
    BY <1>1, <1>3, <1>5, TurnIs
  <2>2. text = placed /\ front = ends
    OBVIOUS
  <2> HIDE DEF placed, ends, state, next
  <2>3. Turn(text, state, next)
    BY <2>1, <2>2
  <2> QED  BY <2>1, <2>2, <2>3 DEF Turn
<1>7. state \in ParseState
  BY PlaceIs
<1>8. next = StateAt(Size(front) + 1, m, s2, value)
  BY <1>6
<1> HIDE DEF state, next, key
<1>9. Parser[LoopCall(text, state, locals)]
        = DictTurn(text, state, locals, ReadOn(state, Parser[NextCall(text, state)]))
  BY <1>6, <1>7, ParserDict, Zenon DEF LoopCall
<1>10. locals.current_key = key /\ locals.current_key # <<>>
  BY <1>2 DEF key
<1>11. Parser[LoopCall(text, state, locals)] = Parser[ValueCall(text, next, locals)]
  BY <1>6, <1>9, <1>10, Zenon DEF DictTurn
<1>12. ValueCall(text, next, locals)
         = LoopCall(text, SetInDict(next, key), TakeValue(locals, next))
  BY <1>10, Zenon DEF ValueCall, LoopCall
<1>13. SetInDict(next, key) = StateAt(Size(front) + 1, Cat(m, Entered(key, value)), s2, value)
  <2>1. Size(front) + 1 \in Nat \ {0}
    BY <1>6, TextIs, SizeIsNat
  <2> DEFINE i == Size(front) + 1
  <2>2. i \in Nat \ {0}
    BY <2>1
  <2> HIDE DEF i
  <2>3. SetInDict(StateAt(i, m, s2, value), key) = StateAt(i, Cat(m, Entered(key, value)), s2, value)
    BY <1>1, <1>2, <1>3, <2>2, EnteredIs
  <2> QED  BY <1>8, <2>3, Zenon DEF i
<1>14. Parser[LoopCall(text, state, locals)]
         = Parser[LoopCall(text, StateAt(Size(front) + 1, Cat(m, Entered(key, value)), s2, value),
                           TakeValue(locals, StateAt(Size(front) + 1, m, s2, value)))]
  BY <1>8, <1>11, <1>12, <1>13, Zenon
<1>15. StateAt(Size(front) + 1, m, s2, value) \in ParseState
  BY <1>6, <1>8
<1>16. AfterValue(text, state, locals, Size(front) + 1, m, key, value)
  BY <1>14, <1>15, Zenon DEF AfterValue
<1> QED  BY <1>6, <1>16, Zenon DEF state, m, key

(* The section of the last `info' there is from here on, or else as before. *)
InfoKept(info, text, first, last, first2, last2) ==
  IF info = None THEN first2 = first /\ last2 = last
  ELSE first2 # -1 /\ last2 # -1 /\ SubSeq(text, first2, last2 - 1) = info

ReadAll(text, state, first, last, index, log, info) ==
  \E s \in Sections, first2 \in Int, last2 \in Int :
    /\ InfoKept(info, text, first, last, first2, last2)
    /\ Parser[LoopCall(text, state, Resting(first, last))]
         = StateAt(index, log, Kept(s, first2, last2), None)

DictFrom(b, post, log, info) ==
  \A pre \in Text, l \in Logs, s \in Sections, v \in Text, first \in Int, last \in Int :
    ReadAll(ListText(pre, b, post), StateAt(Size(pre) + 1, l, s, v), first, last,
            EndsAt(pre, b) + 1, Cat(l, log), info)

LEMMA DictNone ==
  ASSUME NEW post \in Text
  PROVE  DictFrom(None, post, None, None)
<1> SUFFICES ASSUME NEW pre \in Text, NEW l \in Logs, NEW s \in Sections, NEW v \in Text,
                    NEW first \in Int, NEW last \in Int
             PROVE  Parser[LoopCall(ListText(pre, None, post), StateAt(Size(pre) + 1, l, s, v),
                                    Resting(first, last))]
                      = StateAt(EndsAt(pre, None) + 1, Cat(l, None), Kept(s, first, last), None)
  BY DEF DictFrom, InfoKept, ReadAll
<1> DEFINE text == ListText(pre, None, post)
           state == StateAt(Size(pre) + 1, l, s, v)
           r == Resting(first, last)
<1>1. text = Cat(pre, Cat(One(End), post)) /\ text \in Text /\ None \in Text
  BY NoneType, TextIs, ListTextIs
<1> HIDE DEF text
<1>2. /\ LeavesLoop(text, state)
      /\ Close(text, state) = StateAt(Size(pre) + 2, l, s, None)
  BY <1>1, LoopEnds
<1>3. state \in ParseState /\ r \in Locals
  BY <1>1, PlaceIs, PendingIs
<1> HIDE DEF state, r
<1>4. Parser[LoopCall(text, state, r)]
        = DictTurn(text, state, r, ReadOn(state, Parser[NextCall(text, state)]))
  BY <1>1, <1>3, ParserDict, Zenon DEF LoopCall
<1>5. Parser[LoopCall(text, state, r)] = HashInfo(Close(text, state), r)
  BY <1>2, <1>4, Zenon DEF DictTurn
<1>6. EndsAt(pre, None) + 1 = Size(pre) + 2 /\ Cat(l, None) = l /\ Size(pre) + 2 \in Nat \ {0}
  <2>1. EndsAt(pre, None) = Size(pre) + 1 /\ Size(pre) \in Nat
    BY ListTextIs
  <2>2. Cat(l, None) = l
    BY LogsJoin
  <2> QED  BY <2>1, <2>2
<1> DEFINE i == Size(pre) + 2
<1>7. i \in Nat \ {0}
  BY <1>6
<1> HIDE DEF i
<1>8. HashInfo(StateAt(i, l, s, None), Resting(first, last))
        = StateAt(i, l, Kept(s, first, last), None)
  BY <1>1, <1>7, HashedIs
<1>9. Parser[LoopCall(text, state, r)] = StateAt(i, l, Kept(s, first, last), None)
  BY <1>2, <1>5, <1>8, Zenon DEF i, r
<1>10. EndsAt(pre, None) + 1 = i
  BY <1>6 DEF i
<1> QED  BY <1>6, <1>9, <1>10, Zenon DEF text, state, r

EntryText(c, b) == Cat(EncodeString(One(c)), b)

LEMMA DictMore ==
  ASSUME NEW c \in Nat, NEW b, NEW log, NEW value, ReadsAs(b, log, value),
         NEW post \in Text, NEW rest \in Text, NEW later \in Logs, NEW info,
         DictFrom(rest, post, later, info)
  PROVE  DictFrom(Cat(EntryText(c, b), rest), post,
                  Cat(Cat(log, Entered(One(c), value)), later),
                  IF info # None THEN info ELSE IF c = InfoKey THEN b ELSE None)
<1> DEFINE all == Cat(EntryText(c, b), rest)
           logs == Cat(Cat(log, Entered(One(c), value)), later)
           found == IF info # None THEN info ELSE IF c = InfoKey THEN b ELSE None
           key == EncodeString(One(c))
           end == Cat(One(End), post)
<1>1. /\ b \in Text /\ Size(b) >= 1 /\ log \in Logs /\ value \in Text /\ key \in Text
      /\ One(c) \in Text /\ b # None
  <2>1. One(c) \in Text
    BY OneType, TextIs
  <2>2. Size(None) = 0
    BY NoneType
  <2>3. b \in Text /\ Size(b) >= 1 /\ log \in Logs /\ value \in Text
    BY DEF ReadsAs, Begins
  <2> QED  BY <2>1, <2>2, <2>3, EncodeStringIs
<1>2. end \in Text
  <2>1. One(End) \in Text
    BY OneType, TextIs DEF End
  <2> QED  BY <2>1, PlacedIs
<1> HIDE DEF key, end
<1>3. /\ Cat(rest, end) \in Text /\ Cat(b, Cat(rest, end)) \in Text
      /\ EntryText(c, b) \in Text /\ all \in Text
      /\ Cat(all, end) = Cat(key, Cat(b, Cat(rest, end)))
      /\ Size(all) = Size(key) + Size(b) + Size(rest)
      /\ Size(key) \in Nat /\ Size(b) \in Nat /\ Size(rest) \in Nat
  <2> DEFINE e == EntryText(c, b)
  <2>1. e = Cat(key, b)
    BY Zenon DEF EntryText, key
  <2> HIDE DEF e
  <2>2. e \in Text /\ Size(e) = Size(key) + Size(b) /\ Size(key) \in Nat /\ Size(b) \in Nat
        /\ Size(rest) \in Nat
    BY <1>1, <2>1, PlacedIs
  <2>3. /\ Cat(e, rest) \in Text /\ Size(Cat(e, rest)) = Size(e) + Size(rest)
        /\ Cat(e, Cat(rest, end)) = Cat(Cat(e, rest), end) /\ Cat(rest, end) \in Text
    BY <1>2, <2>2, PlacedIs
  <2>4. Cat(key, Cat(b, Cat(rest, end))) = Cat(Cat(key, b), Cat(rest, end))
        /\ Cat(b, Cat(rest, end)) \in Text
    BY <1>1, <2>3, PlacedIs
  <2>5. Cat(all, end) = Cat(key, Cat(b, Cat(rest, end)))
    BY <2>1, <2>3, <2>4 DEF e
  <2> QED  BY <2>2, <2>3, <2>4, <2>5 DEF e
<1>4. ASSUME NEW pre \in Text, NEW l \in Logs, NEW s \in Sections, NEW v \in Text,
             NEW first \in Int, NEW last \in Int
      PROVE  ReadAll(ListText(pre, all, post), StateAt(Size(pre) + 1, l, s, v), first, last,
                     EndsAt(pre, all) + 1, Cat(l, logs), found)
  <2> DEFINE tail == Cat(rest, end)
             tail1 == Cat(b, tail)
             text == ListText(pre, all, post)
             front == Cat(pre, key)
             after == Cat(front, b)
             from == Size(front) + 1
             to == Size(after) + 1
             l1 == Cat(l, log)
             l2 == Cat(l1, Entered(One(c), value))
             start == StateAt(Size(pre) + 1, l, s, v)
             locals == WithName(c, from, first, last)
             first1 == IF c = InfoKey THEN from ELSE first
             last1 == IF c = InfoKey THEN to ELSE last
  <2>1. text = Cat(pre, Cat(key, tail1)) /\ tail1 \in Text /\ tail \in Text
    BY <1>3, Zenon DEF ListText, end
  <2> HIDE DEF text, tail, tail1, start
  <2>2. /\ Parser[LoopCall(text, start, Resting(first, last))]
             = Parser[LoopCall(text, StateAt(from, l, s, One(c)), locals)]
        /\ front \in Text /\ text = Cat(front, tail1)
    <3>1. front = Cat(pre, EncodeString(One(c))) /\ text = Cat(pre, Cat(EncodeString(One(c)), tail1))
      BY <2>1 DEF key
    <3>2. tail1 \in Text
      BY <2>1
    <3> HIDE DEF front
    <3>3. /\ Parser[LoopCall(text, StateAt(Size(pre) + 1, l, s, v), Resting(first, last))]
               = Parser[LoopCall(text, StateAt(Size(front) + 1, l, s, One(c)),
                                 WithName(c, Size(front) + 1, first, last))]
          /\ front \in Text /\ text = Cat(front, tail1)
      BY <3>1, <3>2, KeyTurn
    <3> QED  BY <3>3 DEF start
  <2>3. /\ front \in Text /\ Size(front) = Size(pre) + Size(key) /\ Size(pre) \in Nat
        /\ from \in Int
    <3>1. Size(Cat(pre, key)) = Size(pre) + Size(key) /\ Size(pre) \in Nat
      BY <1>1, <2>1, PlacedIs
    <3> QED  BY <1>3, <2>2, <3>1
  <2>4. locals \in Locals /\ locals.current_key = One(c)
    <3> HIDE DEF from
    <3>1. /\ Pending(One(c), from, last, TRUE) \in Locals
          /\ Pending(One(c), first, last, FALSE) \in Locals
          /\ Pending(One(c), from, last, TRUE).current_key = One(c)
          /\ Pending(One(c), first, last, FALSE).current_key = One(c)
      BY <1>1, <2>3, PendingIs
    <3> QED  BY <3>1 DEF WithName
  <2> HIDE DEF front
  <2>5. text = Cat(front, Cat(b, tail))
    BY <2>2 DEF tail1
  <2>6. /\ AfterValue(text, StateAt(from, l, s, One(c)), locals, to, l1, One(c), value)
        /\ after \in Text /\ text = Cat(after, tail)
    <3>1. One(c) \in Text /\ after = Cat(front, b)
      BY <1>1
    <3> HIDE DEF locals, after
    <3> QED  BY <2>1, <2>3, <2>4, <2>5, <3>1, ValueTurn
  <2>7. /\ Size(after) = Size(front) + Size(b) /\ to \in Int /\ to \in Nat \ {0}
        /\ Placed(text, front, b)
    <3>1. Size(after) = Size(front) + Size(b) /\ Placed(Cat(front, Cat(b, tail)), front, b)
      BY <1>1, <2>1, <2>3, PlacedIs
    <3>2. Size(after) \in Nat
      BY <1>3, <2>3, <3>1
    <3> HIDE DEF after
    <3> QED  BY <2>5, <3>1, <3>2
  <2>8. PICK s1 \in Sections :
             /\ StateAt(to, l1, s1, value) \in ParseState
             /\ Parser[LoopCall(text, StateAt(from, l, s, One(c)), locals)]
                  = Parser[LoopCall(text, StateAt(to, l2, s1, value),
                                    TakeValue(locals, StateAt(to, l1, s1, value)))]
    BY <2>6 DEF AfterValue
  <2>9. l1 \in Logs /\ l2 \in Logs /\ Cat(l2, later) = Cat(l, logs)
    <3>1. l1 \in Logs
      BY <1>1, LogsJoin
    <3>2. Entered(One(c), value) \in Logs
      BY <1>1, OneType, LogsAre DEF Entered
    <3> DEFINE e == Entered(One(c), value)
    <3> HIDE DEF e
    <3>3. e \in Logs
      BY <3>2 DEF e
    <3>4. Cat(l1, e) = Cat(l, Cat(log, e)) /\ Cat(log, e) \in Logs /\ Cat(l1, e) \in Logs
      BY <1>1, <3>1, <3>3, LogsJoin
    <3>5. Cat(Cat(l, Cat(log, e)), later) = Cat(l, Cat(Cat(log, e), later))
      BY <3>4, LogsJoin
    <3> QED  BY <3>1, <3>4, <3>5 DEF e
  <2> HIDE DEF l1, l2, after
  <2>10. TakeValue(locals, StateAt(to, l1, s1, value)) = Resting(first1, last1)
    <3> DEFINE next == StateAt(to, l1, s1, value)
    <3>1. next \in ParseState
      BY <2>8
    <3>2. next.index = to
      BY <1>1, <2>7, <2>9, StateIs
    <3> HIDE DEF next, from, to
    <3>3. /\ TakeValue(WithInfo(One(c), from, last), next) = Resting(from, to)
          /\ TakeValue(WithOther(One(c), first, last), next) = Resting(first, last)
      <4> DEFINE named == One(c)
      <4>1. named \in Text /\ from \in Int /\ first \in Int /\ last \in Int /\ next \in ParseState
        BY <1>1, <2>3, <3>1
      <4> HIDE DEF named
      <4>2. TakeValue(WithInfo(named, from, last), next) = Resting(from, next.index)
        BY <4>1, ValueIsTaken
      <4>3. TakeValue(WithOther(named, first, last), next) = Resting(first, last)
        BY <4>1, ValueIsTaken
      <4> QED  BY <3>2, <4>2, <4>3 DEF named
    <3>4. TakeValue(locals, next) = Resting(first1, last1)
      BY <3>3 DEF WithName, WithInfo, WithOther
    <3> QED  BY <3>4 DEF next
  <2>11. first1 \in Int /\ last1 \in Int
    BY <2>3, <2>7
  <2> HIDE DEF locals, first1, last1
  <2>12. text = ListText(after, rest, post)
    BY <2>6, Zenon DEF ListText, tail, end
  <2>13. PICK s2 \in Sections, first2 \in Int, last2 \in Int :
           /\ InfoKept(info, ListText(after, rest, post), first1, last1, first2, last2)
           /\ Parser[LoopCall(ListText(after, rest, post), StateAt(Size(after) + 1, l2, s1, value),
                              Resting(first1, last1))]
                = StateAt(EndsAt(after, rest) + 1, Cat(l2, later), Kept(s2, first2, last2), None)
    <3>1. \A p \in Text, m \in Logs, t \in Sections, w \in Text, i \in Int, j \in Int :
            ReadAll(ListText(p, rest, post), StateAt(Size(p) + 1, m, t, w), i, j,
                    EndsAt(p, rest) + 1, Cat(m, later), info)
      BY Zenon DEF DictFrom
    <3>2. after \in Text /\ l2 \in Logs /\ value \in Text /\ first1 \in Int /\ last1 \in Int
      BY <1>1, <2>6, <2>9, <2>11
    <3>3. ReadAll(ListText(after, rest, post), StateAt(Size(after) + 1, l2, s1, value), first1,
                  last1, EndsAt(after, rest) + 1, Cat(l2, later), info)
      BY <3>1, <3>2
    <3> QED  BY <3>3, Zenon DEF ReadAll
  <2>14. InfoKept(found, text, first, last, first2, last2)
    <3>1. CASE info # None
      BY <2>12, <2>13, <3>1, Zenon DEF InfoKept
    <3>2. CASE info = None
      <4>1. first2 = first1 /\ last2 = last1
        BY <2>13, <3>2 DEF InfoKept
      <4>2. CASE c # InfoKey
        <5>1. first2 = first /\ last2 = last /\ found = None
          BY <3>2, <4>1, <4>2 DEF first1, last1
        <5> QED  BY <5>1, Zenon DEF InfoKept
      <4>3. CASE c = InfoKey
        <5>1. first2 = from /\ last2 = to /\ found = b
          BY <3>2, <4>1, <4>3 DEF first1, last1
        <5>2. from # -1 /\ to # -1 /\ to - 1 = Len(front) + Len(b) /\ from = Len(front) + 1
          BY <1>3, <2>3, <2>7 DEF Size
        <5>3. SubSeq(text, from, to - 1) = b
          BY <2>7, <5>2 DEF Placed
        <5> HIDE DEF found, from, to
        <5> QED  BY <1>1, <5>1, <5>2, <5>3, Zenon DEF InfoKept
      <4> QED  BY <4>2, <4>3
    <3> QED  BY <3>1, <3>2
  <2>15. EndsAt(after, rest) = EndsAt(pre, all)
    BY <1>3, <2>3, <2>7 DEF EndsAt
  <2>16. Parser[LoopCall(text, start, Resting(first, last))]
           = StateAt(EndsAt(pre, all) + 1, Cat(l, logs), Kept(s2, first2, last2), None)
    <3> HIDE DEF all, logs
    <3> QED  BY <2>2, <2>8, <2>9, <2>10, <2>12, <2>13, <2>15, Zenon
  <2> QED  BY <2>14, <2>16, Zenon DEF text, start, ReadAll
<1> HIDE DEF all, logs, found
<1>5. DictFrom(all, post, logs, found)
  BY <1>4, Zenon DEF DictFrom
<1> QED  BY <1>5 DEF all, logs, found

(* What a document is read as, and what its text assigns.                   *)
ValueOf(d) ==
  IF Kind(d) = "number" THEN Decimal[Content(d)]
  ELSE IF Kind(d) = "string" THEN Content(d)
  ELSE None

LogOf(d) == CHOOSE log : ReadsAs(Encode[d], log, ValueOf(d))

Readable(d) == ReadsAs(Encode[d], LogOf(d), ValueOf(d))

ListLogs(s) == [k \in DOMAIN s |-> LogOf(s[k])]

EntryLog(c, d) == Cat(LogOf(d), Entered(One(c), ValueOf(d)))

EntryLogs(s) == [k \in DOMAIN s |-> EntryLog(s[k][1], s[k][2])]

LEMMA ReadableIf ==
  ASSUME NEW d, NEW log, ReadsAs(Encode[d], log, ValueOf(d))
  PROVE  Readable(d)
<1>1. ReadsAs(Encode[d], LogOf(d), ValueOf(d))
  BY Zenon DEF LogOf
<1> QED  BY <1>1 DEF Readable

LEMMA ReadableIs ==
  ASSUME NEW d, Readable(d)
  PROVE  LogOf(d) \in Logs /\ ValueOf(d) \in Text /\ Encode[d] \in Text
BY DEF Readable, ReadsAs, Begins

LEMMA ValuesAre ==
  ASSUME NEW c
  PROVE  /\ ValueOf(Number(c)) = Decimal[c] /\ ValueOf(String(c)) = c
         /\ ValueOf(ListOf(c)) = None /\ ValueOf(Dictionary(c)) = None
BY KindsAre DEF ValueOf

(* The logs of a list's documents and of a dictionary's entries.            *)
LEMMA ListItemsRead ==
  ASSUME NEW s, ListOf(s) \in AllDocuments, \A i \in 1 .. Size(s) : Readable(s[i])
  PROVE  ItemsRead(ListParts(Encode, s), ListLogs(s))
<1>1. /\ s \in Strings(AllDocuments)
      /\ ListParts(Encode, s) \in Strings(Text) /\ Size(ListParts(Encode, s)) = Size(s)
  BY ListIsWritten
<1>2. DOMAIN s = 1 .. Len(s) /\ Len(s) \in Nat /\ Size(s) = Len(s)
  BY <1>1 DEF Strings, Size
<1>3. ASSUME NEW i \in 1 .. Len(s) PROVE LogOf(s[i]) \in Logs
  BY <1>2, <1>3, ReadableIs
<1>4. ListLogs(s) \in Strings(Logs) /\ Size(ListLogs(s)) = Size(s)
  BY <1>2, <1>3 DEF ListLogs, Strings, Size
<1>5. ASSUME NEW i \in 1 .. Size(s)
      PROVE  \E value \in Text : ReadsAs(ListParts(Encode, s)[i], ListLogs(s)[i], value)
  <2>1. ReadsAs(Encode[s[i]], LogOf(s[i]), ValueOf(s[i])) /\ ValueOf(s[i]) \in Text
    BY ReadableIs DEF Readable
  <2>2. ListParts(Encode, s)[i] = Encode[s[i]] /\ ListLogs(s)[i] = LogOf(s[i])
    BY <1>2 DEF ListParts, ListLogs
  <2> QED  BY <2>1, <2>2
<1> QED  BY <1>1, <1>4, <1>5 DEF ItemsRead

LEMMA EntryLogsType ==
  ASSUME NEW s, Dictionary(s) \in AllDocuments, \A i \in 1 .. Size(s) : Readable(s[i][2])
  PROVE  /\ EntryLogs(s) \in Strings(Logs) /\ Size(EntryLogs(s)) = Size(s)
         /\ \A i \in 1 .. Size(s) :
              /\ s[i][1] \in Nat /\ s[i][2] \in AllDocuments
              /\ EntryLogs(s)[i] = EntryLog(s[i][1], s[i][2])
              /\ EntryParts(Encode, s)[i] = EntryText(s[i][1], Encode[s[i][2]])
              /\ EntryLog(s[i][1], s[i][2]) \in Logs
<1>1. s \in Strings(Nat \X AllDocuments)
  BY DictionaryIsWritten
<1>2. DOMAIN s = 1 .. Len(s) /\ Len(s) \in Nat /\ Size(s) = Len(s)
  BY <1>1 DEF Strings, Size
<1>3. ASSUME NEW i \in 1 .. Len(s)
      PROVE  s[i][1] \in Nat /\ s[i][2] \in AllDocuments /\ EntryLog(s[i][1], s[i][2]) \in Logs
  <2>1. s[i] \in Nat \X AllDocuments
    BY <1>1, <1>2, ElementType
  <2> DEFINE c == s[i][1]
             d == s[i][2]
  <2>2. c \in Nat /\ d \in AllDocuments /\ Readable(d)
    BY <1>2, <2>1
  <2> HIDE DEF c, d
  <2>3. LogOf(d) \in Logs /\ ValueOf(d) \in Text
    BY <2>2, ReadableIs
  <2>4. Entered(One(c), ValueOf(d)) \in Logs
    <3>1. One(c) \in Text
      BY <2>2, OneType, TextIs
    <3> QED  BY <2>3, <3>1, OneType, LogsAre DEF Entered
  <2>5. EntryLog(c, d) \in Logs
    BY <2>3, <2>4, LogsJoin DEF EntryLog
  <2> QED  BY <2>2, <2>5 DEF c, d
<1>4. EntryLogs(s) \in Strings(Logs) /\ Size(EntryLogs(s)) = Size(s)
  BY <1>2, <1>3 DEF EntryLogs, Strings, Size
<1>5. ASSUME NEW i \in 1 .. Len(s)
      PROVE  /\ EntryLogs(s)[i] = EntryLog(s[i][1], s[i][2])
             /\ EntryParts(Encode, s)[i] = EntryText(s[i][1], Encode[s[i][2]])
  BY <1>2 DEF EntryLogs, EntryParts, EntryText
<1> QED  BY <1>2, <1>3, <1>4, <1>5

(* The entry of the last `info' of a dictionary, or 0.                      *)
LastInfo(s, last) ==
  /\ last \in 0 .. Size(s) /\ (last # 0 => s[last][1] = InfoKey)
  /\ \A i \in 1 .. Size(s) : i > last => s[i][1] # InfoKey

LEMMA LastInfoExists ==
  ASSUME NEW S, NEW s \in Strings(S)
  PROVE  \E last : LastInfo(s, last)
<1> DEFINE t == {i \in 1 .. Size(s) : s[i][1] = InfoKey}
<1>1. Size(s) \in Nat
  BY SizeIsNat
<1>2. CASE t = {}
  <2>1. LastInfo(s, 0)
    BY <1>1, <1>2 DEF LastInfo
  <2> QED  BY <2>1
<1>3. CASE t # {}
  <2>1. Max(t) \in t /\ \A x \in t : x <= Max(t)
    <3>1. t \in SUBSET (1 .. Size(s))
      OBVIOUS
    <3> HIDE DEF t
    <3> QED  BY <1>1, <1>3, <3>1, MaxOfNumbers
  <2> DEFINE m == Max(t)
  <2> HIDE DEF m
  <2>2. m \in t /\ \A x \in t : x <= m
    BY <2>1 DEF m
  <2>3. m \in 1 .. Size(s) /\ s[m][1] = InfoKey
    BY <2>2
  <2>4. ASSUME NEW i \in 1 .. Size(s), i > m PROVE s[i][1] # InfoKey
    BY <1>1, <2>2, <2>3, <2>4
  <2>5. LastInfo(s, m)
    BY <1>1, <2>3, <2>4 DEF LastInfo
  <2> QED  BY <2>5
<1> QED  BY <1>2, <1>3

LEMMA DictAll ==
  ASSUME NEW s, Dictionary(s) \in AllDocuments, \A i \in 1 .. Size(s) : Readable(s[i][2]),
         NEW last, LastInfo(s, last), NEW post \in Text
  PROVE  /\ DictFrom(FlattenSeq(EntryParts(Encode, s)), post, FlattenSeq(EntryLogs(s)),
                     IF last = 0 THEN None ELSE Encode[s[last][2]])
         /\ FlattenSeq(EntryParts(Encode, s)) \in Text /\ FlattenSeq(EntryLogs(s)) \in Logs
<1> DEFINE n == Size(s)
           parts == EntryParts(Encode, s)
           logs == EntryLogs(s)
           found(k) == IF k < last THEN Encode[s[last][2]] ELSE None
<1>1. /\ parts \in Strings(Text) /\ Size(parts) = n /\ s \in Strings(Nat \X AllDocuments)
      /\ logs \in Strings(Strings(Text \X Text)) /\ Size(logs) = n
  BY EntryLogsType, DictionaryIsWritten, LogsAre
<1>2. \A i \in 1 .. n : /\ s[i][1] \in Nat /\ s[i][2] \in AllDocuments
                        /\ logs[i] = EntryLog(s[i][1], s[i][2])
                        /\ parts[i] = EntryText(s[i][1], Encode[s[i][2]])
                        /\ Readable(s[i][2])
  BY EntryLogsType
<1> HIDE DEF parts, logs
<1>3. n \in Nat /\ last \in Nat
  BY <1>1, SizeIsNat DEF LastInfo
<1>4. PICK rest : Remainders(rest, parts)
  BY <1>1, FlattenParts
<1>5. PICK later : RemaindersOf(Text \X Text, later, logs)
  BY <1>1, FlattenPartsOf
<1>6. /\ rest \in [0 .. n -> Text] /\ rest[0] = FlattenSeq(parts) /\ rest[n] = None
      /\ \A k \in 1 .. n : rest[k - 1] = Cat(parts[k], rest[k])
  BY <1>1, <1>4 DEF Remainders
<1>7. /\ later \in [0 .. n -> Logs] /\ later[0] = FlattenSeq(logs) /\ later[n] = None
      /\ \A k \in 1 .. n : later[k - 1] = Cat(logs[k], later[k])
  BY <1>1, <1>5, LogsAre DEF RemaindersOf
<1>8. /\ last <= n /\ last # 0 => last \in 1 .. n /\ s[last][1] = InfoKey
      /\ \A i \in 1 .. n : i > last => s[i][1] # InfoKey
  BY <1>3 DEF LastInfo
<1>9. last <= n
  BY <1>3 DEF LastInfo
<1>10. ASSUME NEW k \in 1 .. n
       PROVE  found(k - 1) = IF found(k) # None THEN found(k)
                             ELSE IF s[k][1] = InfoKey THEN Encode[s[k][2]] ELSE None
  <2>1. \A i \in 1 .. n : Encode[s[i][2]] # None
    <3> TAKE i \in 1 .. n
    <3>1. Begins(Encode[s[i][2]])
      BY <1>2 DEF Readable, ReadsAs
    <3>2. Size(None) = 0
      BY NoneType
    <3> QED  BY <3>1, <3>2 DEF Begins
  <2>2. CASE k < last
    <3>1. k - 1 < last /\ last \in 1 .. n
      BY <1>3, <1>8, <1>9, <2>2
    <3> QED  BY <2>1, <2>2, <3>1
  <2>3. CASE k = last
    <3>1. k - 1 < last /\ ~(k < last) /\ s[k][1] = InfoKey
      BY <1>3, <1>8, <2>3
    <3> QED  BY <2>3, <3>1
  <2>4. CASE k > last
    <3>1. ~(k - 1 < last) /\ ~(k < last) /\ s[k][1] # InfoKey
      BY <1>3, <1>8, <2>4
    <3> QED  BY <3>1
  <2> QED  BY <1>3, <2>2, <2>3, <2>4
<1> HIDE DEF n, found
<1> DEFINE T == {k \in 0 .. n : DictFrom(rest[k], post, later[k], found(k))}
<1>11. n \in T
  <2>1. DictFrom(None, post, None, None)
    BY DictNone
  <2>2. n \in 0 .. n /\ found(n) = None
    BY <1>3, <1>9 DEF found
  <2> QED  BY <1>6, <1>7, <2>1, <2>2
<1>12. ASSUME NEW k \in 1 .. n, k \in T PROVE k - 1 \in T
  <2> DEFINE c == s[k][1]
             d == s[k][2]
  <2>1. k \in 0 .. n /\ k - 1 \in 0 .. n
    BY <1>3
  <2>2. /\ c \in Nat /\ d \in AllDocuments /\ logs[k] = EntryLog(c, d)
        /\ parts[k] = EntryText(c, Encode[d])
        /\ ReadsAs(Encode[d], LogOf(d), ValueOf(d))
    BY <1>2 DEF Readable
  <2>3. DictFrom(rest[k], post, later[k], found(k)) /\ rest[k] \in Text /\ later[k] \in Logs
    BY <1>6, <1>7, <1>12, <2>1
  <2>4. found(k - 1) = IF found(k) # None THEN found(k)
                       ELSE IF c = InfoKey THEN Encode[d] ELSE None
    BY <1>10
  <2> HIDE DEF c, d, T
  <2>5. DictFrom(Cat(EntryText(c, Encode[d]), rest[k]), post,
                 Cat(Cat(LogOf(d), Entered(One(c), ValueOf(d))), later[k]),
                 IF found(k) # None THEN found(k) ELSE IF c = InfoKey THEN Encode[d] ELSE None)
    BY <2>2, <2>3, DictMore
  <2>6. rest[k - 1] = Cat(EntryText(c, Encode[d]), rest[k])
        /\ later[k - 1] = Cat(Cat(LogOf(d), Entered(One(c), ValueOf(d))), later[k])
    BY <1>6, <1>7, <2>2 DEF EntryLog
  <2>7. DictFrom(rest[k - 1], post, later[k - 1], found(k - 1))
    BY <2>4, <2>5, <2>6, Zenon
  <2> QED  BY <2>1, <2>7 DEF T
<1>13. 0 \in T
  <2>1. T \in SUBSET (0 .. n)
    OBVIOUS
  <2> HIDE DEF T
  <2> QED  BY <1>3, <1>11, <1>12, <2>1, FromTheLast
<1>14. found(0) = IF last = 0 THEN None ELSE Encode[s[last][2]]
  BY <1>3 DEF found
<1>15. 0 \in 0 .. n
  BY <1>3
<1>16. DictFrom(rest[0], post, later[0], found(0)) /\ rest[0] \in Text /\ later[0] \in Logs
  BY <1>6, <1>7, <1>13, <1>15
<1> QED  BY <1>6, <1>7, <1>14, <1>16, Zenon DEF parts, logs

LEMMA DictionaryRead ==
  ASSUME NEW b \in Text, NEW log \in Logs, NEW info, NEW post \in Text,
         DictFrom(b, post, log, info),
         NEW pre \in Text, NEW l \in Logs, NEW s \in Sections, NEW v \in Text
  PROVE  \E s2 \in Sections :
           /\ Outcome(pre, Enclosed(Dict, b), post, l, s, v)
                = StateAt(EndsAt(pre, Enclosed(Dict, b)), Cat(l, log), s2, None)
           /\ info # None =>
                SubSeq(Cat(pre, Cat(Enclosed(Dict, b), post)), s2[1], s2[2] - 1) = info
<1> DEFINE e == Enclosed(Dict, b)
           text == Cat(pre, Cat(e, post))
           state == StateAt(Size(pre) + 1, l, s, v)
           front == Cat(pre, One(Dict))
<1>1. /\ text \in Text /\ text = ListText(front, b, post) /\ text[Size(pre) + 1] = Dict
      /\ front \in Text /\ Size(front) = Size(pre) + 1 /\ EndsAt(front, b) + 1 = EndsAt(pre, e)
      /\ ~AtEnd(text, state)
  <2>1. Dict \in Nat /\ Dict # End
    BY DEF Dict, End
  <2> QED  BY <2>1, EnclosedIs
<1>2. state \in ParseState /\ state.index = Size(pre) + 1 /\ state.ok
  BY PlaceIs
<1>3. Begun(state) = StateAt(Size(pre) + 1 + 1, l, s, v)
  <2>1. Size(pre) + 1 \in Nat \ {0}
    BY SizeIsNat, TextIs
  <2> QED  BY <2>1, BegunTo
<1> HIDE DEF text, state, front
<1>4. Parser[NextCall(text, state)] = Parser[DictCall(text, state)]
  <2>1. Parser[NextCall(text, state)]
          = ProcessWith(text, state, Parser[DictCall(text, state)],
                        Parser[ListCall(text, state)])
    BY <1>1, <1>2, LocalsAre, ParserProcess DEF NextCall
  <2> QED  BY <1>1, <1>2, <2>1, BeginningTells
<1>5. DictCall(text, state) = LoopCall(text, Begun(state), NewLocals)
  BY Zenon DEF DictCall, LoopCall, Begun
<1>6. NewLocals = Resting(-1, -1)
  BY Zenon DEF NewLocals, Resting, Pending, None
<1>7. ReadAll(ListText(front, b, post), StateAt(Size(front) + 1, l, s, v), -1, -1,
              EndsAt(front, b) + 1, Cat(l, log), info)
  <2>1. \A p \in Text, m \in Logs, t \in Sections, w \in Text, i \in Int, j \in Int :
          ReadAll(ListText(p, b, post), StateAt(Size(p) + 1, m, t, w), i, j,
                  EndsAt(p, b) + 1, Cat(m, log), info)
    BY Zenon DEF DictFrom
  <2>2. -1 \in Int
    OBVIOUS
  <2> QED  BY <1>1, <2>1, <2>2
<1>8. ReadAll(text, Begun(state), -1, -1, EndsAt(pre, e), Cat(l, log), info)
  BY <1>1, <1>3, <1>7, Zenon
<1>9. PICK s1 \in Sections, first \in Int, last \in Int :
        /\ InfoKept(info, text, -1, -1, first, last)
        /\ Parser[LoopCall(text, Begun(state), Resting(-1, -1))]
             = StateAt(EndsAt(pre, e), Cat(l, log), Kept(s1, first, last), None)
  BY <1>8, Zenon DEF ReadAll
<1> DEFINE s2 == Kept(s1, first, last)
<1>10. s2 \in Sections
  BY DEF Kept, Sections
<1>11. info # None => SubSeq(text, s2[1], s2[2] - 1) = info
  <2> SUFFICES ASSUME info # None PROVE SubSeq(text, s2[1], s2[2] - 1) = info
    OBVIOUS
  <2>1. first # -1 /\ last # -1 /\ SubSeq(text, first, last - 1) = info
    BY <1>9, Zenon DEF InfoKept
  <2>2. s2 = <<first, last>>
    BY <2>1, Zenon DEF Kept
  <2>3. s2[1] = first /\ s2[2] = last
    BY <2>2
  <2> QED  BY <2>1, <2>3
<1>12. Outcome(pre, e, post, l, s, v) = StateAt(EndsAt(pre, e), Cat(l, log), s2, None)
  BY <1>4, <1>5, <1>6, <1>9, Zenon DEF Outcome, text, state
<1> HIDE DEF s2
<1> QED  BY <1>10, <1>11, <1>12, Zenon DEF text

LEMMA NumberReads ==
  ASSUME NEW n \in Nat
  PROVE  Number(n) \in AllDocuments /\ ReadsAs(Encode[Number(n)], None, Decimal[n])
<1>1. Number(n) \in AllDocuments /\ Encode[Number(n)] = Enclosed(Integer, Decimal[n])
  BY LeavesAreDocuments, NumberIsWritten DEF LeafDocuments
<1>2. Decimal[n] \in Text /\ None \in Text /\ Integer \in Nat /\ Integer # End /\ None \in Logs
  BY DecimalType, NoneType, TextIs, LogsAre DEF Integer, End
<1>3. Begins(Encode[Number(n)])
  BY <1>1, <1>2, EnclosedIs
<1>4. ASSUME NEW pre \in Text, NEW post \in Text, NEW l \in Logs, NEW s \in Sections,
             NEW v \in Text
      PROVE  Outcome(pre, Encode[Number(n)], post, l, s, v)
               = StateAt(EndsAt(pre, Encode[Number(n)]), Cat(l, None), s, Decimal[n])
  <2>1. Cat(l, None) = l
    BY LogsJoin
  <2> QED  BY <2>1, NumberIsRead
<1>5. ReadsAs(Encode[Number(n)], None, Decimal[n])
  BY <1>2, <1>3, <1>4 DEF ReadsAs
<1> QED  BY <1>1, <1>5

LEMMA StringReads ==
  ASSUME NEW b \in Text
  PROVE  String(b) \in AllDocuments /\ ReadsAs(Encode[String(b)], None, b)
<1>1. String(b) \in AllDocuments /\ Encode[String(b)] = EncodeString(b)
  BY LeavesAreDocuments, StringIsWritten DEF LeafDocuments
<1>2. None \in Logs
  BY NoneType, LogsAre
<1>3. Begins(EncodeString(b))
  BY StringBegins
<1>4. ASSUME NEW pre \in Text, NEW post \in Text, NEW l \in Logs, NEW s \in Sections,
             NEW v \in Text
      PROVE  Outcome(pre, EncodeString(b), post, l, s, v)
               = StateAt(EndsAt(pre, EncodeString(b)), Cat(l, None), s, b)
  <2>1. Cat(l, None) = l
    BY LogsJoin
  <2> QED  BY <2>1, StringIsRead
<1>5. ReadsAs(EncodeString(b), None, b)
  BY <1>2, <1>3, <1>4 DEF ReadsAs
<1> QED  BY <1>1, <1>5

LEMMA ListReads ==
  ASSUME NEW s, ListOf(s) \in AllDocuments, \A i \in 1 .. Size(s) : Readable(s[i])
  PROVE  ReadsAs(Encode[ListOf(s)], FlattenSeq(ListLogs(s)), None)
<1>1. ItemsRead(ListParts(Encode, s), ListLogs(s))
  BY ListItemsRead
<1>2. ReadsAs(Enclosed(List, FlattenSeq(ListParts(Encode, s))), FlattenSeq(ListLogs(s)), None)
  BY <1>1, ListIsRead
<1>3. Encode[ListOf(s)] = Enclosed(List, FlattenSeq(ListParts(Encode, s)))
  BY ListIsWritten
<1> QED  BY <1>2, <1>3

(* Of a dictionary with `info' in it, that is the section.                  *)
LEMMA DictionaryOutcome ==
  ASSUME NEW s, Dictionary(s) \in AllDocuments, \A i \in 1 .. Size(s) : Readable(s[i][2]),
         NEW last, LastInfo(s, last), NEW pre \in Text, NEW post \in Text, NEW l \in Logs,
         NEW s0 \in Sections, NEW v \in Text
  PROVE  \E s2 \in Sections :
           /\ Outcome(pre, Encode[Dictionary(s)], post, l, s0, v)
                = StateAt(EndsAt(pre, Encode[Dictionary(s)]), Cat(l, FlattenSeq(EntryLogs(s))),
                          s2, None)
           /\ last # 0 => SubSeq(Cat(pre, Cat(Encode[Dictionary(s)], post)), s2[1], s2[2] - 1)
                            = Encode[s[last][2]]
<1> DEFINE b == FlattenSeq(EntryParts(Encode, s))
           log == FlattenSeq(EntryLogs(s))
           info == IF last = 0 THEN None ELSE Encode[s[last][2]]
           e == Encode[Dictionary(s)]
<1>1. b \in Text /\ log \in Logs /\ DictFrom(b, post, log, info)
  BY DictAll
<1>2. e = Enclosed(Dict, b)
  BY DictionaryIsWritten
<1>3. last # 0 => info = Encode[s[last][2]] /\ info # None
  <2> SUFFICES ASSUME last # 0 PROVE info = Encode[s[last][2]] /\ info # None
    OBVIOUS
  <2>1. last \in 1 .. Size(s)
    <3>1. Size(s) \in Nat
      BY DictionaryIsWritten, SizeIsNat
    <3> QED  BY <3>1 DEF LastInfo
  <2>2. Begins(Encode[s[last][2]]) /\ Size(None) = 0
    BY <2>1, NoneType DEF Readable, ReadsAs
  <2> QED  BY <2>2 DEF Begins
<1> HIDE DEF b, log, info, e
<1>4. \E s2 \in Sections :
        /\ Outcome(pre, e, post, l, s0, v) = StateAt(EndsAt(pre, e), Cat(l, log), s2, None)
        /\ info # None => SubSeq(Cat(pre, Cat(e, post)), s2[1], s2[2] - 1) = info
  <2> DEFINE Good(x, s2) ==
               /\ Outcome(pre, x, post, l, s0, v) = StateAt(EndsAt(pre, x), Cat(l, log), s2, None)
               /\ info # None => SubSeq(Cat(pre, Cat(x, post)), s2[1], s2[2] - 1) = info
  <2>1. \E s2 \in Sections : Good(Enclosed(Dict, b), s2)
    BY <1>1, DictionaryRead
  <2> HIDE DEF Good
  <2>2. \E s2 \in Sections : Good(e, s2)
    BY <1>2, <2>1, Zenon
  <2> QED  BY <2>2 DEF Good
<1>5. \E s2 \in Sections :
        /\ Outcome(pre, e, post, l, s0, v) = StateAt(EndsAt(pre, e), Cat(l, log), s2, None)
        /\ last # 0 => SubSeq(Cat(pre, Cat(e, post)), s2[1], s2[2] - 1) = Encode[s[last][2]]
  BY <1>3, <1>4
<1> QED  BY <1>5 DEF e, log

LEMMA DictionaryReads ==
  ASSUME NEW s, Dictionary(s) \in AllDocuments, \A i \in 1 .. Size(s) : Readable(s[i][2])
  PROVE  ReadsAs(Encode[Dictionary(s)], FlattenSeq(EntryLogs(s)), None)
<1> DEFINE b == FlattenSeq(EntryParts(Encode, s))
           log == FlattenSeq(EntryLogs(s))
           e == Encode[Dictionary(s)]
<1>1. PICK last : LastInfo(s, last)
  BY DictionaryIsWritten, LastInfoExists
<1>2. None \in Text /\ Dict \in Nat /\ Dict # End
  BY NoneType, TextIs DEF Dict, End
<1>3. b \in Text /\ log \in Logs
  BY <1>1, <1>2, DictAll
<1>4. e = Enclosed(Dict, b)
  BY DictionaryIsWritten
<1>5. ASSUME NEW pre \in Text, NEW post \in Text, NEW l \in Logs, NEW s0 \in Sections,
             NEW v \in Text
      PROVE  \E s2 \in Sections :
               Outcome(pre, e, post, l, s0, v) = StateAt(EndsAt(pre, e), Cat(l, log), s2, None)
  BY <1>1, DictionaryOutcome
<1> HIDE DEF b, log, e
<1>6. Begins(e)
  BY <1>2, <1>3, <1>4, EnclosedIs
<1>7. ReadsAs(e, log, None)
  BY <1>2, <1>3, <1>5, <1>6 DEF ReadsAs
<1> QED  BY <1>7 DEF e, log

(* Whatever is before and behind it, a document that is written is read to  *)
(* its end, what it assigns comes behind what there was, and the value is   *)
(* the document's (BencodeParser::Process and the functions it calls).      *)
THEOREM DocumentIsReadBack ==
  ASSUME NEW d \in AllDocuments
  PROVE  Readable(d)
<1> DEFINE T == {x \in AllDocuments : Readable(x)}
<1>1. ASSUME NEW n \in Nat PROVE Number(n) \in T
  BY NumberReads, ValuesAre, ReadableIf
<1>2. ASSUME NEW b \in Text PROVE String(b) \in T
  BY StringReads, ValuesAre, ReadableIf
<1>3. ASSUME NEW s \in Strings(AllDocuments), ListOf(s) \in AllDocuments,
             \A i \in 1 .. Size(s) : s[i] \in T
      PROVE  ListOf(s) \in T
  BY <1>3, ListReads, ValuesAre, ReadableIf
<1>4. ASSUME NEW s \in Strings(Nat \X AllDocuments), Dictionary(s) \in AllDocuments,
             \A i \in 1 .. Size(s) : s[i][2] \in T
      PROVE  Dictionary(s) \in T
  BY <1>4, DictionaryReads, ValuesAre, ReadableIf
<1>5. AllDocuments \subseteq T
  <2> HIDE DEF T
  <2> QED  BY <1>1, <1>2, <1>3, <1>4, DocumentInduction
<1> QED  BY <1>5

-----------------------------------------------------------------------------
(* What is cut short is not read.                                           *)
Cut(q, b) == q \in Text /\ \E r \in Text : b = Cat(q, r) /\ Size(r) >= 1

LEMMA CutOfCat ==
  ASSUME NEW a \in Text, NEW t \in Text, NEW q, Cut(q, Cat(a, t))
  PROVE  Cut(q, a) \/ \E p \in Text : q = Cat(a, p) /\ Cut(p, t)
<1>1. PICK r \in Text : Cat(a, t) = Cat(q, r) /\ Size(r) >= 1 /\ q \in Text
  BY DEF Cut
<1>2. /\ a \in Strings(Nat) /\ t \in Strings(Nat) /\ q \in Strings(Nat) /\ r \in Strings(Nat)
      /\ Size(a) \in Nat /\ Size(q) \in Nat
  BY <1>1, TextIs, SizeIsNat
<1>3. CASE Size(q) < Size(a)
  <2>1. PICK w \in Strings(Nat) : a = Cat(q, w) /\ r = Cat(w, t)
    <3>1. Cat(q, r) = Cat(a, t) /\ Size(q) <= Size(a)
      BY <1>1, <1>2, <1>3
    <3> QED  BY <1>2, <3>1, CutLater
  <2>2. Size(a) = Size(q) + Size(w) /\ Size(w) \in Nat
    BY <1>2, <2>1, CatType, SizeIsNat
  <2>3. Size(w) >= 1
    BY <1>2, <1>3, <2>2
  <2> QED  BY <1>1, <2>1, <2>3, TextIs DEF Cut
<1>4. CASE ~(Size(q) < Size(a))
  <2>1. PICK w \in Strings(Nat) : q = Cat(a, w) /\ t = Cat(w, r)
    <3>1. Cat(a, t) = Cat(q, r) /\ Size(a) <= Size(q)
      BY <1>1, <1>2, <1>4
    <3> QED  BY <1>2, <3>1, CutLater
  <2> QED  BY <1>1, <2>1, TextIs DEF Cut
<1> QED  BY <1>3, <1>4

LEMMA CutOfOne ==
  ASSUME NEW c \in Nat, NEW q, Cut(q, One(c))
  PROVE  q = None
<1>1. PICK r \in Text : One(c) = Cat(q, r) /\ Size(r) >= 1 /\ q \in Text
  BY DEF Cut
<1>2. Size(One(c)) = 1 /\ Size(Cat(q, r)) = Size(q) + Size(r) /\ Size(q) \in Nat /\ Size(r) \in Nat
      /\ q \in Strings(Nat)
  BY <1>1, OneType, TextIs, CatType, SizeIsNat
<1>3. Size(q) = 0
  BY <1>1, <1>2
<1> QED  BY <1>2, <1>3, NoneSize

LEMMA CutElements ==
  ASSUME NEW b \in Text, NEW q, Cut(q, b)
  PROVE  /\ q \in Text /\ Size(q) \in Nat /\ Size(q) < Size(b)
         /\ \A i \in 1 .. Size(q) : q[i] = b[i] /\ i \in 1 .. Size(b)
<1>1. PICK r \in Text : b = Cat(q, r) /\ Size(r) >= 1 /\ q \in Text
  BY DEF Cut
<1>2. /\ Size(b) = Size(q) + Size(r) /\ Size(q) \in Nat /\ Size(r) \in Nat
      /\ q \in Strings(Nat) /\ r \in Strings(Nat)
  BY <1>1, TextIs, CatType, SizeIsNat
<1>3. ASSUME NEW i \in 1 .. Size(q) PROVE q[i] = b[i] /\ i \in 1 .. Size(b)
  <2>1. i \in Nat /\ 1 <= i /\ i <= Size(q)
    BY <1>2
  <2>2. Cat(q, r)[i] = q[i]
    BY <1>2, <2>1, ElementInFront
  <2> QED  BY <1>1, <1>2, <2>2
<1> QED  BY <1>1, <1>2, <1>3

(* A text at the end of what there is.                                      *)
LEMMA LastIs ==
  ASSUME NEW pre \in Text, NEW b \in Text
  PROVE  /\ Cat(pre, b) \in Text /\ Placed(Cat(pre, b), pre, b)
         /\ Len(Cat(pre, b)) = Len(pre) + Len(b) /\ Len(pre) \in Nat /\ Len(b) \in Nat
         /\ Size(pre) = Len(pre) /\ Size(b) = Len(b) /\ Cat(b, None) = b
<1>1. None \in Text /\ b \in Strings(Nat)
  BY NoneType, TextIs
<1>2. Cat(b, None) = b
  BY <1>1, CatNone
<1>3. Placed(Cat(pre, Cat(b, None)), pre, b) /\ Cat(pre, b) \in Text
      /\ Size(Cat(pre, b)) = Size(pre) + Size(b) /\ Size(pre) \in Nat /\ Size(b) \in Nat
  BY <1>1, PlacedIs
<1> QED  BY <1>2, <1>3 DEF Size

LEMMA UntilFails ==
  ASSUME NEW pre \in Text, NEW b \in Text, NEW c \in Nat,
         NEW l \in Logs, NEW s \in Sections, NEW v \in Text, Without(b, c)
  PROVE  ~ReadUntilDelimiter(Cat(pre, b), StateAt(Size(pre) + 1, l, s, v), c).ok
<1> DEFINE text == Cat(pre, b)
           state == StateAt(Size(pre) + 1, l, s, v)
           found == {k \in state.index .. Len(text) : text[k] = c}
<1>1. /\ Placed(text, pre, b) /\ Len(text) = Len(pre) + Len(b) /\ Len(pre) \in Nat
      /\ Len(b) \in Nat /\ Size(pre) = Len(pre) /\ Size(b) = Len(b)
  BY LastIs
<1> HIDE DEF text
<1>2. state \in ParseState /\ state.index = Size(pre) + 1
  BY PlaceIs
<1> HIDE DEF state
<1>3. ASSUME NEW k \in state.index .. Len(text) PROVE text[k] # c
  <2>1. k - Len(pre) \in 1 .. Len(b) /\ Len(pre) + (k - Len(pre)) = k
    BY <1>1, <1>2
  <2>2. text[k] = b[k - Len(pre)]
    BY <1>1, <2>1 DEF Placed
  <2>3. b[k - Len(pre)] # c
    BY <1>1, <2>1 DEF Without
  <2> QED  BY <2>2, <2>3
<1>4. found = {}
  BY <1>3
<1>5. ReadUntilDelimiter(text, state, c) = Throw(state)
  BY <1>4, Zenon DEF ReadUntilDelimiter
<1>6. Throw(state).ok = FALSE
  BY <1>2, StateChanges
<1> QED  BY <1>5, <1>6 DEF text, state

LEMMA FixedFails ==
  ASSUME NEW pre \in Text, NEW b \in Text, NEW n \in Nat, Size(b) < n,
         NEW l \in Logs, NEW s \in Sections, NEW v \in Text
  PROVE  ~ReadFixedAmount(Cat(pre, b), StateAt(Size(pre) + 1, l, s, v), n).ok
<1> DEFINE text == Cat(pre, b)
           state == StateAt(Size(pre) + 1, l, s, v)
<1>1. /\ Len(text) = Len(pre) + Len(b) /\ Len(pre) \in Nat
      /\ Len(b) \in Nat /\ Size(pre) = Len(pre) /\ Size(b) = Len(b)
  BY LastIs
<1> HIDE DEF text
<1>2. state \in ParseState /\ state.index = Size(pre) + 1
  BY PlaceIs
<1> HIDE DEF state
<1>3. state.index - 1 + n > Len(text)
  BY <1>1, <1>2
<1>4. ReadFixedAmount(text, state, n) = Throw(state)
  BY <1>3, Zenon DEF ReadFixedAmount
<1>5. Throw(state).ok = FALSE
  BY <1>2, StateChanges
<1> QED  BY <1>4, <1>5 DEF text, state

(* The three functions throw, where they are called at such a text.         *)
NextFails(q) ==
  \A pre \in Text, l \in Logs, s \in Sections, v \in Text :
    ~Parser[NextCall(Cat(pre, q), StateAt(Size(pre) + 1, l, s, v))].ok

ListFails(q) ==
  \A pre \in Text, l \in Logs, s \in Sections, v \in Text :
    ~Parser[ItemCall(Cat(pre, q), StateAt(Size(pre) + 1, l, s, v))].ok

DictFails(q) ==
  \A pre \in Text, l \in Logs, s \in Sections, v \in Text, first \in Int, last \in Int :
    ~Parser[LoopCall(Cat(pre, q), StateAt(Size(pre) + 1, l, s, v), Resting(first, last))].ok

LEMMA HashInfoFails ==
  ASSUME NEW state \in ParseState, ~state.ok, NEW locals
  PROVE  ~HashInfo(state, locals).ok
BY DEF HashInfo

LEMMA TurnFails ==
  ASSUME NEW q \in Text, q = None \/ q[1] # End, NextFails(q), NEW pre \in Text,
         NEW l \in Logs, NEW s \in Sections, NEW v \in Text, NEW locals \in Locals
  PROVE  /\ ~Parser[ItemCall(Cat(pre, q), StateAt(Size(pre) + 1, l, s, v))].ok
         /\ ~Parser[LoopCall(Cat(pre, q), StateAt(Size(pre) + 1, l, s, v), locals)].ok
<1> DEFINE text == Cat(pre, q)
           state == StateAt(Size(pre) + 1, l, s, v)
           next == ReadOn(state, Parser[NextCall(text, state)])
<1>1. /\ text \in Text /\ Placed(text, pre, q) /\ Len(text) = Len(pre) + Len(q)
      /\ Len(pre) \in Nat /\ Len(q) \in Nat /\ Size(pre) = Len(pre) /\ Size(q) = Len(q)
  BY LastIs
<1>2. ~Parser[NextCall(text, state)].ok
  BY DEF NextFails
<1> HIDE DEF text
<1>3. state \in ParseState /\ state.index = Size(pre) + 1 /\ state.ok /\ NewLocals \in Locals
  BY PlaceIs, LocalsAre
<1> HIDE DEF state
<1>4. Parser[NextCall(text, state)] \in ParseState
  BY <1>1, <1>3, ParserProcess DEF NextCall
<1>5. ~next.ok
  BY <1>2, <1>3, <1>4, StateChanges DEF ReadOn
<1>6. /\ Parser[ItemCall(text, state)] = ListTurn(text, state, next)
      /\ Parser[LoopCall(text, state, locals)] = DictTurn(text, state, locals, next)
  <2> HIDE DEF next
  <2>1. Parser[CallOf("ProcessList", text, state, NewLocals)]
          = ListTurn(text, state, ReadOn(state, Parser[NextCall(text, state)]))
    BY <1>1, <1>3, ParserList
  <2>2. Parser[CallOf("ProcessDict", text, state, locals)]
          = DictTurn(text, state, locals, ReadOn(state, Parser[NextCall(text, state)]))
    BY <1>1, <1>3, ParserDict
  <2> QED  BY <2>1, <2>2, Zenon DEF ItemCall, LoopCall, next
<1> HIDE DEF next
<1>7. CASE LeavesLoop(text, state)
  <2>1. AtEnd(text, state)
    <3>1. CASE q = None
      <4>1. Len(q) = 0
        BY <3>1 DEF None
      <4> QED  BY <1>1, <1>3, <4>1 DEF AtEnd
    <3>2. CASE q # None
      <4>1. Len(q) # 0
        BY <1>1, <3>2, NoneSize, TextIs
      <4>2. 1 \in 1 .. Len(q)
        BY <1>1, <4>1
      <4>3. text[Len(pre) + 1] = q[1]
        BY <1>1, <4>2 DEF Placed
      <4> QED  BY <1>1, <1>3, <1>7, <3>2, <4>3 DEF LeavesLoop
    <3> QED  BY <3>1, <3>2
  <2>2. Close(text, state) = Throw(state)
    BY <2>1, Zenon DEF Close
  <2>3. Throw(state) \in ParseState /\ ~Throw(state).ok
    BY <1>3, StateChanges
  <2>4. ~HashInfo(Throw(state), locals).ok
    BY <2>3, HashInfoFails
  <2>5. ListTurn(text, state, next) = Throw(state)
        /\ DictTurn(text, state, locals, next) = HashInfo(Throw(state), locals)
    BY <1>7, <2>2, Zenon DEF ListTurn, DictTurn
  <2> QED  BY <1>6, <2>3, <2>4, <2>5 DEF text, state
<1>8. CASE ~LeavesLoop(text, state)
  <2>1. ListTurn(text, state, next) = next /\ DictTurn(text, state, locals, next) = next
    BY <1>5, <1>8, Zenon DEF ListTurn, DictTurn
  <2> QED  BY <1>5, <1>6, <2>1 DEF text, state
<1> QED  BY <1>7, <1>8

LEMMA NoneFails == NextFails(None)
<1> SUFFICES ASSUME NEW pre \in Text, NEW l \in Logs, NEW s \in Sections, NEW v \in Text
             PROVE  ~Parser[NextCall(Cat(pre, None), StateAt(Size(pre) + 1, l, s, v))].ok
  BY DEF NextFails
<1> DEFINE text == Cat(pre, None)
           state == StateAt(Size(pre) + 1, l, s, v)
<1>1. /\ text \in Text /\ Len(text) = Len(pre) + Len(None) /\ Len(pre) \in Nat
      /\ Size(pre) = Len(pre) /\ Len(None) = 0
  <2>1. None \in Text /\ Size(None) = 0
    BY NoneType, TextIs
  <2> QED  BY <2>1, LastIs DEF Size
<1> HIDE DEF text
<1>2. state \in ParseState /\ state.index = Size(pre) + 1 /\ state.ok /\ NewLocals \in Locals
  BY PlaceIs, LocalsAre
<1> HIDE DEF state
<1>3. AtEnd(text, state)
  BY <1>1, <1>2 DEF AtEnd
<1>4. Parser[NextCall(text, state)] = Throw(state)
  <2>1. Parser[NextCall(text, state)]
          = ProcessWith(text, state, Parser[DictCall(text, state)], Parser[ListCall(text, state)])
    BY <1>1, <1>2, ParserProcess DEF NextCall
  <2> QED  BY <1>3, <2>1, Zenon DEF ProcessWith
<1>5. ~Throw(state).ok
  BY <1>2, StateChanges
<1> QED  BY <1>4, <1>5 DEF text, state

LEMMA CutBegins ==
  ASSUME NEW b, Begins(b), NEW q, Cut(q, b)
  PROVE  q \in Text /\ (q = None \/ q[1] # End)
<1>1. b \in Text /\ b[1] # End
  BY DEF Begins
<1>2. /\ q \in Text /\ Size(q) \in Nat
      /\ \A i \in 1 .. Size(q) : q[i] = b[i]
  BY <1>1, CutElements
<1>3. CASE Size(q) = 0
  BY <1>2, <1>3, NoneSize, TextIs
<1>4. CASE Size(q) # 0
  <2>1. 1 \in 1 .. Size(q)
    BY <1>2, <1>4
  <2> QED  BY <1>1, <1>2, <2>1
<1> QED  BY <1>2, <1>3, <1>4

(* A call of Process, at a text that begins with a byte or a mark.          *)
LEMMA CallAt ==
  ASSUME NEW pre \in Text, NEW c \in Nat, NEW p \in Text,
         NEW l \in Logs, NEW s \in Sections, NEW v \in Text,
         NEW text, text = Cat(pre, Cat(One(c), p)),
         NEW state, state = StateAt(Size(pre) + 1, l, s, v),
         NEW front, front = Cat(pre, One(c))
  PROVE  /\ text \in Text /\ text = Cat(front, p) /\ front \in Text
         /\ state \in ParseState /\ state.ok /\ ~AtEnd(text, state) /\ text[state.index] = c
         /\ Begun(state) = StateAt(Size(front) + 1, l, s, v)
         /\ Parser[NextCall(text, state)]
              = ProcessWith(text, state, Parser[DictCall(text, state)],
                            Parser[ListCall(text, state)])
<1>1. One(c) \in Text /\ Size(One(c)) = 1
  BY OneType, TextIs
<1>2. /\ text \in Text /\ text = Cat(front, p) /\ front \in Text
      /\ Size(front) = Size(pre) + 1 /\ Size(pre) \in Nat
  BY <1>1, PlacedIs
<1>3. text[Size(pre) + 1] = c /\ ~AtEnd(text, state)
  BY ByteThere
<1>4. state \in ParseState /\ state.index = Size(pre) + 1 /\ state.ok
  BY PlaceIs
<1>5. Begun(state) = StateAt(Size(front) + 1, l, s, v)
  <2>1. Size(pre) + 1 \in Nat \ {0} /\ Size(front) + 1 = Size(pre) + 1 + 1
    BY <1>2
  <2>2. Begun(StateAt(Size(pre) + 1, l, s, v)) = StateAt(Size(pre) + 1 + 1, l, s, v)
    BY <2>1, BegunTo
  <2> QED  BY <2>1, <2>2
<1>6. Parser[NextCall(text, state)]
        = ProcessWith(text, state, Parser[DictCall(text, state)],
                      Parser[ListCall(text, state)])
  BY <1>2, <1>4, LocalsAre, ParserProcess DEF NextCall
<1> QED  BY <1>2, <1>3, <1>4, <1>5, <1>6

(* A number without its end.                                                *)
LEMMA NumberCut ==
  ASSUME NEW n \in Nat, NEW q, Cut(q, Encode[Number(n)])
  PROVE  NextFails(q)
<1> DEFINE b == Decimal[n]
           t == Cat(b, One(End))
<1>1. /\ b \in Text /\ One(Integer) \in Text /\ One(End) \in Text /\ Integer \in Nat /\ End \in Nat
  BY DecimalType, OneType, TextIs DEF Integer, End
<1>2. Encode[Number(n)] = Cat(One(Integer), t)
  BY NumberIsWritten DEF Enclosed
<1>3. Without(b, End)
  BY DecimalType DEF Digit, End, Without
<1> HIDE DEF b
<1>4. t \in Text
  BY <1>1, CatType, TextIs
<1> HIDE DEF t
<1>5. CASE Cut(q, One(Integer))
  BY <1>1, <1>5, CutOfOne, NoneFails
<1>6. CASE \E p \in Text : q = Cat(One(Integer), p) /\ Cut(p, t)
  <2>1. PICK p \in Text : q = Cat(One(Integer), p) /\ Cut(p, t)
    BY <1>6
  <2>2. Without(p, End)
    <3>1. Cut(p, b) \/ \E r \in Text : p = Cat(b, r) /\ Cut(r, One(End))
      BY <1>1, <2>1, CutOfCat DEF t
    <3>2. CASE Cut(p, b)
      <4>1. \A i \in 1 .. Size(p) : p[i] = b[i] /\ i \in 1 .. Size(b)
        BY <1>1, <3>2, CutElements
      <4> QED  BY <1>3, <4>1 DEF Without
    <3>3. CASE \E r \in Text : p = Cat(b, r) /\ Cut(r, One(End))
      <4>1. p = Cat(b, None)
        BY <1>1, <3>3, CutOfOne
      <4>2. p = b
        BY <1>1, <4>1, CatNone, TextIs
      <4> QED  BY <1>3, <4>2
    <3> QED  BY <3>1, <3>2, <3>3
  <2> SUFFICES ASSUME NEW pre \in Text, NEW l \in Logs, NEW s \in Sections, NEW v \in Text
               PROVE  ~Parser[NextCall(Cat(pre, q), StateAt(Size(pre) + 1, l, s, v))].ok
    BY DEF NextFails
  <2> DEFINE text == Cat(pre, q)
             state == StateAt(Size(pre) + 1, l, s, v)
             front == Cat(pre, One(Integer))
  <2>3. text = Cat(pre, Cat(One(Integer), p))
    BY <2>1
  <2> HIDE DEF text, state, front
  <2>4. /\ text = Cat(front, p) /\ front \in Text
        /\ state.ok /\ ~AtEnd(text, state) /\ text[state.index] = Integer
        /\ Begun(state) = StateAt(Size(front) + 1, l, s, v)
        /\ Parser[NextCall(text, state)]
             = ProcessWith(text, state, Parser[DictCall(text, state)],
                           Parser[ListCall(text, state)])
    BY <1>1, <2>1, <2>3, CallAt DEF state, front
  <2>5. Parser[NextCall(text, state)] = ReadUntilDelimiter(text, Begun(state), End)
    BY <2>4, BeginningTells
  <2>6. ~ReadUntilDelimiter(Cat(front, p), StateAt(Size(front) + 1, l, s, v), End).ok
    BY <1>1, <2>1, <2>2, <2>4, UntilFails
  <2>7. ~Parser[NextCall(text, state)].ok
    BY <2>4, <2>5, <2>6
  <2> QED  BY <2>7 DEF text, state
<1> QED  BY <1>1, <1>2, <1>4, <1>5, <1>6, CutOfCat

(* A string with too few bytes.                                             *)
LEMMA StringCut ==
  ASSUME NEW b \in Text, NEW q, Cut(q, EncodeString(b))
  PROVE  NextFails(q)
<1> DEFINE d == Decimal[Size(b)]
           t == Cat(One(Colon), b)
<1>1. Size(b) \in Nat
  BY SizeIsNat, TextIs
<1>2. /\ d \in Text /\ Size(d) >= 1 /\ Size(d) \in Nat /\ d[1] \in Digit /\ Without(d, Colon)
      /\ stoull(d) = Size(b)
  <2>1. /\ d \in Text /\ Size(d) >= 1 /\ Size(d) \in Nat
        /\ \A i \in 1 .. Size(d) : d[i] \in Digit
    BY <1>1, DecimalType, SizeIsNat, TextIs
  <2>2. stoull(d) = Size(b)
    BY <1>1, NumberIsReadBack
  <2> HIDE DEF d
  <2>3. Without(d, Colon)
    BY <2>1 DEF Without, Digit, Colon
  <2> QED  BY <2>1, <2>2, <2>3
<1>3. One(Colon) \in Text /\ Colon \in Nat /\ t \in Text
  BY OneType, CatType, TextIs DEF Colon
<1>4. EncodeString(b) = Cat(d, t)
  BY EncodeStringIs
<1> HIDE DEF d
<1>5. Begins(EncodeString(b))
  BY StringBegins
<1>6. q \in Text
  BY <1>5, CutBegins
<1>7. CASE q = None
  BY <1>7, NoneFails
<1>8. CASE q # None
  <2>1. \/ Without(q, Colon)
        \/ \E p \in Text : q = Cat(d, Cat(One(Colon), p)) /\ Cut(p, b)
    <3>1. CASE Cut(q, d)
      <4>1. \A i \in 1 .. Size(q) : q[i] = d[i] /\ i \in 1 .. Size(d)
        BY <1>2, <3>1, CutElements
      <4> QED  BY <1>2, <4>1 DEF Without
    <3>2. CASE \E p \in Text : q = Cat(d, p) /\ Cut(p, t)
      <4>1. PICK p \in Text : q = Cat(d, p) /\ Cut(p, t)
        BY <3>2
      <4>2. CASE Cut(p, One(Colon))
        <5>1. q = d
          BY <1>2, <1>3, <4>1, <4>2, CutOfOne, CatNone, TextIs
        <5> QED  BY <1>2, <5>1
      <4>3. CASE \E r \in Text : p = Cat(One(Colon), r) /\ Cut(r, b)
        BY <4>1, <4>3
      <4> QED  BY <1>3, <4>1, <4>2, <4>3, CutOfCat
    <3> HIDE DEF t
    <3> QED  BY <1>2, <1>3, <1>4, <3>1, <3>2, CutOfCat
  <2>2. q[1] \in Digit /\ Size(q) >= 1 /\ Size(q) \in Nat
    <3>1. /\ Size(q) \in Nat
          /\ \A i \in 1 .. Size(q) : q[i] = EncodeString(b)[i]
      BY <1>5, CutElements DEF Begins
    <3>2. Size(q) # 0
      BY <1>6, <1>8, NoneSize, TextIs
    <3>3. 1 \in 1 .. Size(q) /\ 1 \in Nat /\ 1 <= 1 /\ 1 <= Size(d)
      BY <1>2, <3>1, <3>2
    <3>4. Cat(d, t)[1] = d[1]
      BY <1>2, <1>3, <3>3, ElementInFront, TextIs
    <3> QED  BY <1>2, <1>4, <3>1, <3>2, <3>3, <3>4
  <2> SUFFICES ASSUME NEW pre \in Text, NEW l \in Logs, NEW s \in Sections, NEW v \in Text
               PROVE  ~Parser[NextCall(Cat(pre, q), StateAt(Size(pre) + 1, l, s, v))].ok
    BY DEF NextFails
  <2> DEFINE text == Cat(pre, q)
             state == StateAt(Size(pre) + 1, l, s, v)
             length == ReadUntilDelimiter(text, state, Colon)
  <2>3. /\ text \in Text /\ Placed(text, pre, q) /\ Len(text) = Len(pre) + Len(q)
        /\ Len(pre) \in Nat /\ Len(q) \in Nat /\ Size(pre) = Len(pre) /\ Size(q) = Len(q)
    BY <1>6, LastIs
  <2>4. state \in ParseState /\ state.index = Size(pre) + 1 /\ state.ok
    BY PlaceIs
  <2>5. text[state.index] \in Digit /\ ~AtEnd(text, state)
    <3> HIDE DEF text, state
    <3>1. 1 \in 1 .. Len(q)
      BY <2>2, <2>3
    <3>2. text[Len(pre) + 1] = q[1]
      BY <2>3, <3>1 DEF Placed
    <3> QED  BY <2>2, <2>3, <2>4, <3>2 DEF AtEnd
  <2>6. Parser[NextCall(text, state)]
          = ProcessWith(text, state, Parser[DictCall(text, state)],
                        Parser[ListCall(text, state)])
    <3> HIDE DEF text, state
    <3> QED  BY <2>3, <2>4, LocalsAre, ParserProcess DEF NextCall
  <2>7. IF length.ok
        THEN Parser[NextCall(text, state)] = ReadFixedAmount(text, length, stoull(length.value))
        ELSE Parser[NextCall(text, state)] = length
    <3> HIDE DEF text, state
    <3> QED  BY <2>4, <2>5, <2>6, BeginningTells
  <2>8. CASE Without(q, Colon)
    <3>1. ~length.ok
      BY <1>3, <1>6, <2>8, UntilFails
    <3> HIDE DEF length
    <3> QED  BY <2>7, <3>1
  <2>9. CASE \E p \in Text : q = Cat(d, Cat(One(Colon), p)) /\ Cut(p, b)
    <3>1. PICK p \in Text : q = Cat(d, Cat(One(Colon), p)) /\ Cut(p, b)
      BY <2>9
    <3> DEFINE front == Cat(pre, d)
               before == Cat(front, One(Colon))
               read == StateAt(Size(before) + 1, l, s, d)
    <3>2. /\ front \in Text /\ before \in Text
          /\ Cat(One(Colon), p) \in Text
          /\ text = Cat(before, p)
          /\ Size(before) + 1 = Size(pre) + Size(d) + 2
      <4>1. Cat(One(Colon), p) \in Text
        BY <1>3, CatType, TextIs
      <4>2. /\ front \in Text /\ Size(front) = Size(pre) + Size(d)
            /\ Size(pre) \in Nat
            /\ Cat(pre, Cat(d, Cat(One(Colon), p))) = Cat(front, Cat(One(Colon), p))
        <5> DEFINE x == Cat(One(Colon), p)
        <5>1. x \in Text
          BY <4>1
        <5> HIDE DEF x
        <5>2. /\ front \in Text /\ Size(front) = Size(pre) + Size(d)
              /\ Size(pre) \in Nat
              /\ Cat(pre, Cat(d, x)) = Cat(front, x)
          BY <1>2, <5>1, PlacedIs
        <5> QED  BY <5>2 DEF x
      <4> HIDE DEF front
      <4>3. /\ before \in Text /\ Size(before) = Size(front) + Size(One(Colon))
            /\ Cat(front, Cat(One(Colon), p)) = Cat(before, p)
        <5> DEFINE o == One(Colon)
        <5>1. o \in Text
          BY <1>3
        <5> HIDE DEF o, text, d, t
        <5>2. /\ Cat(front, o) \in Text /\ Size(Cat(front, o)) = Size(front) + Size(o)
              /\ Cat(front, Cat(o, p)) = Cat(Cat(front, o), p)
          BY <4>2, <5>1, PlacedIs
        <5> QED  BY <5>2 DEF o
      <4>4. Size(One(Colon)) = 1
        BY <1>3, OneType
      <4>5. text = Cat(before, p)
        BY <3>1, <4>2, <4>3
      <4> HIDE DEF text, before
      <4> QED  BY <1>2, <4>1, <4>2, <4>3, <4>4, <4>5
    <3>3. length = read
      <4>1. ReadUntilDelimiter(Cat(pre, Cat(d, Cat(One(Colon), p))),
                               StateAt(Size(pre) + 1, l, s, v), Colon)
              = StateAt(Size(pre) + Size(d) + 2, l, s, d)
        BY <1>2, <1>3, UntilRead
      <4> HIDE DEF before
      <4> QED  BY <3>1, <3>2, <4>1
    <3>4. read.ok /\ read.value = d
      <4>1. Size(before) + 1 \in Nat \ {0}
        <5> HIDE DEF before
        <5> QED  BY <3>2, SizeIsNat, TextIs
      <4> HIDE DEF before
      <4> QED  BY <1>2, <4>1, StateIs
    <3>5. Size(p) < Size(b)
      BY <3>1, CutElements
    <3>6. ~ReadFixedAmount(Cat(before, p), read, Size(b)).ok
      <4> HIDE DEF before
      <4> QED  BY <1>1, <1>2, <3>2, <3>5, FixedFails
    <3>7. Parser[NextCall(text, state)] = ReadFixedAmount(text, read, Size(b))
      <4> HIDE DEF length, read, text, state
      <4> QED  BY <1>2, <2>7, <3>3, <3>4
    <3> HIDE DEF read, before
    <3> QED  BY <3>2, <3>6, <3>7
  <2> QED  BY <2>1, <2>8, <2>9
<1> QED  BY <1>7, <1>8

(* What is cut of a text throws, in each of the three functions.            *)
CutsFail(b) == \A q \in Text : Cut(q, b) => NextFails(q)

ListCutsFail(b) == \A q \in Text : Cut(q, b) => ListFails(q)

DictCutsFail(b) == \A q \in Text : Cut(q, b) => DictFails(q)

LEMMA FailsInLoops ==
  ASSUME NEW q \in Text, q = None \/ q[1] # End, NextFails(q)
  PROVE  ListFails(q) /\ DictFails(q)
<1>1. ListFails(q)
  <2>1. NewLocals \in Locals
    BY LocalsAre
  <2>2. ASSUME NEW pre \in Text, NEW l \in Logs, NEW s \in Sections, NEW v \in Text
        PROVE  ~Parser[ItemCall(Cat(pre, q), StateAt(Size(pre) + 1, l, s, v))].ok
    BY <2>1, TurnFails
  <2> QED  BY <2>2 DEF ListFails
<1>2. DictFails(q)
  <2>1. ASSUME NEW first \in Int, NEW last \in Int PROVE Resting(first, last) \in Locals
    BY PendingIs, NoneType, TextIs
  <2>2. ASSUME NEW pre \in Text, NEW l \in Logs, NEW s \in Sections, NEW v \in Text,
               NEW first \in Int, NEW last \in Int
        PROVE  ~Parser[LoopCall(Cat(pre, q), StateAt(Size(pre) + 1, l, s, v),
                                Resting(first, last))].ok
    BY <2>1, TurnFails
  <2> QED  BY <2>2 DEF DictFails
<1> QED  BY <1>1, <1>2

LEMMA OnlyTheEndCut == ListCutsFail(One(End)) /\ DictCutsFail(One(End))
<1>1. None \in Text /\ End \in Nat
  BY NoneType, TextIs DEF End
<1>2. ListFails(None) /\ DictFails(None)
  BY <1>1, NoneFails, FailsInLoops
<1>3. \A q \in Text : Cut(q, One(End)) => q = None
  BY <1>1, CutOfOne
<1> QED  BY <1>2, <1>3 DEF ListCutsFail, DictCutsFail

LEMMA ListCutMore ==
  ASSUME NEW b, NEW log, NEW value, ReadsAs(b, log, value), CutsFail(b),
         NEW tail \in Text, ListCutsFail(tail)
  PROVE  ListCutsFail(Cat(b, tail))
<1> SUFFICES ASSUME NEW q \in Text, Cut(q, Cat(b, tail)) PROVE ListFails(q)
  BY DEF ListCutsFail
<1>1. Begins(b) /\ b \in Text /\ log \in Logs /\ value \in Text
  BY DEF ReadsAs, Begins
<1>2. CASE Cut(q, b)
  <2>1. NextFails(q) /\ (q = None \/ q[1] # End)
    BY <1>1, <1>2, CutBegins DEF CutsFail
  <2> QED  BY <2>1, FailsInLoops
<1>3. CASE \E p \in Text : q = Cat(b, p) /\ Cut(p, tail)
  <2>1. PICK p \in Text : q = Cat(b, p) /\ Cut(p, tail)
    BY <1>3
  <2>2. ListFails(p)
    BY <2>1 DEF ListCutsFail
  <2> SUFFICES ASSUME NEW pre \in Text, NEW l \in Logs, NEW s \in Sections, NEW v \in Text
               PROVE  ~Parser[ItemCall(Cat(pre, q), StateAt(Size(pre) + 1, l, s, v))].ok
    BY DEF ListFails
  <2> DEFINE text == Cat(pre, Cat(b, p))
             state == StateAt(Size(pre) + 1, l, s, v)
             l2 == Cat(l, log)
  <2>3. PICK s1 \in Sections :
          Outcome(pre, b, p, l, s, v) = StateAt(EndsAt(pre, b), l2, s1, value)
    BY DEF ReadsAs
  <2>4. l2 \in Logs
    BY <1>1, LogsJoin
  <2> HIDE DEF l2
  <2> DEFINE next == StateAt(EndsAt(pre, b), l2, s1, value)
  <2>5. /\ text \in Text /\ next \in ParseState /\ next.ok /\ ~LeavesLoop(text, state)
        /\ ReadOn(state, Parser[NextCall(text, state)]) = next
        /\ Cat(pre, b) \in Text /\ text = Cat(Cat(pre, b), p)
        /\ EndsAt(pre, b) = Size(Cat(pre, b)) + 1
    <3>1. /\ Turn(text, state, next)
          /\ Cat(pre, b) \in Text /\ text = Cat(Cat(pre, b), p)
          /\ EndsAt(pre, b) = Size(Cat(pre, b)) + 1
      BY <1>1, <2>1, <2>3, <2>4, TurnIs
    <3> HIDE DEF text, state, next
    <3> QED  BY <3>1, Zenon DEF Turn
  <2>6. state \in ParseState /\ NewLocals \in Locals
    BY PlaceIs, LocalsAre
  <2>7. Cat(pre, q) = text
    BY <2>1
  <2> HIDE DEF text, state
  <2>8. Parser[ItemCall(text, state)]
          = ListTurn(text, state, ReadOn(state, Parser[NextCall(text, state)]))
    BY <2>5, <2>6, ParserList, Zenon DEF ItemCall
  <2>9. Parser[ItemCall(text, state)] = Parser[ItemCall(text, next)]
    <3> HIDE DEF next
    <3> QED  BY <2>5, <2>8, Zenon DEF ListTurn
  <2>10. next = StateAt(Size(Cat(pre, b)) + 1, l2, s1, value)
    BY <2>5
  <2>11. ~Parser[ItemCall(Cat(Cat(pre, b), p), StateAt(Size(Cat(pre, b)) + 1, l2, s1, value))].ok
    BY <1>1, <2>2, <2>4, <2>5 DEF ListFails
  <2> HIDE DEF next
  <2>12. ~Parser[ItemCall(text, state)].ok
    BY <2>5, <2>9, <2>10, <2>11
  <2> QED  BY <2>7, <2>12 DEF state
<1> QED  BY <1>1, <1>2, <1>3, CutOfCat

LEMMA ListCutAll ==
  ASSUME NEW parts, NEW logs, ItemsRead(parts, logs),
         \A k \in 1 .. Size(parts) : CutsFail(parts[k])
  PROVE  ListCutsFail(Cat(FlattenSeq(parts), One(End)))
<1> DEFINE n == Size(parts)
<1>1. /\ parts \in Strings(Text) /\ \A k \in 1 .. n : CutsFail(parts[k])
      /\ \A k \in 1 .. n : \E value \in Text : ReadsAs(parts[k], logs[k], value)
  BY DEF ItemsRead
<1>2. PICK rest : Remainders(rest, parts)
  BY <1>1, FlattenParts
<1>3. n \in Nat
  BY <1>1, SizeIsNat
<1>4. /\ rest \in [0 .. n -> Text] /\ rest[0] = FlattenSeq(parts) /\ rest[n] = None
      /\ \A k \in 1 .. n : rest[k - 1] = Cat(parts[k], rest[k])
  BY <1>2 DEF Remainders
<1>5. One(End) \in Text
  BY OneType, TextIs DEF End
<1> HIDE DEF n
<1> DEFINE T == {k \in 0 .. n : ListCutsFail(Cat(rest[k], One(End)))}
<1>6. n \in T
  <2>1. Cat(rest[n], One(End)) = One(End)
    BY <1>4, <1>5, CatNone, TextIs
  <2>2. n \in 0 .. n
    BY <1>3
  <2> QED  BY <2>1, <2>2, OnlyTheEndCut
<1>7. ASSUME NEW k \in 1 .. n, k \in T PROVE k - 1 \in T
  <2>1. k \in 0 .. n /\ k - 1 \in 0 .. n
    BY <1>3
  <2>2. PICK value \in Text : ReadsAs(parts[k], logs[k], value)
    BY <1>1
  <2> DEFINE tail == Cat(rest[k], One(End))
  <2>3. rest[k] \in Text /\ parts[k] \in Text
    BY <1>4, <2>1, <2>2 DEF ReadsAs, Begins
  <2>4. tail \in Text /\ Cat(Cat(parts[k], rest[k]), One(End)) = Cat(parts[k], tail)
    BY <1>5, <2>3, PlacedIs
  <2>5. ListCutsFail(tail)
    BY <1>7
  <2> HIDE DEF tail
  <2>6. ListCutsFail(Cat(parts[k], tail))
    BY <1>1, <2>2, <2>4, <2>5, ListCutMore
  <2>7. ListCutsFail(Cat(rest[k - 1], One(End)))
    BY <1>4, <2>4, <2>6
  <2> QED  BY <2>1, <2>7
<1>8. 0 \in T
  <2>1. T \in SUBSET (0 .. n)
    OBVIOUS
  <2> HIDE DEF T
  <2> QED  BY <1>3, <1>6, <1>7, <2>1, FromTheLast
<1> QED  BY <1>4, <1>8

LEMMA EnclosedCut ==
  ASSUME NEW mark \in Nat, NEW b \in Text, NEW q, Cut(q, Enclosed(mark, b)), q # None
  PROVE  \E p \in Text : q = Cat(One(mark), p) /\ Cut(p, Cat(b, One(End)))
<1> DEFINE t == Cat(b, One(End))
<1>1. One(mark) \in Text /\ t \in Text
  BY OneType, CatType, TextIs DEF End
<1>2. Enclosed(mark, b) = Cat(One(mark), t)
  BY DEF Enclosed
<1>3. ~Cut(q, One(mark))
  BY CutOfOne
<1> HIDE DEF t
<1>4. \E p \in Text : q = Cat(One(mark), p) /\ Cut(p, t)
  BY <1>1, <1>2, <1>3, CutOfCat
<1> QED  BY <1>4 DEF t

LEMMA ListCut ==
  ASSUME NEW b \in Text, ListCutsFail(Cat(b, One(End)))
  PROVE  CutsFail(Enclosed(List, b))
<1> SUFFICES ASSUME NEW q \in Text, Cut(q, Enclosed(List, b)) PROVE NextFails(q)
  BY DEF CutsFail
<1>1. CASE q = None
  BY <1>1, NoneFails
<1>2. CASE q # None
  <2>1. List \in Nat
    BY DEF List
  <2>2. PICK p \in Text : q = Cat(One(List), p) /\ Cut(p, Cat(b, One(End)))
    BY <1>2, <2>1, EnclosedCut
  <2>3. ListFails(p)
    BY <2>2 DEF ListCutsFail
  <2> SUFFICES ASSUME NEW pre \in Text, NEW l \in Logs, NEW s \in Sections, NEW v \in Text
               PROVE  ~Parser[NextCall(Cat(pre, q), StateAt(Size(pre) + 1, l, s, v))].ok
    BY DEF NextFails
  <2> DEFINE text == Cat(pre, q)
             state == StateAt(Size(pre) + 1, l, s, v)
             front == Cat(pre, One(List))
  <2>4. text = Cat(pre, Cat(One(List), p))
    BY <2>2
  <2> HIDE DEF text, state, front
  <2>5. /\ text = Cat(front, p) /\ front \in Text
        /\ state.ok /\ ~AtEnd(text, state) /\ text[state.index] = List
        /\ Begun(state) = StateAt(Size(front) + 1, l, s, v)
        /\ Parser[NextCall(text, state)]
             = ProcessWith(text, state, Parser[DictCall(text, state)],
                           Parser[ListCall(text, state)])
    BY <2>1, <2>4, CallAt DEF state, front
  <2>6. Parser[NextCall(text, state)] = Parser[ListCall(text, state)]
    BY <2>5, BeginningTells
  <2>7. ListCall(text, state) = ItemCall(text, Begun(state))
    BY Zenon DEF ListCall, ItemCall, Begun
  <2>8. ~Parser[ItemCall(Cat(front, p), StateAt(Size(front) + 1, l, s, v))].ok
    BY <2>3, <2>5 DEF ListFails
  <2>9. ~Parser[NextCall(text, state)].ok
    BY <2>5, <2>6, <2>7, <2>8
  <2> QED  BY <2>9 DEF text, state
<1> QED  BY <1>1, <1>2

LEMMA DictCut ==
  ASSUME NEW b \in Text, DictCutsFail(Cat(b, One(End)))
  PROVE  CutsFail(Enclosed(Dict, b))
<1> SUFFICES ASSUME NEW q \in Text, Cut(q, Enclosed(Dict, b)) PROVE NextFails(q)
  BY DEF CutsFail
<1>1. CASE q = None
  BY <1>1, NoneFails
<1>2. CASE q # None
  <2>1. Dict \in Nat
    BY DEF Dict
  <2>2. PICK p \in Text : q = Cat(One(Dict), p) /\ Cut(p, Cat(b, One(End)))
    BY <1>2, <2>1, EnclosedCut
  <2>3. DictFails(p)
    BY <2>2 DEF DictCutsFail
  <2> SUFFICES ASSUME NEW pre \in Text, NEW l \in Logs, NEW s \in Sections, NEW v \in Text
               PROVE  ~Parser[NextCall(Cat(pre, q), StateAt(Size(pre) + 1, l, s, v))].ok
    BY DEF NextFails
  <2> DEFINE text == Cat(pre, q)
             state == StateAt(Size(pre) + 1, l, s, v)
             front == Cat(pre, One(Dict))
  <2>4. text = Cat(pre, Cat(One(Dict), p))
    BY <2>2
  <2> HIDE DEF text, state, front
  <2>5. /\ text = Cat(front, p) /\ front \in Text
        /\ state.ok /\ ~AtEnd(text, state) /\ text[state.index] = Dict
        /\ Begun(state) = StateAt(Size(front) + 1, l, s, v)
        /\ Parser[NextCall(text, state)]
             = ProcessWith(text, state, Parser[DictCall(text, state)],
                           Parser[ListCall(text, state)])
    BY <2>1, <2>4, CallAt DEF state, front
  <2>6. Parser[NextCall(text, state)] = Parser[DictCall(text, state)]
    BY <2>5, BeginningTells
  <2>7. DictCall(text, state) = LoopCall(text, Begun(state), Resting(-1, -1))
    <3>1. NewLocals = Resting(-1, -1)
      BY Zenon DEF NewLocals, Resting, Pending, None
    <3> QED  BY <3>1, Zenon DEF DictCall, LoopCall, Begun
  <2>8. ~Parser[LoopCall(Cat(front, p), StateAt(Size(front) + 1, l, s, v), Resting(-1, -1))].ok
    <3>1. -1 \in Int
      OBVIOUS
    <3> QED  BY <2>3, <2>5, <3>1 DEF DictFails
  <2>9. ~Parser[NextCall(text, state)].ok
    BY <2>5, <2>6, <2>7, <2>8
  <2> QED  BY <2>9 DEF text, state
<1> QED  BY <1>1, <1>2

LEMMA WithNameIs ==
  ASSUME NEW c \in Nat, NEW index \in Int, NEW first \in Int, NEW last \in Int
  PROVE  /\ WithName(c, index, first, last) \in Locals
         /\ WithName(c, index, first, last).current_key = One(c)
         /\ \A next \in ParseState :
              \E i \in Int, j \in Int :
                TakeValue(WithName(c, index, first, last), next) = Resting(i, j)
<1> DEFINE key == One(c)
           p == Pending(key, index, last, TRUE)
           r == Pending(key, first, last, FALSE)
<1>1. key \in Text
  BY OneType, TextIs
<1> HIDE DEF key
<1>2. p \in Locals /\ r \in Locals /\ p.current_key = key /\ r.current_key = key
  BY <1>1, PendingIs
<1>3. ASSUME NEW next \in ParseState
      PROVE  TakeValue(p, next) = Resting(index, next.index) /\ TakeValue(r, next) = Resting(first, last)
  BY <1>1, ValueTaken
<1>4. ASSUME NEW next \in ParseState PROVE next.index \in Int
  BY DEF ParseState
<1> HIDE DEF p, r
<1>5. WithName(c, index, first, last) = p \/ WithName(c, index, first, last) = r
  BY Zenon DEF WithName, p, r, key
<1>6. \A next \in ParseState : \E i \in Int, j \in Int : TakeValue(p, next) = Resting(i, j)
  BY <1>3, <1>4
<1>7. \A next \in ParseState : \E i \in Int, j \in Int : TakeValue(r, next) = Resting(i, j)
  BY <1>3
<1>8. CASE WithName(c, index, first, last) = p
  BY <1>2, <1>6, <1>8 DEF key
<1>9. CASE WithName(c, index, first, last) = r
  BY <1>2, <1>7, <1>9 DEF key
<1> QED  BY <1>5, <1>8, <1>9

LEMMA DictCutMore ==
  ASSUME NEW c \in Nat, NEW b, NEW log, NEW value, ReadsAs(b, log, value), CutsFail(b),
         NEW tail \in Text, DictCutsFail(tail)
  PROVE  DictCutsFail(Cat(EntryText(c, b), tail))
<1> DEFINE key == EncodeString(One(c))
           tail1 == Cat(b, tail)
<1>1. /\ Begins(b) /\ b \in Text /\ log \in Logs /\ value \in Text /\ One(c) \in Text
      /\ key \in Text /\ Begins(key)
  <2>1. One(c) \in Text
    BY OneType, TextIs
  <2>2. Begins(b) /\ b \in Text /\ log \in Logs /\ value \in Text
    BY DEF ReadsAs, Begins
  <2>3. Begins(key)
    BY <2>1, StringBegins
  <2> QED  BY <2>1, <2>2, <2>3 DEF Begins
<1>2. \A q \in Text : Cut(q, key) => NextFails(q)
  BY <1>1, StringCut
<1> HIDE DEF key
<1>3. tail1 \in Text /\ Cat(EntryText(c, b), tail) = Cat(key, tail1)
  <2>1. Cat(Cat(key, b), tail) = Cat(key, Cat(b, tail)) /\ Cat(b, tail) \in Text
    BY <1>1, PlacedIs
  <2> QED  BY <2>1, Zenon DEF EntryText, key
<1> HIDE DEF tail1
<1> SUFFICES ASSUME NEW q \in Text, Cut(q, Cat(key, tail1)) PROVE DictFails(q)
  BY <1>3 DEF DictCutsFail
<1>4. CASE Cut(q, key)
  <2>1. NextFails(q) /\ (q = None \/ q[1] # End)
    BY <1>1, <1>2, <1>4, CutBegins
  <2> QED  BY <2>1, FailsInLoops
<1>5. CASE \E p \in Text : q = Cat(key, p) /\ Cut(p, tail1)
  <2>1. PICK p \in Text : q = Cat(key, p) /\ Cut(p, tail1)
    BY <1>5
  <2> SUFFICES ASSUME NEW pre \in Text, NEW l \in Logs, NEW s \in Sections, NEW v \in Text,
                      NEW first \in Int, NEW last \in Int
               PROVE  ~Parser[LoopCall(Cat(pre, q), StateAt(Size(pre) + 1, l, s, v),
                                       Resting(first, last))].ok
    BY DEF DictFails
  <2> DEFINE text == Cat(pre, q)
             front == Cat(pre, key)
             from == Size(front) + 1
             locals == WithName(c, from, first, last)
  <2>2. text = Cat(pre, Cat(key, p))
    BY <2>1
  <2> HIDE DEF text
  <2>3. /\ Parser[LoopCall(text, StateAt(Size(pre) + 1, l, s, v), Resting(first, last))]
             = Parser[LoopCall(text, StateAt(from, l, s, One(c)), locals)]
        /\ front \in Text /\ text = Cat(front, p)
    <3>1. front = Cat(pre, EncodeString(One(c))) /\ text = Cat(pre, Cat(EncodeString(One(c)), p))
      BY <2>2 DEF key
    <3> HIDE DEF front
    <3> QED  BY <3>1, KeyTurn
  <2> HIDE DEF front
  <2>4. from \in Int
    BY <2>3, SizeIsNat, TextIs
  <2>5. /\ locals \in Locals /\ locals.current_key = One(c)
        /\ \A next \in ParseState : \E i \in Int, j \in Int : TakeValue(locals, next) = Resting(i, j)
    <3> HIDE DEF from
    <3> QED  BY <2>4, WithNameIs, Zenon
  <2> HIDE DEF locals
  <2>6. CASE Cut(p, b)
    <3>1. NextFails(p) /\ (p = None \/ p[1] # End)
      BY <1>1, <2>6, CutBegins DEF CutsFail
    <3>2. ~Parser[LoopCall(Cat(front, p), StateAt(Size(front) + 1, l, s, One(c)), locals)].ok
      BY <1>1, <2>3, <2>5, <3>1, TurnFails
    <3> QED  BY <2>3, <3>2 DEF text
  <2>7. CASE \E r \in Text : p = Cat(b, r) /\ Cut(r, tail)
    <3>1. PICK r \in Text : p = Cat(b, r) /\ Cut(r, tail)
      BY <2>7
    <3>2. DictFails(r)
      BY <3>1 DEF DictCutsFail
    <3> DEFINE after == Cat(front, b)
               to == Size(after) + 1
               l1 == Cat(l, log)
               l2 == Cat(l1, Entered(One(c), value))
    <3>3. /\ AfterValue(text, StateAt(from, l, s, One(c)), locals, to, l1, One(c), value)
          /\ after \in Text /\ text = Cat(after, r)
      <4>1. text = Cat(front, Cat(b, r)) /\ after = Cat(front, b)
        BY <2>3, <3>1
      <4> HIDE DEF after
      <4> QED  BY <1>1, <2>3, <2>5, <4>1, ValueTurn
    <3>4. l1 \in Logs /\ l2 \in Logs
      <4>1. l1 \in Logs
        BY <1>1, LogsJoin
      <4>2. Entered(One(c), value) \in Logs
        BY <1>1, OneType, LogsAre DEF Entered
      <4> HIDE DEF l1
      <4> QED  BY <4>1, <4>2, LogsJoin
    <3>5. PICK s1 \in Sections :
               /\ StateAt(to, l1, s1, value) \in ParseState
               /\ Parser[LoopCall(text, StateAt(from, l, s, One(c)), locals)]
                    = Parser[LoopCall(text, StateAt(to, l2, s1, value),
                                      TakeValue(locals, StateAt(to, l1, s1, value)))]
      BY <3>3 DEF AfterValue
    <3> HIDE DEF l1, l2, after
    <3>6. PICK i \in Int, j \in Int : TakeValue(locals, StateAt(to, l1, s1, value)) = Resting(i, j)
      BY <2>5, <3>5
    <3>7. ~Parser[LoopCall(Cat(after, r), StateAt(Size(after) + 1, l2, s1, value), Resting(i, j))].ok
      BY <1>1, <3>1, <3>2, <3>3, <3>4 DEF DictFails
    <3> HIDE DEF from
    <3>8. ~Parser[LoopCall(text, StateAt(Size(pre) + 1, l, s, v), Resting(first, last))].ok
      BY <2>3, <3>3, <3>5, <3>6, <3>7
    <3> QED  BY <3>8 DEF text
  <2> QED  BY <1>1, <2>1, <2>6, <2>7, CutOfCat DEF tail1
<1> QED  BY <1>1, <1>3, <1>4, <1>5, CutOfCat

LEMMA DictCutAll ==
  ASSUME NEW s, Dictionary(s) \in AllDocuments, \A i \in 1 .. Size(s) : Readable(s[i][2]),
         \A i \in 1 .. Size(s) : CutsFail(Encode[s[i][2]])
  PROVE  DictCutsFail(Cat(FlattenSeq(EntryParts(Encode, s)), One(End)))
<1> DEFINE n == Size(s)
           parts == EntryParts(Encode, s)
<1>1. parts \in Strings(Text) /\ Size(parts) = n /\ s \in Strings(Nat \X AllDocuments)
  BY DictionaryIsWritten
<1>2. \A i \in 1 .. n : /\ s[i][1] \in Nat /\ s[i][2] \in AllDocuments
                        /\ parts[i] = EntryText(s[i][1], Encode[s[i][2]])
                        /\ Readable(s[i][2]) /\ CutsFail(Encode[s[i][2]])
  BY EntryLogsType
<1> HIDE DEF parts
<1>3. n \in Nat
  BY <1>1, SizeIsNat
<1>4. PICK rest : Remainders(rest, parts)
  BY <1>1, FlattenParts
<1>5. /\ rest \in [0 .. n -> Text] /\ rest[0] = FlattenSeq(parts) /\ rest[n] = None
      /\ \A k \in 1 .. n : rest[k - 1] = Cat(parts[k], rest[k])
  BY <1>1, <1>4 DEF Remainders
<1>6. One(End) \in Text
  BY OneType, TextIs DEF End
<1> HIDE DEF n
<1> DEFINE T == {k \in 0 .. n : DictCutsFail(Cat(rest[k], One(End)))}
<1>7. n \in T
  <2>1. Cat(rest[n], One(End)) = One(End)
    BY <1>5, <1>6, CatNone, TextIs
  <2>2. n \in 0 .. n
    BY <1>3
  <2> QED  BY <2>1, <2>2, OnlyTheEndCut
<1>8. ASSUME NEW k \in 1 .. n, k \in T PROVE k - 1 \in T
  <2> DEFINE c == s[k][1]
             d == s[k][2]
             tail == Cat(rest[k], One(End))
             e == EntryText(c, Encode[d])
  <2>1. k \in 0 .. n /\ k - 1 \in 0 .. n
    BY <1>3
  <2>2. /\ c \in Nat /\ d \in AllDocuments /\ parts[k] = e /\ CutsFail(Encode[d])
        /\ ReadsAs(Encode[d], LogOf(d), ValueOf(d)) /\ Encode[d] \in Text
    BY <1>2, EncodeType DEF Readable
  <2>3. DictCutsFail(tail)
    BY <1>8
  <2>4. rest[k] \in Text /\ rest[k - 1] = Cat(e, rest[k])
    BY <1>5, <2>1, <2>2
  <2> HIDE DEF c, d
  <2>5. e \in Text
    <3>1. EncodeString(One(c)) \in Text
      BY <2>2, OneType, TextIs, EncodeStringIs
    <3> QED  BY <2>2, <3>1, CatType, TextIs DEF EntryText
  <2>6. tail \in Text /\ Cat(rest[k - 1], One(End)) = Cat(e, tail)
    <3> HIDE DEF e
    <3> QED  BY <1>6, <2>4, <2>5, PlacedIs
  <2> HIDE DEF tail, T
  <2>7. DictCutsFail(Cat(e, tail))
    BY <2>2, <2>3, <2>6, DictCutMore
  <2>8. DictCutsFail(Cat(rest[k - 1], One(End)))
    BY <2>6, <2>7
  <2> QED  BY <2>1, <2>8 DEF T
<1>9. 0 \in T
  <2>1. T \in SUBSET (0 .. n)
    OBVIOUS
  <2> HIDE DEF T
  <2> QED  BY <1>3, <1>7, <1>8, <2>1, FromTheLast
<1>10. DictCutsFail(Cat(rest[0], One(End)))
  BY <1>9
<1> QED  BY <1>5, <1>10 DEF parts

LEMMA AllCutsFail ==
  ASSUME NEW d \in AllDocuments
  PROVE  CutsFail(Encode[d])
<1> DEFINE T == {x \in AllDocuments : CutsFail(Encode[x])}
<1>1. ASSUME NEW n \in Nat PROVE Number(n) \in T
  <2>1. Number(n) \in AllDocuments
    BY LeavesAreDocuments DEF LeafDocuments
  <2>2. CutsFail(Encode[Number(n)])
    BY NumberCut DEF CutsFail
  <2> QED  BY <2>1, <2>2
<1>2. ASSUME NEW b \in Text PROVE String(b) \in T
  <2>1. String(b) \in AllDocuments /\ Encode[String(b)] = EncodeString(b)
    BY LeavesAreDocuments, StringIsWritten DEF LeafDocuments
  <2>2. CutsFail(EncodeString(b))
    BY StringCut DEF CutsFail
  <2> QED  BY <2>1, <2>2
<1>3. ASSUME NEW s \in Strings(AllDocuments), ListOf(s) \in AllDocuments,
             \A i \in 1 .. Size(s) : s[i] \in T
      PROVE  ListOf(s) \in T
  <2> DEFINE parts == ListParts(Encode, s)
             b == FlattenSeq(parts)
  <2>1. \A i \in 1 .. Size(s) : s[i] \in AllDocuments /\ CutsFail(Encode[s[i]])
    BY <1>3
  <2>2. \A i \in 1 .. Size(s) : Readable(s[i])
    BY <2>1, DocumentIsReadBack
  <2>3. ItemsRead(parts, ListLogs(s))
    BY <1>3, <2>2, ListItemsRead
  <2>4. \A k \in 1 .. Size(parts) : CutsFail(parts[k])
    <3>1. Size(parts) = Size(s) /\ s \in Strings(AllDocuments)
      BY <1>3, ListIsWritten
    <3>2. DOMAIN s = 1 .. Size(s)
      BY <3>1 DEF Strings, Size
    <3>3. \A k \in 1 .. Size(s) : parts[k] = Encode[s[k]]
      BY <3>2 DEF ListParts
    <3> HIDE DEF parts
    <3> QED  BY <2>1, <3>1, <3>3
  <2>5. Encode[ListOf(s)] = Enclosed(List, b) /\ parts \in Strings(Text)
    BY <1>3, ListIsWritten
  <2> HIDE DEF parts
  <2>6. ListCutsFail(Cat(b, One(End))) /\ b \in Text
    BY <2>3, <2>4, <2>5, ListCutAll, FlattenType
  <2> HIDE DEF b
  <2>7. CutsFail(Enclosed(List, b))
    BY <2>6, ListCut
  <2> QED  BY <1>3, <2>5, <2>7
<1>4. ASSUME NEW s \in Strings(Nat \X AllDocuments), Dictionary(s) \in AllDocuments,
             \A i \in 1 .. Size(s) : s[i][2] \in T
      PROVE  Dictionary(s) \in T
  <2> DEFINE parts == EntryParts(Encode, s)
             b == FlattenSeq(parts)
  <2>1. \A i \in 1 .. Size(s) : s[i][2] \in AllDocuments /\ CutsFail(Encode[s[i][2]])
    BY <1>4
  <2>2. \A i \in 1 .. Size(s) : Readable(s[i][2])
    BY <2>1, DocumentIsReadBack
  <2>3. Encode[Dictionary(s)] = Enclosed(Dict, b) /\ parts \in Strings(Text)
    BY <1>4, DictionaryIsWritten
  <2>4. DictCutsFail(Cat(b, One(End))) /\ b \in Text
    BY <1>4, <2>1, <2>2, <2>3, DictCutAll, FlattenType
  <2> HIDE DEF b
  <2>5. CutsFail(Enclosed(Dict, b))
    BY <2>4, DictCut
  <2> QED  BY <1>4, <2>3, <2>5
<1>5. AllDocuments \subseteq T
  <2> HIDE DEF T
  <2> QED  BY <1>1, <1>2, <1>3, <1>4, DocumentInduction
<1> QED  BY <1>5

(* ParseString reads a document that is whole, and throws at one that is    *)
(* cut short anywhere.                                                      *)
THEOREM CutDocumentIsNotRead ==
  ASSUME NEW d \in AllDocuments
  PROVE  /\ ParseString(Encode[d]).ok
         /\ \A q \in Text : Cut(q, Encode[d]) => ~ParseString(q).ok
<1>1. None \in Text /\ None \in Logs /\ <<1, 1>> \in Sections /\ Size(None) = 0
  BY NoneType, TextIs, LogsAre DEF Sections
<1>2. NewState = StateAt(Size(None) + 1, None, <<1, 1>>, None)
  <2>1. Size(None) + 1 = 1
    BY <1>1
  <2>2. NewState = StateAt(1, None, <<1, 1>>, None)
    BY Zenon DEF NewState, StateAt, None
  <2> QED  BY <2>1, <2>2
<1>3. \A text \in Text : ParseString(text) = Parser[NextCall(Cat(None, text), StateAt(Size(None) + 1, None, <<1, 1>>, None))]
  <2> TAKE text \in Text
  <2>1. Cat(None, text) = text
    BY CatNone, TextIs
  <2> QED  BY <1>2, <2>1, Zenon DEF ParseString, NextCall
<1>4. ParseString(Encode[d]).ok
  <2>1. ReadsAs(Encode[d], LogOf(d), ValueOf(d)) /\ Encode[d] \in Text
        /\ LogOf(d) \in Logs /\ ValueOf(d) \in Text
    BY DocumentIsReadBack, ReadableIs DEF Readable
  <2> DEFINE b == Encode[d]
             section == <<1, 1>>
             l == LogOf(d)
             v == ValueOf(d)
  <2> HIDE DEF b, section, l, v
  <2>2. ReadsAs(b, l, v) /\ b \in Text /\ l \in Logs /\ v \in Text /\ section \in Sections
    BY <1>1, <2>1 DEF b, l, v, section
  <2>3. \E s2 \in Sections :
          Outcome(None, b, None, None, section, None)
            = StateAt(EndsAt(None, b), Cat(None, l), s2, v)
    BY <1>1, <2>2 DEF ReadsAs
  <2>4. PICK s2 \in Sections :
          Outcome(None, b, None, None, section, None)
            = StateAt(EndsAt(None, b), Cat(None, l), s2, v)
    BY <2>3
  <2>5. Cat(b, None) = b
    BY <2>2, CatNone, TextIs
  <2>6. ParseString(b) = Outcome(None, b, None, None, section, None)
    BY <1>3, <2>2, <2>5, Zenon DEF Outcome, section
  <2>7. EndsAt(None, b) \in Nat \ {0} /\ Cat(None, l) \in Logs
    <3>1. Size(b) \in Nat
      BY <2>2, SizeIsNat, TextIs
    <3>2. Cat(None, l) = l
      BY <2>2, LogsJoin
    <3> QED  BY <1>1, <2>2, <3>1, <3>2 DEF EndsAt
  <2> DEFINE e == EndsAt(None, b)
             m == Cat(None, l)
  <2> HIDE DEF e, m
  <2>8. StateAt(e, m, s2, v).ok
    BY <2>2, <2>7, StateIs DEF e, m
  <2> QED  BY <2>4, <2>6, <2>8 DEF b, e, m
<1>5. ASSUME NEW q \in Text, Cut(q, Encode[d]) PROVE ~ParseString(q).ok
  <2>1. NextFails(q)
    BY <1>5, AllCutsFail DEF CutsFail
  <2>2. ~Parser[NextCall(Cat(None, q), StateAt(Size(None) + 1, None, <<1, 1>>, None))].ok
    BY <1>1, <2>1 DEF NextFails
  <2> QED  BY <1>3, <2>2
<1> QED  BY <1>4, <1>5

-----------------------------------------------------------------------------
(* What a document assigns: the elements of sequences that are put together *)
(* are the elements of both.                                                *)
Elements(s) == {s[i] : i \in 1 .. Size(s)}

LEMMA ElementsOfCat ==
  ASSUME NEW S, NEW s \in Strings(S), NEW t \in Strings(S)
  PROVE  Elements(Cat(s, t)) = Elements(s) \cup Elements(t)
<1> DEFINE u == Cat(s, t)
           m == Size(s)
           n == Size(t)
<1>1. m \in Nat /\ n \in Nat /\ Size(u) = m + n
  BY SizeIsNat, CatType
<1>2. /\ \A i \in 1 .. m : u[i] = s[i]
      /\ \A i \in 1 .. n : u[m + i] = t[i]
  BY DEF Cat, Size, Strings
<1> HIDE DEF u, m, n
<1>3. ASSUME NEW i \in 1 .. m + n PROVE u[i] \in Elements(s) \cup Elements(t)
  <2>1. CASE i \in 1 .. m
    BY <1>2, <2>1 DEF Elements, m
  <2>2. CASE i \notin 1 .. m
    <3>1. i - m \in 1 .. n /\ m + (i - m) = i
      BY <1>1, <2>2
    <3>2. u[i] = t[i - m]
      BY <1>2, <3>1
    <3> QED  BY <3>1, <3>2 DEF Elements, n
  <2> QED  BY <2>1, <2>2
<1>4. ASSUME NEW i \in 1 .. m PROVE s[i] \in Elements(u)
  <2>1. i \in 1 .. Size(u)
    BY <1>1
  <2> QED  BY <1>2, <2>1 DEF Elements
<1>5. ASSUME NEW i \in 1 .. n PROVE t[i] \in Elements(u)
  <2>1. m + i \in 1 .. Size(u)
    BY <1>1
  <2> QED  BY <1>2, <2>1 DEF Elements
<1>6. Elements(u) \subseteq Elements(s) \cup Elements(t)
  BY <1>1, <1>3 DEF Elements
<1>7. Elements(s) \subseteq Elements(u) /\ Elements(t) \subseteq Elements(u)
  BY <1>4, <1>5 DEF Elements, m, n
<1> QED  BY <1>6, <1>7 DEF u

LEMMA ElementsOfOne ==
  ASSUME NEW a
  PROVE  Elements(One(a)) = {a} /\ Elements(None) = {}
BY DEF Elements, Size, One, None

LEMMA ElementsOfAll ==
  ASSUME NEW S, NEW parts \in Strings(Strings(S))
  PROVE  Elements(FlattenSeq(parts)) = UNION {Elements(parts[i]) : i \in 1 .. Size(parts)}
<1> DEFINE n == Size(parts)
           Beyond(k) == UNION {Elements(parts[i]) : i \in k + 1 .. n}
<1>1. PICK rest : RemaindersOf(S, rest, parts)
  BY FlattenPartsOf
<1>2. n \in Nat
  BY SizeIsNat
<1>3. /\ rest \in [0 .. n -> Strings(S)] /\ rest[0] = FlattenSeq(parts) /\ rest[n] = None
      /\ \A k \in 1 .. n : rest[k - 1] = Cat(parts[k], rest[k])
  BY <1>1 DEF RemaindersOf
<1>4. \A k \in 1 .. n : parts[k] \in Strings(S)
  BY <1>2, ElementType
<1> HIDE DEF n
<1> DEFINE T == {k \in 0 .. n : Elements(rest[k]) = Beyond(k)}
<1>5. n \in T
  <2>1. n + 1 .. n = {} /\ n \in 0 .. n
    BY <1>2
  <2> QED  BY <1>3, <2>1, ElementsOfOne
<1>6. ASSUME NEW k \in 1 .. n, k \in T PROVE k - 1 \in T
  <2>1. k \in 0 .. n /\ k - 1 \in 0 .. n /\ k - 1 + 1 .. n = {k} \cup (k + 1 .. n)
    BY <1>2
  <2>2. Elements(rest[k - 1]) = Elements(parts[k]) \cup Elements(rest[k])
    <3>1. rest[k] \in Strings(S) /\ parts[k] \in Strings(S)
      BY <1>3, <1>4, <2>1
    <3> QED  BY <1>3, <3>1, ElementsOfCat
  <2>3. Beyond(k - 1) = Elements(parts[k]) \cup Beyond(k)
    BY <2>1
  <2> QED  BY <1>6, <2>1, <2>2, <2>3
<1>7. 0 \in T
  <2>1. T \in SUBSET (0 .. n)
    OBVIOUS
  <2> HIDE DEF T
  <2> QED  BY <1>2, <1>5, <1>6, <2>1, FromTheLast
<1>8. 0 + 1 .. n = 1 .. n
  OBVIOUS
<1> QED  BY <1>3, <1>7, <1>8 DEF n

(* A text is read in one way only.                                          *)
LEMMA SameLog ==
  ASSUME NEW b, NEW log1, NEW value1, ReadsAs(b, log1, value1),
         NEW log2, NEW value2, ReadsAs(b, log2, value2)
  PROVE  log1 = log2
<1>2. log1 \in Logs /\ log2 \in Logs
  BY DEF ReadsAs
<1> DEFINE section == <<1, 1>>
           reached == Outcome(None, b, None, None, section, None)
<1>1. None \in Text /\ None \in Logs /\ section \in Sections
  BY NoneType, TextIs, LogsAre DEF Sections
<1> HIDE DEF section
<1>3. ASSUME NEW log, NEW value, ReadsAs(b, log, value) PROVE reached.info_dict = log
  <2> DEFINE end == EndsAt(None, b)
             joined == Cat(None, log)
  <2>1. PICK s2 \in Sections : reached = StateAt(end, joined, s2, value)
    <3>1. \A pre \in Text, post \in Text, l \in Logs, s \in Sections, v \in Text :
            \E s2 \in Sections :
              Outcome(pre, b, post, l, s, v) = StateAt(EndsAt(pre, b), Cat(l, log), s2, value)
      BY <1>3, Zenon DEF ReadsAs
    <3> QED  BY <1>1, <3>1
  <2>2. joined = log
    <3>1. log \in Logs
      BY <1>3 DEF ReadsAs
    <3> QED  BY <3>1, LogsJoin
  <2> HIDE DEF reached, end, joined
  <2>3. StateAt(end, joined, s2, value).info_dict = joined
    BY DEF StateAt
  <2> QED  BY <2>1, <2>2, <2>3
<1> QED  BY <1>3, Zenon

LEMMA LogIs ==
  ASSUME NEW d, NEW log, NEW value, ReadsAs(Encode[d], log, value), Readable(d)
  PROVE  LogOf(d) = log
<1>1. ReadsAs(Encode[d], LogOf(d), ValueOf(d))
  BY DEF Readable
<1> QED  BY <1>1, SameLog

LEMMA LogsOf ==
  /\ \A n \in Nat : LogOf(Number(n)) = None
  /\ \A b \in Text : LogOf(String(b)) = None
  /\ \A s : ListOf(s) \in AllDocuments => LogOf(ListOf(s)) = FlattenSeq(ListLogs(s))
  /\ \A s : Dictionary(s) \in AllDocuments => LogOf(Dictionary(s)) = FlattenSeq(EntryLogs(s))
<1>1. ASSUME NEW n \in Nat PROVE LogOf(Number(n)) = None
  BY NumberReads, DocumentIsReadBack, LogIs
<1>2. ASSUME NEW b \in Text PROVE LogOf(String(b)) = None
  BY StringReads, DocumentIsReadBack, LogIs
<1>3. ASSUME NEW s, ListOf(s) \in AllDocuments
      PROVE  LogOf(ListOf(s)) = FlattenSeq(ListLogs(s))
  <2>1. \A i \in 1 .. Size(s) : s[i] \in AllDocuments
    BY <1>3, DepthExists DEF IsDepth
  <2>2. \A i \in 1 .. Size(s) : Readable(s[i])
    BY <2>1, DocumentIsReadBack
  <2> QED  BY <1>3, <2>2, ListReads, DocumentIsReadBack, LogIs
<1>4. ASSUME NEW s, Dictionary(s) \in AllDocuments
      PROVE  LogOf(Dictionary(s)) = FlattenSeq(EntryLogs(s))
  <2>1. \A i \in 1 .. Size(s) : s[i] \in Nat \X AllDocuments
    BY <1>4, DepthExists DEF IsDepth
  <2>2. \A i \in 1 .. Size(s) : Readable(s[i][2])
    BY <2>1, DocumentIsReadBack
  <2> QED  BY <1>4, <2>2, DictionaryReads, DocumentIsReadBack, LogIs
<1> QED  BY <1>1, <1>2, <1>3, <1>4

(* The entries of a document, from those of the documents in it.            *)
Entries == SUBSET (Nat \X AllDocuments)

ListEntries(f, s) == UNION {f[s[i]] : i \in DOMAIN s}

DictionaryEntries(f, s) == {s[i] : i \in DOMAIN s} \cup UNION {f[s[i][2]] : i \in DOMAIN s}

LEMMA EntriesBodies ==
  ASSUME NEW f, NEW c
  PROVE  /\ EntriesBody(f, Number(c)) = {} /\ EntriesBody(f, String(c)) = {}
         /\ EntriesBody(f, ListOf(c)) = ListEntries(f, c)
         /\ EntriesBody(f, Dictionary(c)) = DictionaryEntries(f, c)
BY KindsAre DEF EntriesBody, ListEntries, DictionaryEntries, Range

LEMMA EntriesBodyType ==
  ASSUME NEW f \in [AllDocuments -> Entries], NEW d \in AllDocuments
  PROVE  EntriesBody(f, d) \in Entries
<1>1. ASSUME NEW s \in Strings(AllDocuments) PROVE ListEntries(f, s) \in Entries
  <2>1. \A i \in DOMAIN s : f[s[i]] \in Entries
    BY DEF Strings
  <2> QED  BY <2>1 DEF ListEntries, Entries
<1>2. ASSUME NEW s \in Strings(Nat \X AllDocuments) PROVE DictionaryEntries(f, s) \in Entries
  <2>1. \A i \in DOMAIN s : s[i] \in Nat \X AllDocuments
    BY DEF Strings
  <2>2. \A i \in DOMAIN s : f[s[i][2]] \in Entries
    BY <2>1
  <2> QED  BY <2>1, <2>2 DEF DictionaryEntries, Entries
<1>3. {} \in Entries
  BY DEF Entries
<1>4. ASSUME NEW n \in Nat, d = Number(n) PROVE EntriesBody(f, d) \in Entries
  BY <1>3, <1>4, EntriesBodies
<1>5. ASSUME NEW b \in Text, d = String(b) PROVE EntriesBody(f, d) \in Entries
  BY <1>3, <1>5, EntriesBodies
<1>6. ASSUME NEW s \in Strings(AllDocuments), d = ListOf(s) PROVE EntriesBody(f, d) \in Entries
  BY <1>1, <1>6, EntriesBodies
<1>7. ASSUME NEW s \in Strings(Nat \X AllDocuments), d = Dictionary(s)
      PROVE  EntriesBody(f, d) \in Entries
  BY <1>2, <1>7, EntriesBodies
<1> QED  BY <1>4, <1>5, <1>6, <1>7, DocumentIs

LEMMA EntriesIsBody ==
  \A d \in AllDocuments : AllEntries[d] = EntriesBody(AllEntries, d)
<1> DEFINE D == AllDocuments
           body == [p \in [D -> Entries] \X D |-> EntriesBody(p[1], p[2])]
           C(f) == [d \in AllDocuments |-> EntriesBody(f, d)]
<1>1. ASSUME NEW f \in [D -> Entries], NEW g \in [D -> Entries], NEW d \in D,
             SameInside(f, g, d)
      PROVE  EntriesBody(f, d) = EntriesBody(g, d)
  <2>1. ASSUME NEW s \in Strings(AllDocuments), d = ListOf(s)
        PROVE  EntriesBody(f, d) = EntriesBody(g, d)
    <3>1. \A i \in 1 .. Size(s) : f[s[i]] = g[s[i]]
      BY <1>1, <2>1 DEF SameInside
    <3>2. DOMAIN s = 1 .. Size(s)
      BY DEF Strings, Size
    <3>3. ListEntries(f, s) = ListEntries(g, s)
      BY <3>1, <3>2 DEF ListEntries
    <3> QED  BY <2>1, <3>3, EntriesBodies
  <2>2. ASSUME NEW s \in Strings(Nat \X AllDocuments), d = Dictionary(s)
        PROVE  EntriesBody(f, d) = EntriesBody(g, d)
    <3>1. \A i \in 1 .. Size(s) : f[s[i][2]] = g[s[i][2]]
      BY <1>1, <2>2 DEF SameInside
    <3>2. DOMAIN s = 1 .. Size(s)
      BY DEF Strings, Size
    <3>3. DictionaryEntries(f, s) = DictionaryEntries(g, s)
      BY <3>1, <3>2 DEF DictionaryEntries
    <3> QED  BY <2>2, <3>3, EntriesBodies
  <2>3. ASSUME NEW n \in Nat, d = Number(n) PROVE EntriesBody(f, d) = EntriesBody(g, d)
    BY <2>3, EntriesBodies
  <2>4. ASSUME NEW b \in Text, d = String(b) PROVE EntriesBody(f, d) = EntriesBody(g, d)
    BY <2>4, EntriesBodies
  <2> QED  BY <2>1, <2>2, <2>3, <2>4, DocumentIs
<1>2. body \in [[D -> Entries] \X D -> Entries]
  <2>1. \A f \in [D -> Entries], d \in D : EntriesBody(f, d) \in Entries
    BY EntriesBodyType
  <2> HIDE DEF D
  <2> QED  BY <2>1
<1>3. Entries # {}
  BY DEF Entries
<1>4. ASSUME NEW f \in [D -> Entries], NEW g \in [D -> Entries], NEW d \in D,
             SameInside(f, g, d)
      PROVE  body[<<f, d>>] = body[<<g, d>>]
  <2>1. EntriesBody(f, d) = EntriesBody(g, d)
    BY <1>1, <1>4
  <2> HIDE DEF D
  <2> QED  BY <2>1
<1>5. PICK f \in [D -> Entries] : \A d \in D : f[d] = body[<<f, d>>]
  <2>1. DocumentBody(Entries, body)
    <3>1. body \in [[AllDocuments -> Entries] \X AllDocuments -> Entries]
      BY <1>2
    <3>2. \A f, g \in [AllDocuments -> Entries], d \in AllDocuments :
            SameInside(f, g, d) => body[<<f, d>>] = body[<<g, d>>]
      BY <1>4
    <3> HIDE DEF body
    <3> QED  BY <1>3, <3>1, <3>2 DEF DocumentBody
  <2> HIDE DEF body
  <2>2. \E f \in [AllDocuments -> Entries] : \A d \in AllDocuments : f[d] = body[<<f, d>>]
    BY <2>1, DocumentRecursion
  <2> QED  BY <2>2
<1>6. f = C(f)
  <2> HIDE DEF D
  <2>1. \A d \in D : f[d] = EntriesBody(f, d)
    BY <1>5
  <2>2. f = [d \in D |-> EntriesBody(f, d)]
    BY <2>1
  <2> QED  BY <2>2, Zenon DEF D
<1>7. AllEntries = CHOOSE g : g = C(g)
  BY Zenon DEF AllEntries
<1>8. AllEntries = C(AllEntries)
  <2> HIDE DEF C
  <2> QED  BY <1>6, <1>7, Zenon
<1>9. \A d \in AllDocuments : AllEntries[d] = EntriesBody(AllEntries, d)
  BY <1>8, Zenon
<1> QED  BY <1>9

LEMMA EntriesType == \A d \in AllDocuments : AllEntries[d] \in Entries
<1> DEFINE T == {d \in AllDocuments : AllEntries[d] \in Entries}
<1>1. {} \in Entries
  BY DEF Entries
<1>2. ASSUME NEW n \in Nat PROVE Number(n) \in T
  BY <1>1, NumberReads, EntriesIsBody, EntriesBodies
<1>3. ASSUME NEW b \in Text PROVE String(b) \in T
  BY <1>1, StringReads, EntriesIsBody, EntriesBodies
<1>4. ASSUME NEW s \in Strings(AllDocuments), ListOf(s) \in AllDocuments,
             \A i \in 1 .. Size(s) : s[i] \in T
      PROVE  ListOf(s) \in T
  <2>1. AllEntries[ListOf(s)] = ListEntries(AllEntries, s)
    BY <1>4, EntriesIsBody, EntriesBodies
  <2>2. \A i \in DOMAIN s : AllEntries[s[i]] \in Entries
    BY <1>4 DEF Strings, Size
  <2>3. ListEntries(AllEntries, s) \in Entries
    BY <2>2 DEF ListEntries, Entries
  <2> QED  BY <1>4, <2>1, <2>3
<1>5. ASSUME NEW s \in Strings(Nat \X AllDocuments), Dictionary(s) \in AllDocuments,
             \A i \in 1 .. Size(s) : s[i][2] \in T
      PROVE  Dictionary(s) \in T
  <2>1. AllEntries[Dictionary(s)] = DictionaryEntries(AllEntries, s)
    BY <1>5, EntriesIsBody, EntriesBodies
  <2>2. \A i \in DOMAIN s : s[i] \in Nat \X AllDocuments /\ AllEntries[s[i][2]] \in Entries
    BY <1>5 DEF Strings, Size
  <2>3. DictionaryEntries(AllEntries, s) \in Entries
    BY <2>2 DEF DictionaryEntries, Entries
  <2> QED  BY <1>5, <2>1, <2>3
<1>6. AllDocuments \subseteq T
  <2> HIDE DEF T
  <2> QED  BY <1>2, <1>3, <1>4, <1>5, DocumentInduction
<1> QED  BY <1>6

(* A document assigns its entries, the value of each to its name.           *)
Assignment(e) == <<One(e[1]), ValueOf(e[2])>>

Assignments(d) == {Assignment(e) : e \in AllEntries[d]}

LEMMA ListAssignments ==
  ASSUME NEW s, ListOf(s) \in AllDocuments,
         \A i \in 1 .. Size(s) : Elements(LogOf(s[i])) = Assignments(s[i])
  PROVE  Elements(LogOf(ListOf(s))) = Assignments(ListOf(s))
<1>1. s \in Strings(AllDocuments) /\ \A i \in 1 .. Size(s) : s[i] \in AllDocuments
  BY DepthExists DEF IsDepth
<1>2. DOMAIN s = 1 .. Len(s) /\ Len(s) \in Nat /\ Size(s) = Len(s)
  BY <1>1 DEF Strings, Size
<1>3. \A i \in 1 .. Len(s) : LogOf(s[i]) \in Strings(Text \X Text)
  BY <1>1, <1>2, DocumentIsReadBack, ReadableIs, LogsAre
<1>4. /\ ListLogs(s) \in Strings(Strings(Text \X Text)) /\ Size(ListLogs(s)) = Len(s)
      /\ \A i \in 1 .. Len(s) : ListLogs(s)[i] = LogOf(s[i])
  BY <1>2, <1>3 DEF ListLogs, Strings, Size
<1>5. LogOf(ListOf(s)) = FlattenSeq(ListLogs(s))
  BY LogsOf
<1> DEFINE logs == ListLogs(s)
<1> HIDE DEF logs
<1>6. Elements(FlattenSeq(logs)) = UNION {Elements(logs[i]) : i \in 1 .. Size(logs)}
  BY <1>4, ElementsOfAll DEF logs
<1>7. \A i \in 1 .. Len(s) : Elements(logs[i]) = Assignments(s[i])
  BY <1>2, <1>4 DEF logs
<1>8. Elements(FlattenSeq(logs)) = UNION {Assignments(s[i]) : i \in 1 .. Len(s)}
  BY <1>4, <1>6, <1>7 DEF logs
<1>9. AllEntries[ListOf(s)] = UNION {AllEntries[s[i]] : i \in 1 .. Len(s)}
  BY <1>2, EntriesIsBody, EntriesBodies DEF ListEntries
<1>10. Assignments(ListOf(s)) = UNION {Assignments(s[i]) : i \in 1 .. Len(s)}
  BY <1>9 DEF Assignments
<1> QED  BY <1>5, <1>8, <1>10 DEF logs

LEMMA DictionaryAssignments ==
  ASSUME NEW s, Dictionary(s) \in AllDocuments,
         \A i \in 1 .. Size(s) : Elements(LogOf(s[i][2])) = Assignments(s[i][2])
  PROVE  Elements(LogOf(Dictionary(s))) = Assignments(Dictionary(s))
<1>1. /\ s \in Strings(Nat \X AllDocuments)
      /\ \A i \in 1 .. Size(s) : s[i] \in Nat \X AllDocuments
  BY DepthExists DEF IsDepth
<1>2. DOMAIN s = 1 .. Len(s) /\ Len(s) \in Nat /\ Size(s) = Len(s)
  BY <1>1 DEF Strings, Size
<1>3. \A i \in 1 .. Size(s) : Readable(s[i][2])
  BY <1>1, DocumentIsReadBack
<1> DEFINE logs == EntryLogs(s)
<1>4. /\ logs \in Strings(Strings(Text \X Text)) /\ Size(logs) = Len(s)
      /\ \A i \in 1 .. Len(s) : logs[i] = EntryLog(s[i][1], s[i][2])
  BY <1>2, <1>3, EntryLogsType, LogsAre
<1>5. LogOf(Dictionary(s)) = FlattenSeq(logs)
  BY LogsOf
<1> HIDE DEF logs
<1>6. Elements(FlattenSeq(logs)) = UNION {Elements(logs[i]) : i \in 1 .. Size(logs)}
  BY <1>4, ElementsOfAll
<1>7. ASSUME NEW i \in 1 .. Len(s)
      PROVE  Elements(logs[i]) = Assignments(s[i][2]) \cup {Assignment(s[i])}
  <2> DEFINE c == s[i][1]
             d == s[i][2]
             entered == Entered(One(c), ValueOf(d))
  <2>1. c \in Nat /\ d \in AllDocuments /\ Elements(LogOf(d)) = Assignments(d)
    BY <1>1, <1>2
  <2>2. logs[i] = Cat(LogOf(d), entered)
    BY <1>4 DEF EntryLog
  <2>3. entered = One(Assignment(s[i]))
    BY DEF Entered, Assignment
  <2> HIDE DEF c, d
  <2>4. LogOf(d) \in Logs /\ ValueOf(d) \in Text
    BY <2>1, DocumentIsReadBack, ReadableIs
  <2>5. entered \in Logs
    <3>1. One(c) \in Text
      BY <2>1, OneType, TextIs
    <3> QED  BY <2>4, <3>1, OneType, LogsAre DEF Entered
  <2> HIDE DEF entered
  <2>6. Elements(logs[i]) = Elements(LogOf(d)) \cup Elements(entered)
    BY <2>2, <2>4, <2>5, ElementsOfCat, LogsAre
  <2>7. Elements(entered) = {Assignment(s[i])}
    BY <2>3, ElementsOfOne
  <2> QED  BY <2>1, <2>6, <2>7 DEF d
<1>8. Elements(FlattenSeq(logs))
        = UNION {Assignments(s[i][2]) \cup {Assignment(s[i])} : i \in 1 .. Len(s)}
  <2> DEFINE f(i) == Assignments(s[i][2]) \cup {Assignment(s[i])}
  <2>1. \A i \in 1 .. Len(s) : Elements(logs[i]) = f(i)
    BY <1>7
  <2> HIDE DEF f
  <2>2. Elements(FlattenSeq(logs)) = UNION {Elements(logs[i]) : i \in 1 .. Len(s)}
    BY <1>4, <1>6
  <2>3. Elements(FlattenSeq(logs)) = UNION {f(i) : i \in 1 .. Len(s)}
    BY <2>1, <2>2
  <2> QED  BY <2>3 DEF f
<1>9. AllEntries[Dictionary(s)]
        = {s[i] : i \in 1 .. Len(s)} \cup UNION {AllEntries[s[i][2]] : i \in 1 .. Len(s)}
  BY <1>2, EntriesIsBody, EntriesBodies DEF DictionaryEntries
<1>10. Assignments(Dictionary(s))
         = UNION {Assignments(s[i][2]) \cup {Assignment(s[i])} : i \in 1 .. Len(s)}
  <2>1. ASSUME NEW e \in AllEntries[Dictionary(s)]
        PROVE  \E i \in 1 .. Len(s) : Assignment(e) \in Assignments(s[i][2]) \cup {Assignment(s[i])}
    BY <1>9 DEF Assignments
  <2>2. ASSUME NEW i \in 1 .. Len(s)
        PROVE  Assignments(s[i][2]) \cup {Assignment(s[i])} \subseteq Assignments(Dictionary(s))
    BY <1>9 DEF Assignments
  <2>3. Assignments(Dictionary(s))
          \subseteq UNION {Assignments(s[i][2]) \cup {Assignment(s[i])} : i \in 1 .. Len(s)}
    BY <2>1 DEF Assignments
  <2> QED  BY <2>2, <2>3
<1> QED  BY <1>5, <1>8, <1>10

LEMMA LogHoldsEntries ==
  ASSUME NEW d \in AllDocuments
  PROVE  Elements(LogOf(d)) = Assignments(d)
<1> DEFINE T == {x \in AllDocuments : Elements(LogOf(x)) = Assignments(x)}
<1>1. ASSUME NEW n \in Nat PROVE Number(n) \in T
  <2>1. AllEntries[Number(n)] = {} /\ LogOf(Number(n)) = None /\ Number(n) \in AllDocuments
    BY NumberReads, EntriesIsBody, EntriesBodies, LogsOf
  <2> QED  BY <2>1, ElementsOfOne DEF Assignments
<1>2. ASSUME NEW b \in Text PROVE String(b) \in T
  <2>1. AllEntries[String(b)] = {} /\ LogOf(String(b)) = None /\ String(b) \in AllDocuments
    BY StringReads, EntriesIsBody, EntriesBodies, LogsOf
  <2> QED  BY <2>1, ElementsOfOne DEF Assignments
<1>3. ASSUME NEW s \in Strings(AllDocuments), ListOf(s) \in AllDocuments,
             \A i \in 1 .. Size(s) : s[i] \in T
      PROVE  ListOf(s) \in T
  BY <1>3, ListAssignments
<1>4. ASSUME NEW s \in Strings(Nat \X AllDocuments), Dictionary(s) \in AllDocuments,
             \A i \in 1 .. Size(s) : s[i][2] \in T
      PROVE  Dictionary(s) \in T
  BY <1>4, DictionaryAssignments
<1>5. AllDocuments \subseteq T
  <2> HIDE DEF T
  <2> QED  BY <1>1, <1>2, <1>3, <1>4, DocumentInduction
<1> QED  BY <1>5

(* What is looked up, when there is nothing or only one thing to find.      *)
LEMMA NotAssigned ==
  ASSUME NEW log \in Logs, NEW key, NEW default, \A x \in Elements(log) : x[1] # <<key>>
  PROVE  Lookup(log, key, default) = default
<1>1. DOMAIN log = 1 .. Size(log)
  BY DEF Logs, Size
<1>2. Assigned(log, key) = {}
  BY <1>1 DEF Elements, Assigned
<1> QED  BY <1>2 DEF Lookup

(* The log assigns the value to the key, and no other value to it.          *)
OnlyAssigned(log, key, value) ==
  /\ \E x \in Elements(log) : x[1] = <<key>>
  /\ \A x \in Elements(log) : x[1] = <<key>> => x[2] = value

LEMMA AssignedOnce ==
  ASSUME NEW log \in Logs, NEW key, NEW default, NEW value, OnlyAssigned(log, key, value)
  PROVE  Lookup(log, key, default) = value
<1> USE DEF OnlyAssigned
<1> DEFINE places == Assigned(log, key)
<1>1. DOMAIN log = 1 .. Size(log) /\ Size(log) \in Nat
  BY DEF Logs, Size
<1>2. places # {} /\ places \in SUBSET (1 .. Size(log))
  BY <1>1 DEF Elements, Assigned
<1>3. \A k \in places : log[k][2] = value
  BY <1>1 DEF Elements, Assigned
<1>4. Lookup(log, key, default) = log[Max(places)][2]
  BY <1>2 DEF Lookup
<1> HIDE DEF places
<1>5. Max(places) \in places
  BY <1>1, <1>2, MaxOfNumbers
<1> QED  BY <1>3, <1>4, <1>5

LEMMA FieldIsRead ==
  ASSUME NEW d \in AllDocuments, NEW name \in Nat, NEW default
  PROVE  /\ Written(d, name) = {} => Lookup(LogOf(d), name, default) = default
         /\ \A e : Written(d, name) = {e} =>
              e \in AllDocuments /\ Lookup(LogOf(d), name, default) = ValueOf(e)
<1> DEFINE log == LogOf(d)
           E == AllEntries[d]
<1>1. log \in Logs
  BY DocumentIsReadBack, ReadableIs
<1>2. Elements(log) = {Assignment(e) : e \in E}
  BY LogHoldsEntries DEF Assignments
<1>3. E \in SUBSET (Nat \X AllDocuments)
  BY EntriesType DEF Entries
<1>4. Written(d, name) = {e[2] : e \in {x \in E : x[1] = name}}
  BY Zenon DEF Written
<1> HIDE DEF log, E
<1>5. \A e \in E : /\ Assignment(e)[1] = <<name>> <=> e[1] = name
                   /\ Assignment(e)[2] = ValueOf(e[2])
  BY DEF Assignment, One
<1>6. ASSUME Written(d, name) = {} PROVE Lookup(log, name, default) = default
  <2>1. \A e \in E : e[1] # name
    BY <1>4, <1>6
  <2>2. \A x \in Elements(log) : x[1] # <<name>>
    BY <1>2, <1>5, <2>1
  <2> QED  BY <1>1, <2>2, NotAssigned
<1>7. ASSUME NEW e, Written(d, name) = {e}
      PROVE  e \in AllDocuments /\ Lookup(log, name, default) = ValueOf(e)
  <2>1. PICK x \in E : x[1] = name /\ x[2] = e
    BY <1>4, <1>7
  <2>2. \A y \in E : y[1] = name => y[2] = e
    BY <1>4, <1>7
  <2>3. \A y \in Elements(log) : y[1] = <<name>> => y[2] = ValueOf(e)
    BY <1>2, <1>5, <2>2
  <2>4. \E y \in Elements(log) : y[1] = <<name>>
    BY <1>2, <1>5, <2>1
  <2>5. e \in AllDocuments
    BY <1>3, <2>1
  <2>6. OnlyAssigned(log, name, ValueOf(e))
    BY <2>3, <2>4, Zenon DEF OnlyAssigned
  <2>7. Lookup(log, name, default) = ValueOf(e)
    BY <1>1, <2>6, AssignedOnce
  <2> QED  BY <2>5, <2>7
<1> QED  BY <1>6, <1>7 DEF log

(* The hashes of the pieces, one behind the other.                          *)
LEMMA Continued ==
  ASSUME NEW data \in Text, NEW a \in Nat, NEW b \in Nat, a <= b, b <= Len(data)
  PROVE  Cat(SubSeq(data, 1, a), SubSeq(data, a + 1, b)) = SubSeq(data, 1, b)
<1> DEFINE s == SubSeq(data, 1, a)
           t == SubSeq(data, a + 1, b)
           u == SubSeq(data, 1, b)
           v == Cat(s, t)
<1>1. data \in Seq(Nat) /\ Len(data) \in Nat
  BY DEF Text
<1>2. /\ s \in Seq(Nat) /\ Len(s) = a /\ \A i \in 1 .. a : s[i] = data[i]
      /\ t \in Seq(Nat) /\ Len(t) = b - a /\ \A i \in 1 .. b - a : t[i] = data[a + i]
      /\ u \in Seq(Nat) /\ Len(u) = b /\ \A i \in 1 .. b : u[i] = data[i]
  BY <1>1
<1> HIDE DEF s, t, u
<1>3. /\ v \in Seq(Nat) /\ Len(v) = b
      /\ \A i \in 1 .. a : v[i] = s[i]
      /\ \A i \in 1 .. b - a : v[a + i] = t[i]
  <2>1. s \in Seq(Nat) /\ t \in Seq(Nat) /\ Len(s) = a /\ Len(t) = b - a /\ a + (b - a) = b
    BY <1>2
  <2>2. /\ s \o t \in Seq(Nat) /\ Len(s \o t) = Len(s) + Len(t)
        /\ \A i \in 1 .. Len(s) : (s \o t)[i] = s[i]
        /\ \A i \in 1 .. Len(t) : (s \o t)[Len(s) + i] = t[i]
    BY <2>1, Joined
  <2>3. v = s \o t
    BY DEF Cat
  <2> HIDE DEF v
  <2> QED  BY <2>1, <2>2, <2>3
<1> HIDE DEF v
<1>4. ASSUME NEW i \in 1 .. b PROVE v[i] = u[i]
  <2>1. CASE i \in 1 .. a
    BY <1>2, <1>3, <2>1
  <2>2. CASE i \notin 1 .. a
    <3>1. i - a \in 1 .. b - a /\ a + (i - a) = i
      BY <2>2
    <3>2. v[i] = t[i - a] /\ t[i - a] = data[i]
      BY <1>2, <1>3, <3>1
    <3> QED  BY <1>2, <3>2
  <2> QED  BY <2>1, <2>2
<1>5. v = u
  BY <1>2, <1>3, <1>4, SameElements
<1> QED  BY <1>5 DEF v, s, t, u

HashesIn(data) ==
  [k \in 1 .. Len(data) \div HashSize |->
     SubSeq(data, (k - 1) * HashSize + 1, k * HashSize)]

LEMMA HashesAre ==
  ASSUME NEW data \in Text
  PROVE  /\ IsPrefix(FlattenSeq(HashesIn(data)), data)
         /\ Len(HashesIn(data)) = Len(data) \div HashSize
         /\ \A k \in DOMAIN HashesIn(data) : Len(HashesIn(data)[k]) = HashSize
<1> DEFINE h == HashSize
           n == Len(data) \div h
           parts == HashesIn(data)
<1>1. h \in Nat \ {0} /\ Len(data) \in Nat
  BY BencodeAssumption DEF Text
<1> HIDE DEF h
<1>2. n \in Nat /\ n * h <= Len(data)
  BY <1>1
<1> HIDE DEF n
<1>3. ASSUME NEW k \in 0 .. n
      PROVE  k * h \in Nat /\ k * h <= Len(data) /\ (k # 0 => (k - 1) * h \in Nat)
             /\ (k # 0 => (k - 1) * h + h = k * h)
  <2>1. k * h <= n * h
    BY <1>1, <1>2
  <2>2. k * h \in Nat /\ (k # 0 => (k - 1) * h \in Nat) /\ (k # 0 => (k - 1) * h + h = k * h)
    BY <1>1, <1>2
  <2>3. n * h \in Nat
    BY <1>1, <1>2
  <2> QED  BY <1>1, <1>2, <2>1, <2>2, <2>3
<1>4. parts = [k \in 1 .. n |-> SubSeq(data, (k - 1) * h + 1, k * h)]
  BY DEF HashesIn, n, h
<1>5. ASSUME NEW k \in 1 .. n
      PROVE  parts[k] = SubSeq(data, (k - 1) * h + 1, k * h) /\ parts[k] \in Text
             /\ Len(parts[k]) = h
  <2> DEFINE a == (k - 1) * h
             b == k * h
  <2>1. a \in Nat /\ b \in Nat /\ b <= Len(data) /\ a + h = b
    <3>1. k \in 0 .. n /\ k # 0
      BY <1>2
    <3> QED  BY <1>3, <3>1
  <2>2. parts[k] = SubSeq(data, a + 1, b)
    BY <1>4
  <2> HIDE DEF a, b
  <2>3. SubSeq(data, a + 1, b) \in Text /\ Len(SubSeq(data, a + 1, b)) = h
    BY <1>1, <2>1 DEF Text
  <2> QED  BY <2>2, <2>3 DEF a, b
<1>6. parts \in Strings(Text) /\ Len(parts) = n /\ DOMAIN parts = 1 .. n
  BY <1>2, <1>4, <1>5 DEF Strings
<1> HIDE DEF parts
<1>7. FlattenSeq(parts) = SubSeq(data, 1, n * h)
  <2>1. CASE n = 0
    <3>1. PICK rest : Remainders(rest, parts)
      BY <1>6, FlattenParts
    <3>2. FlattenSeq(parts) = None
      BY <1>6, <2>1, <3>1 DEF Remainders, Size
    <3>3. n * h = 0
      BY <1>1, <2>1
    <3>4. SubSeq(data, 1, 0) = None
      BY DEF None, Text
    <3> QED  BY <3>2, <3>3, <3>4
  <2>2. CASE n # 0
    <3>1. PICK f \in [1 .. n -> Text] :
            /\ f[1] = parts[1]
            /\ \A k \in 2 .. n : f[k] = Cat(f[k - 1], parts[k])
            /\ FlattenSeq(parts) = f[n]
      <4>1. parts \in Strings(Strings(Nat)) /\ Size(parts) = n
        BY <1>6, TextIs DEF Size
      <4>2. \E f \in [1 .. n -> Strings(Nat)] :
              /\ f[1] = parts[1]
              /\ \A k \in 2 .. n : f[k] = Cat(f[k - 1], parts[k])
              /\ FlattenSeq(parts) = f[n]
        BY <2>2, <4>1, FlattenStepsOf
      <4> QED  BY <4>2, TextIs
    <3> DEFINE T == {k \in Nat : k + 1 <= n => f[k + 1] = SubSeq(data, 1, (k + 1) * h)}
    <3>2. 0 \in T
      <4>1. 1 \in 1 .. n /\ (1 - 1) * h + 1 = 1
        BY <1>1, <1>2, <2>2
      <4>2. f[1] = SubSeq(data, 1, 1 * h)
        BY <1>5, <3>1, <4>1
      <4> QED  BY <4>2
    <3>3. ASSUME NEW k \in Nat, k \in T PROVE k + 1 \in T
      <4> SUFFICES ASSUME k + 1 + 1 <= n PROVE f[k + 1 + 1] = SubSeq(data, 1, (k + 1 + 1) * h)
        OBVIOUS
      <4> DEFINE a == (k + 1) * h
                 b == (k + 1 + 1) * h
                 j == k + 1 + 1
      <4>1. j \in 2 .. n /\ j \in 1 .. n /\ j - 1 = k + 1 /\ k + 1 <= n /\ j \in 0 .. n /\ j # 0
        BY <1>2
      <4>2. a \in Nat /\ b \in Nat /\ b <= Len(data) /\ a + h = b
        <5>1. (j - 1) * h \in Nat /\ j * h \in Nat /\ j * h <= Len(data)
              /\ (j - 1) * h + h = j * h
          BY <1>3, <4>1
        <5> QED  BY <4>1, <5>1
      <4>3. f[j] = Cat(f[j - 1], parts[j]) /\ f[k + 1] = SubSeq(data, 1, a)
        BY <3>1, <3>3, <4>1
      <4>4. parts[j] = SubSeq(data, a + 1, b)
        <5>1. parts[j] = SubSeq(data, (j - 1) * h + 1, j * h)
          BY <1>5, <4>1
        <5> QED  BY <4>1, <5>1
      <4> HIDE DEF a, b
      <4>5. Cat(SubSeq(data, 1, a), SubSeq(data, a + 1, b)) = SubSeq(data, 1, b)
        <5>1. a <= b
          BY <1>1, <4>2
        <5> QED  BY <4>2, <5>1, Continued
      <4>6. f[j] = SubSeq(data, 1, b)
        BY <4>1, <4>3, <4>4, <4>5
      <4> QED  BY <4>6 DEF b
    <3>4. n - 1 \in T
      <4>1. Nat \subseteq T
        <5> HIDE DEF T
        <5> QED  BY <3>2, <3>3, InductionOnNat
      <4>2. n - 1 \in Nat
        BY <1>2, <2>2
      <4> QED  BY <4>1, <4>2
    <3>5. n - 1 + 1 = n
      BY <1>2
    <3> QED  BY <3>1, <3>4, <3>5
  <2> QED  BY <2>1, <2>2
<1> DEFINE m == n * h
<1>8. m \in Nat /\ m <= Len(data)
  BY <1>1, <1>2
<1> HIDE DEF m
<1>9. IsPrefix(SubSeq(data, 1, m), data)
  <2>1. Len(SubSeq(data, 1, m)) = m /\ SubSeq(SubSeq(data, 1, m), 1, m) = SubSeq(data, 1, m)
    BY <1>8 DEF Text
  <2> QED  BY <1>8, <2>1 DEF IsPrefix
<1> QED  BY <1>5, <1>6, <1>7, <1>9 DEF parts, m, n, h

(* A file is read from its beginning.                                       *)
NoSection == <<1, 1>>

LEMMA ParseStringIs ==
  ASSUME NEW b \in Text
  PROVE  /\ ParseString(b) = Outcome(None, b, None, None, NoSection, None)
         /\ None \in Text /\ None \in Logs /\ NoSection \in Sections
         /\ Cat(None, Cat(b, None)) = b
<1>1. None \in Text /\ None \in Logs /\ NoSection \in Sections /\ Size(None) = 0
  BY NoneType, TextIs, LogsAre DEF Sections, NoSection
<1>2. NewState = StateAt(Size(None) + 1, None, NoSection, None)
  <2>1. Size(None) + 1 = 1
    BY <1>1
  <2>2. NewState = StateAt(1, None, NoSection, None)
    BY Zenon DEF NewState, StateAt, None, NoSection
  <2> QED  BY <2>1, <2>2
<1>3. Cat(b, None) = b /\ Cat(None, b) = b
  BY CatNone, TextIs
<1>4. ParseString(b) = Outcome(None, b, None, None, NoSection, None)
  BY <1>2, <1>3, Zenon DEF ParseString, NextCall, Outcome
<1> QED  BY <1>1, <1>3, <1>4

(* Of a torrent file that is a dictionary with one `info' in it, that is    *)
(* the section.                                                             *)
OneInfo(s, k) ==
  k \in 1 .. Size(s) /\ \A j \in 1 .. Size(s) : s[j][1] = InfoKey <=> j = k

LEMMA WholeIsRead ==
  ASSUME NEW s, Dictionary(s) \in AllDocuments, NEW k, OneInfo(s, k)
  PROVE  /\ ParseString(Encode[Dictionary(s)]).info_dict = LogOf(Dictionary(s))
         /\ Section(Encode[Dictionary(s)], ParseString(Encode[Dictionary(s)]))
              = Encode[s[k][2]]
<1> DEFINE d == Dictionary(s)
           b == Encode[d]
           log == LogOf(d)
           info == Encode[s[k][2]]
           state == ParseString(b)
<1>1. s \in Strings(Nat \X AllDocuments) /\ \A i \in 1 .. Size(s) : s[i] \in Nat \X AllDocuments
  BY DepthExists DEF IsDepth
<1>2. Size(s) \in Nat
  BY <1>1, SizeIsNat
<1>3. \A i \in 1 .. Size(s) : Readable(s[i][2])
  BY <1>1, DocumentIsReadBack
<1>4. LastInfo(s, k) /\ k # 0
  BY <1>2 DEF LastInfo, OneInfo
<1>5. b \in Text /\ log \in Logs /\ log = FlattenSeq(EntryLogs(s))
  BY EncodeType, DocumentIsReadBack, ReadableIs, LogsOf
<1> HIDE DEF b
<1>6. /\ state = Outcome(None, b, None, None, NoSection, None)
      /\ None \in Text /\ None \in Logs /\ NoSection \in Sections /\ Cat(None, Cat(b, None)) = b
  BY <1>5, ParseStringIs
<1> HIDE DEF state
<1>7. PICK s2 \in Sections :
        /\ Outcome(None, b, None, None, NoSection, None)
             = StateAt(EndsAt(None, b), Cat(None, FlattenSeq(EntryLogs(s))), s2, None)
        /\ k # 0 => SubSeq(Cat(None, Cat(b, None)), s2[1], s2[2] - 1) = info
  BY <1>3, <1>4, <1>6, DictionaryOutcome DEF b
<1>8. Cat(None, log) = log
  BY <1>5, LogsJoin
<1> HIDE DEF log, info, d
<1>9. state = StateAt(EndsAt(None, b), log, s2, None)
  BY <1>5, <1>6, <1>7, <1>8
<1>10. state.info_dict = log /\ state.info_section = s2
  <2> DEFINE end == EndsAt(None, b)
  <2> HIDE DEF end
  <2>2. /\ StateAt(end, log, s2, None).info_dict = log
        /\ StateAt(end, log, s2, None).info_section = s2
    BY DEF StateAt
  <2> QED  BY <1>9, <2>2 DEF end
<1>11. Section(b, state) = info
  <2>1. SubSeq(b, s2[1], s2[2] - 1) = info
    BY <1>4, <1>6, <1>7
  <2> QED  BY <1>10, <2>1 DEF Section
<1> QED  BY <1>10, <1>11 DEF state, b, d, info, log

(* Where that `info' is.                                                    *)
LEMMA InfoIsFound ==
  ASSUME NEW s, DOMAIN s = 1 .. Size(s), Size(s) \in Nat, NEW k, OneInfo(s, k)
  PROVE  Entry(Dictionary(s), InfoKey) = s[k][2]
<1> DEFINE names == [i \in 1 .. Size(s) |-> s[i][1]]
           found == {i \in 1 .. Len(names) : names[i] = InfoKey}
<1>1. Names(Dictionary(s)) = names
  BY KindsAre DEF Names
<1>2. Len(names) = Size(s)
  OBVIOUS
<1>3. found = {k}
  BY <1>2 DEF OneInfo
<1>4. Min({k}) = k
  <2>1. {k} # {} /\ {k} \in SUBSET (1 .. Size(s))
    BY DEF OneInfo
  <2>2. Min({k}) \in {k}
    BY <2>1, MinOfPlaces
  <2> QED  BY <2>2
<1> HIDE DEF names
<1>5. SelectInSeq(names, LAMBDA n : n = InfoKey) = IF found # {} THEN Min(found) ELSE 0
  BY DEF SelectInSeq
<1> HIDE DEF found
<1>6. SelectInSeq(names, LAMBDA n : n = InfoKey) = k
  BY <1>3, <1>4, <1>5
<1> QED  BY <1>1, <1>6, KindsAre DEF Entry

=============================================================================
