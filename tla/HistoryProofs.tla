--------------------------- MODULE HistoryProofs ---------------------------
(* What a reader of a live terminal's archive gets (TerminalHistory), proved for *)
(* any readers, records, quota, budgets and failures.                            *)
EXTENDS TerminalHistory, Integers, FiniteSetTheorems, SequenceTheorems, WellFoundedInduction, TLAPS

-----------------------------------------------------------------------------
(* What is sound about an archive state and the files it names                  *)

Blocks == [first : Nat, last : Nat]
Archives == [exists : BOOLEAN, blocks : Seq(Blocks), closed : BOOLEAN, pending : Seq(Nat)]
Manifests == [exists : BOOLEAN, blocks : Seq(Blocks), closed : BOOLEAN]
Messages ==
    [kind : {"append"}, n : Nat] \cup [kind : {"snapshot"}, n : Readers]
      \cup [kind : {"barrier"}, n : {0}]

Increasing(records) == \A i, j \in DOMAIN records : i < j => records[i] < records[j]

\* The blocks lie one after the other.
Ordered(blocks) ==
    /\ \A i \in DOMAIN blocks : blocks[i].first <= blocks[i].last
    /\ \A i, j \in DOMAIN blocks : i < j => blocks[i].last < blocks[j].first

\* A state's blocks and then its pending records are one increasing line.
Proper(s) ==
    /\ s.blocks \in Seq(Blocks) /\ s.pending \in Seq(Nat)
    /\ Ordered(s.blocks) /\ Increasing(s.pending)
    /\ \A i \in DOMAIN s.pending : LastBlock(s.blocks) < s.pending[i]

\* A file holds what the name of its block says.
FileSound(f, b) ==
    /\ f[b] \in Seq(Nat) /\ f[b] # <<>> /\ Increasing(f[b])
    /\ b = BlockOf(f[b])

FilesSound(f, newest) == \A b \in DOMAIN f : FileSound(f, b) /\ b.last <= newest

\* The record is pending, or in the file of one of the blocks.
Has(f, s, n) ==
    \/ \E i \in DOMAIN s.pending : s.pending[i] = n
    \/ \E i \in DOMAIN s.blocks :
         /\ s.blocks[i] \in DOMAIN f
         /\ \E k \in DOMAIN f[s.blocks[i]] : f[s.blocks[i]][k] = n

Holds(f, s, t, records) == \A n \in records : n > t => Has(f, s, n)

\* The state, with the files and the quota's mark t, accounts for the records.
Sound(f, s, t, records) ==
    /\ Proper(s)
    /\ FilesSound(f, LastBlock(s.blocks))
    /\ t <= LastBlock(s.blocks) /\ \A i \in DOMAIN s.blocks : t < s.blocks[i].last
    /\ Holds(f, s, t, records)

\* A reader's copy, which the state has left behind.
CopySound(f, s, t, records, newest) ==
    /\ Proper(s)
    /\ \A i \in DOMAIN s.blocks : s.blocks[i].last <= newest
    /\ Holds(f, s, t, records)

-----------------------------------------------------------------------------
(* Lemmas about blocks                                                          *)

LEMMA LastBlockBounds ==
  ASSUME NEW blocks \in Seq(Blocks), Ordered(blocks)
  PROVE  /\ LastBlock(blocks) \in Nat
         /\ \A i \in DOMAIN blocks : blocks[i].last <= LastBlock(blocks)
         /\ \A i \in DOMAIN blocks : i # Len(blocks) => blocks[i].last < LastBlock(blocks)
<1>1. CASE blocks = <<>>
  BY <1>1 DEF LastBlock
<1>2. CASE blocks # <<>>
  <2>1. /\ Len(blocks) \in Nat \ {0} /\ DOMAIN blocks = 1..Len(blocks)
        /\ LastBlock(blocks) = blocks[Len(blocks)].last
    BY <1>2 DEF LastBlock, Last
  <2>2. ASSUME NEW i \in DOMAIN blocks PROVE blocks[i].first \in Nat /\ blocks[i].last \in Nat
    <3>1. blocks[i] \in Blocks
      OBVIOUS
    <3>. QED BY <3>1 DEF Blocks
  <2>3. ASSUME NEW i \in DOMAIN blocks, i # Len(blocks) PROVE blocks[i].last < LastBlock(blocks)
    <3>1. blocks[i].last < blocks[Len(blocks)].first /\ blocks[Len(blocks)].first <= blocks[Len(blocks)].last
      BY <2>1, <2>3 DEF Ordered
    <3>2. Len(blocks) \in DOMAIN blocks
      BY <2>1
    <3>. QED BY <2>1, <2>2, <3>1, <3>2
  <2>4. LastBlock(blocks) \in Nat
    BY <2>1, <2>2
  <2>5. ASSUME NEW i \in DOMAIN blocks PROVE blocks[i].last <= LastBlock(blocks)
    <3>1. CASE i = Len(blocks)
      BY <2>1, <2>4, <3>1
    <3>2. CASE i # Len(blocks)
      BY <2>2, <2>3, <2>4, <3>2
    <3>. QED BY <3>1, <3>2
  <2>. QED BY <2>3, <2>4, <2>5
<1>. QED BY <1>1, <1>2

LEMMA BlockBounds ==
  ASSUME NEW records \in Seq(Nat), records # <<>>, Increasing(records)
  PROVE  /\ BlockOf(records) \in Blocks
         /\ BlockOf(records).first = records[1] /\ BlockOf(records).last = records[Len(records)]
         /\ BlockOf(records).first <= BlockOf(records).last
         /\ \A k \in DOMAIN records : BlockOf(records).first <= records[k] /\ records[k] <= BlockOf(records).last
<1>1. Len(records) \in Nat \ {0} /\ DOMAIN records = 1..Len(records)
  OBVIOUS
<1>2. Head(records) = records[1] /\ Last(records) = records[Len(records)]
  BY DEF Last
<1>3. \A k \in DOMAIN records : records[k] \in Nat
  OBVIOUS
<1>4. \A k \in DOMAIN records : records[1] <= records[k] /\ records[k] <= records[Len(records)]
  BY <1>1, <1>3 DEF Increasing
<1>. QED BY <1>1, <1>2, <1>3, <1>4 DEF BlockOf, Blocks

LEMMA FileBounds ==
  ASSUME NEW f, NEW b \in DOMAIN f, FileSound(f, b)
  PROVE  /\ b \in Blocks /\ b.first <= b.last
         /\ \A k \in DOMAIN f[b] : f[b][k] \in Nat /\ b.first <= f[b][k] /\ f[b][k] <= b.last
<1>1. f[b] \in Seq(Nat) /\ f[b] # <<>> /\ Increasing(f[b]) /\ b = BlockOf(f[b])
  BY DEF FileSound
<1>. QED BY <1>1, BlockBounds

\* The block that a flush writes, and the state after it.
WithBlock(f, records) ==
    [b \in DOMAIN f \cup {BlockOf(records)} |-> IF b = BlockOf(records) THEN records ELSE f[b]]
Blocked(s) == [s EXCEPT !.blocks = Append(@, BlockOf(s.pending)), !.pending = <<>>]

\* It keeps everything in its place, ...
LEMMA FlushStep ==
  ASSUME NEW f, NEW s \in Archives, NEW t \in Nat, NEW W \in SUBSET Nat, Sound(f, s, t, W),
         s.pending # <<>>,
         NEW e, e = WithBlock(f, s.pending), NEW u, u = Blocked(s)
  PROVE  /\ u \in Archives /\ Sound(e, u, t, W)
         /\ LastBlock(s.blocks) \in Nat /\ LastBlock(u.blocks) \in Nat
         /\ LastBlock(s.blocks) < LastBlock(u.blocks)
         /\ LastBlock(s.blocks) < BlockOf(s.pending).last
<1>. DEFINE B == BlockOf(s.pending)
            n == Len(s.blocks)
<1>0. /\ s.blocks \in Seq(Blocks) /\ s.pending \in Seq(Nat) /\ Ordered(s.blocks) /\ Increasing(s.pending)
      /\ \A i \in DOMAIN s.pending : LastBlock(s.blocks) < s.pending[i]
  BY DEF Sound, Proper
<1>1. /\ B \in Blocks /\ B.first = s.pending[1] /\ B.first <= B.last
      /\ \A k \in DOMAIN s.pending : B.first <= s.pending[k] /\ s.pending[k] <= B.last
  BY <1>0, BlockBounds
<1>2. /\ LastBlock(s.blocks) \in Nat
      /\ \A i \in DOMAIN s.blocks : s.blocks[i].last <= LastBlock(s.blocks)
  BY <1>0, LastBlockBounds
<1>3. LastBlock(s.blocks) < B.first
  <2>1. 1 \in DOMAIN s.pending
    BY <1>0
  <2>. QED BY <1>0, <1>1, <2>1
<1>. HIDE DEF B
<1>4. /\ u = [exists |-> s.exists, blocks |-> u.blocks, closed |-> s.closed, pending |-> u.pending]
      /\ s.exists \in BOOLEAN /\ s.closed \in BOOLEAN /\ u.blocks = Append(s.blocks, B) /\ u.pending = <<>>
  <2>1. PICK longer : longer = Append(s.blocks, B)
    OBVIOUS
  <2>2. PICK nothing : nothing = <<>>
    OBVIOUS
  <2>3. u = [s EXCEPT !.blocks = longer, !.pending = nothing]
    BY <2>1, <2>2 DEF B, Blocked
  <2>. QED BY <2>1, <2>2, <2>3 DEF Archives
<1>5. u \in Archives
  <2>1. Append(s.blocks, B) \in Seq(Blocks)
    BY <1>0, <1>1
  <2>2. u.blocks \in Seq(Blocks) /\ u.pending \in Seq(Nat)
    BY <1>4, <2>1
  <2>3. PICK b \in Seq(Blocks), p \in Seq(Nat) : b = u.blocks /\ p = u.pending
    BY <2>2
  <2>4. u = [exists |-> s.exists, blocks |-> b, closed |-> s.closed, pending |-> p]
    BY <1>4, <2>3
  <2>5. s.exists \in BOOLEAN /\ s.closed \in BOOLEAN
    BY <1>4
  <2>. QED BY ONLY <2>3, <2>4, <2>5 DEF Archives
<1>6. /\ n \in Nat /\ DOMAIN s.blocks = 1..n /\ u.blocks \in Seq(Blocks) /\ DOMAIN u.blocks = 1..n + 1
      /\ Len(u.blocks) = n + 1 /\ \A i \in 1..n : u.blocks[i] = s.blocks[i] /\ s.blocks[i] \in Blocks
      /\ u.blocks[n + 1] = B
  <2>1. u.blocks = Append(s.blocks, B)
    BY <1>4
  <2>. QED BY <1>0, <1>1, <2>1
<1>19. /\ \A i \in 1..n : s.blocks[i].first \in Nat /\ s.blocks[i].last \in Nat
       /\ B.first \in Nat /\ B.last \in Nat
  BY <1>1, <1>6 DEF Blocks
<1>7. LastBlock(u.blocks) = B.last
  <2>1. u.blocks # <<>> /\ Last(u.blocks) = B
    BY <1>6 DEF Last
  <2>. QED BY <2>1 DEF LastBlock
<1>8. Ordered(u.blocks)
  <2>1. ASSUME NEW i \in DOMAIN u.blocks
        PROVE  u.blocks[i].first <= u.blocks[i].last
    <3>1. CASE i = n + 1
      <4>1. B.first <= B.last
        BY <1>1
      <4>. QED BY ONLY <3>1, <4>1, <1>6
    <3>2. CASE i # n + 1
      <4>1. i \in DOMAIN s.blocks /\ u.blocks[i] = s.blocks[i]
        BY ONLY <1>6, <2>1, <3>2
      <4>2. s.blocks[i].first <= s.blocks[i].last
        BY ONLY <1>0, <4>1 DEF Ordered
      <4>. QED BY ONLY <4>1, <4>2
    <3>. QED BY ONLY <3>1, <3>2
  <2>2. ASSUME NEW i \in DOMAIN u.blocks, NEW j \in DOMAIN u.blocks, i < j
        PROVE  u.blocks[i].last < u.blocks[j].first
    <3>1. i \in 1..n
      BY <1>6, <2>2
    <3>2. CASE j = n + 1
      <4>1. u.blocks[i] = s.blocks[i] /\ u.blocks[j] = B /\ i \in DOMAIN s.blocks
        BY <1>6, <3>1, <3>2
      <4>2. s.blocks[i].last <= LastBlock(s.blocks) /\ s.blocks[i].last \in Nat
        BY <1>2, <1>19, <3>1, <4>1
      <4>. QED BY <1>2, <1>3, <1>19, <4>1, <4>2
    <3>3. CASE j # n + 1
      <4>1. j \in 1..n
        BY <1>6, <2>2, <3>3
      <4>. QED BY <1>0, <1>6, <2>2, <3>1, <4>1 DEF Ordered
    <3>. QED BY <3>2, <3>3
  <2>. QED BY <2>1, <2>2 DEF Ordered
<1>9. Proper(u)
  <2>1. u.pending \in Seq(Nat) /\ DOMAIN u.pending = {}
    BY <1>4
  <2>. QED BY <1>6, <1>8, <2>1 DEF Proper, Increasing
<1>10. e = [b \in DOMAIN f \cup {B} |-> IF b = B THEN s.pending ELSE f[b]]
  BY DEF B, WithBlock
<1>11. ASSUME NEW b \in DOMAIN f PROVE b # B /\ b \in DOMAIN e /\ e[b] = f[b]
  <2>1. b.last <= LastBlock(s.blocks) /\ b \in Blocks
    BY FileBounds DEF Sound, FilesSound
  <2>2. b # B
    BY <1>1, <1>2, <1>3, <2>1 DEF Blocks
  <2>. QED BY <1>10, <2>2
<1>12. B \in DOMAIN e /\ e[B] = s.pending
  BY <1>10
<1>13. FilesSound(e, LastBlock(u.blocks))
  <2>1. ASSUME NEW b \in DOMAIN e, b # B PROVE FileSound(e, b) /\ b.last <= B.last
    <3>1. b \in DOMAIN f
      BY <1>10, <2>1
    <3>2. b.last <= LastBlock(s.blocks) /\ b \in Blocks /\ FileSound(f, b)
      BY <3>1, FileBounds DEF Sound, FilesSound
    <3>. QED BY <1>1, <1>2, <1>3, <1>11, <3>1, <3>2 DEF Blocks, FileSound
  <2>2. FileSound(e, B)
    BY <1>0, <1>12 DEF FileSound, B
  <2>3. B.last <= B.last
    BY <1>1 DEF Blocks
  <2>. QED BY <1>7, <2>1, <2>2, <2>3 DEF FilesSound
<1>14. \A i \in DOMAIN u.blocks : t < u.blocks[i].last
  <2>1. \A i \in 1..n : t < s.blocks[i].last
    BY <1>6 DEF Sound
  <2>2. t < B.last
    BY <1>1, <1>2, <1>3, <1>19 DEF Sound
  <2>. QED BY <1>6, <2>1, <2>2
<1>15. Holds(e, u, t, W)
  <2>. SUFFICES ASSUME NEW x \in W, x > t PROVE Has(e, u, x)
    BY DEF Holds
  <2>1. Has(f, s, x)
    BY DEF Sound, Holds
  <2>2. CASE \E i \in DOMAIN s.pending : s.pending[i] = x
    BY <1>6, <1>12, <2>2 DEF Has
  <2>3. CASE \E i \in DOMAIN s.blocks :
               s.blocks[i] \in DOMAIN f /\ \E k \in DOMAIN f[s.blocks[i]] : f[s.blocks[i]][k] = x
    <3>1. PICK i \in DOMAIN s.blocks :
               s.blocks[i] \in DOMAIN f /\ \E k \in DOMAIN f[s.blocks[i]] : f[s.blocks[i]][k] = x
      BY <2>3
    <3>2. i \in DOMAIN u.blocks /\ u.blocks[i] = s.blocks[i]
      BY <1>6
    <3>. QED BY <1>11, <3>1, <3>2 DEF Has
  <2>. QED BY <2>1, <2>2, <2>3 DEF Has
<1>16. LastBlock(s.blocks) < B.last /\ t <= B.last
  BY <1>1, <1>2, <1>3, <1>19 DEF Sound
<1>17. Sound(e, u, t, W)
  BY <1>7, <1>9, <1>13, <1>14, <1>15, <1>16 DEF Sound
<1>. QED BY <1>2, <1>5, <1>7, <1>16, <1>17, <1>19 DEF B

\* ... and what a reader has copied as well.
LEMMA FlushKeepsCopy ==
  ASSUME NEW f, NEW newest \in Nat, FilesSound(f, newest), NEW records, NEW block, newest < block.last,
         NEW e, e = [b \in DOMAIN f \cup {block} |-> IF b = block THEN records ELSE f[b]],
         NEW c, NEW t, NEW N, Holds(f, c, t, N)
  PROVE  Holds(e, c, t, N)
<1>1. ASSUME NEW b \in DOMAIN f PROVE b \in DOMAIN e /\ e[b] = f[b]
  <2>1. b.last \in Nat /\ b.last <= newest
    BY FileBounds DEF FilesSound, Blocks
  <2>2. b # block
    BY <2>1
  <2>. QED BY <2>2
<1>. QED BY <1>1 DEF Holds, Has

Mark(blocks, t) == IF Excess(blocks) = 0 THEN t ELSE blocks[Excess(blocks)].last

\* The blocks from the one after x on are what is left of n.
Left(blocks, x, n, rest) ==
    /\ x \in Nat /\ n \in Nat /\ DOMAIN blocks = 1..n
    /\ x <= n /\ (blocks # <<>> => x < n)
    /\ rest \in Seq(Blocks) /\ DOMAIN rest = 1..n - x /\ Len(rest) = n - x
    /\ \A i \in DOMAIN rest : i + x \in DOMAIN blocks /\ rest[i] = blocks[i + x]

LEMMA ExcessBounds ==
  ASSUME HistoryAssumption, NEW blocks \in Seq(Blocks),
         NEW x, x = Excess(blocks), NEW n, n = Len(blocks), NEW rest, rest = SubSeq(blocks, x + 1, n)
  PROVE  Left(blocks, x, n, rest)
<1>1. n \in Nat /\ (blocks # <<>> => n > 0) /\ DOMAIN blocks = 1..n
  OBVIOUS
<1>2. MaxBlocks \in Nat \ {0}
  BY DEF HistoryAssumption
<1>3. x \in Nat /\ x <= n /\ (blocks # <<>> => x < n)
  BY <1>1, <1>2 DEF Excess
<1>0. blocks \in Seq(Blocks) /\ rest = SubSeq(blocks, x + 1, n) /\ n = Len(blocks)
  OBVIOUS
<1>4. x + 1 \in 1..n + 1 /\ n \in (x + 1) - 1..n
  BY ONLY <1>1, <1>3
<1>5. /\ rest \in Seq(Blocks) /\ Len(rest) = (n - (x + 1)) + 1
      /\ \A i \in 1..(n - (x + 1)) + 1 : rest[i] = blocks[(x + 1) + i - 1]
  BY ONLY <1>0, <1>4, SubSeqProperties
<1>6. (n - (x + 1)) + 1 = n - x /\ \A i \in Nat : (x + 1) + i - 1 = i + x
  BY ONLY <1>1, <1>3
<1>7. Len(rest) = n - x /\ DOMAIN rest = 1..n - x
  BY <1>5, <1>6
<1>8. ASSUME NEW i \in DOMAIN rest PROVE i + x \in DOMAIN blocks /\ rest[i] = blocks[i + x]
  <2>1. i \in Nat /\ i \in 1..(n - (x + 1)) + 1 /\ i + x \in 1..n
    BY ONLY <1>1, <1>3, <1>6, <1>7
  <2>2. rest[i] = blocks[(x + 1) + i - 1] /\ (x + 1) + i - 1 = i + x
    BY ONLY <1>5, <1>6, <2>1
  <2>. QED BY <1>1, <2>1, <2>2
<1>. QED BY <1>1, <1>3, <1>5, <1>7, <1>8 DEF Left

\* The quota takes the oldest blocks and says so: a copy that had a record has it
\* still, unless the record was removed.
LEMMA TrimKeepsCopy ==
  ASSUME HistoryAssumption, NEW f, NEW blocks \in Seq(Blocks), Ordered(blocks), NEW newest, FilesSound(f, newest),
         NEW t \in Nat, \A i \in DOMAIN blocks : t < blocks[i].last,
         NEW e, e = [b \in DOMAIN f \ Removed(blocks) |-> f[b]],
         NEW c, NEW N \in SUBSET Nat, Holds(f, c, t, N)
  PROVE  /\ Mark(blocks, t) \in Nat /\ t <= Mark(blocks, t)
         /\ Holds(e, c, Mark(blocks, t), N)
<1>. DEFINE v == Mark(blocks, t)
<1>1. PICK x : x = Excess(blocks)
  OBVIOUS
<1>11. x \in Nat /\ x <= Len(blocks) /\ DOMAIN blocks = 1..Len(blocks) /\ Len(blocks) \in Nat
  <2>1. PICK rest : rest = SubSeq(blocks, x + 1, Len(blocks))
    OBVIOUS
  <2>2. Left(blocks, x, Len(blocks), rest)
    BY <1>1, <2>1, ExcessBounds
  <2>. QED BY <2>2 DEF Left
<1>2. \A i \in DOMAIN blocks : blocks[i].first \in Nat /\ blocks[i].last \in Nat
  <2>1. \A i \in DOMAIN blocks : blocks[i] \in Blocks
    OBVIOUS
  <2>. QED BY <2>1 DEF Blocks
<1>3. v = IF x = 0 THEN t ELSE blocks[x].last
  BY <1>1 DEF Mark
<1>. HIDE DEF v
<1>4. v \in Nat /\ t <= v
  <2>1. x # 0 => x \in DOMAIN blocks
    BY <1>11
  <2>. QED BY <1>2, <1>3, <2>1
<1>5. ASSUME NEW i \in 1..x PROVE blocks[i].last <= v
  <2>1. i \in DOMAIN blocks /\ x \in DOMAIN blocks /\ v = blocks[x].last
    BY <1>11, <1>3
  <2>2. CASE i < x
    <3>1. blocks[i].last < blocks[x].first /\ blocks[x].first <= blocks[x].last
      BY <2>1, <2>2 DEF Ordered
    <3>. QED BY <1>2, <2>1, <3>1
  <2>3. CASE i = x
    BY <1>2, <2>1, <2>3
  <2>. QED BY <1>11, <2>2, <2>3
<1>6. ASSUME NEW n \in N, n > v PROVE Has(e, c, n)
  <2>1. Has(f, c, n)
    BY <1>4, <1>6 DEF Holds
  <2>2. CASE \E i \in DOMAIN c.pending : c.pending[i] = n
    BY <2>2 DEF Has
  <2>3. CASE \E i \in DOMAIN c.blocks :
               c.blocks[i] \in DOMAIN f /\ \E k \in DOMAIN f[c.blocks[i]] : f[c.blocks[i]][k] = n
    <3>1. PICK i \in DOMAIN c.blocks :
               c.blocks[i] \in DOMAIN f /\ \E k \in DOMAIN f[c.blocks[i]] : f[c.blocks[i]][k] = n
      BY <2>3
    <3>2. n <= c.blocks[i].last /\ c.blocks[i].last \in Nat
      BY <3>1, FileBounds DEF FilesSound, Blocks
    <3>3. c.blocks[i] \notin Removed(blocks)
      <4>. SUFFICES ASSUME NEW j \in 1..x, c.blocks[i] = blocks[j] PROVE FALSE
        BY <1>1 DEF Removed
      <4>1. c.blocks[i].last <= v
        BY <1>5
      <4>2. n \in Nat
        OBVIOUS
      <4>. QED BY ONLY <1>4, <1>6, <3>2, <4>1, <4>2
    <3>. QED BY <3>1, <3>3 DEF Has
  <2>. QED BY <2>1, <2>2, <2>3 DEF Has
<1>. QED BY <1>4, <1>6 DEF Holds, v

LEMMA TrimStep ==
  ASSUME HistoryAssumption,
         NEW f, NEW s \in Archives, NEW t \in Nat, NEW W \in SUBSET Nat, Sound(f, s, t, W),
         NEW e, e = [b \in DOMAIN f \ Removed(s.blocks) |-> f[b]]
  PROVE  /\ Trim(s) \in Archives /\ Sound(e, Trim(s), Mark(s.blocks, t), W)
         /\ Trim(s).exists = s.exists /\ Trim(s).pending = s.pending
         /\ LastBlock(Trim(s).blocks) = LastBlock(s.blocks)
<1>. DEFINE u == Trim(s)
            v == Mark(s.blocks, t)
<1>0. s.blocks \in Seq(Blocks) /\ s.pending \in Seq(Nat) /\ Ordered(s.blocks) /\ Increasing(s.pending)
  BY DEF Sound, Proper
<1>1. PICK x, n, rest : x = Excess(s.blocks) /\ n = Len(s.blocks) /\ rest = SubSeq(s.blocks, x + 1, n)
  OBVIOUS
<1>20. /\ x \in Nat /\ n \in Nat /\ DOMAIN s.blocks = 1..n /\ x <= n /\ (s.blocks # <<>> => x < n)
       /\ rest \in Seq(Blocks) /\ DOMAIN rest = 1..n - x /\ Len(rest) = n - x
       /\ \A i \in DOMAIN rest : i + x \in DOMAIN s.blocks /\ rest[i] = s.blocks[i + x]
  <2>1. Left(s.blocks, x, n, rest)
    BY <1>0, <1>1, ExcessBounds
  <2>. QED BY <2>1 DEF Left
<1>2. /\ u.exists = s.exists /\ u.pending = s.pending /\ u.blocks = rest /\ u \in Archives
  <2>1. u = [s EXCEPT !.blocks = rest]
    BY <1>1 DEF Trim
  <2>. HIDE DEF u
  <2>. QED BY <2>1, <1>20 DEF Archives
<1>. HIDE DEF u
<1>3. /\ u.blocks \in Seq(Blocks) /\ DOMAIN u.blocks = 1..n - x /\ Len(u.blocks) = n - x
      /\ \A i \in DOMAIN u.blocks : u.blocks[i] = s.blocks[i + x] /\ i + x \in DOMAIN s.blocks
  BY <1>2, <1>20
<1>4. \A i \in DOMAIN s.blocks : s.blocks[i].first \in Nat /\ s.blocks[i].last \in Nat
  <2>1. \A i \in DOMAIN s.blocks : s.blocks[i] \in Blocks
    BY <1>0
  <2>. QED BY <2>1 DEF Blocks
<1>5. LastBlock(u.blocks) = LastBlock(s.blocks)
  <2>1. CASE s.blocks = <<>>
    <3>1. n = 0 /\ Len(u.blocks) = 0
      BY ONLY <1>20, <1>3, <2>1
    <3>2. u.blocks = <<>>
      BY <1>3, <3>1
    <3>. QED BY <2>1, <3>2 DEF LastBlock
  <2>2. CASE s.blocks # <<>>
    <3>1. n - x \in 1..n - x /\ n - x > 0 /\ (n - x) + x = n
      BY <1>20, <2>2
    <3>3. u.blocks # <<>>
      BY <1>3, <3>1
    <3>2. u.blocks[n - x] = s.blocks[n]
      BY <1>20, <1>3, <3>1
    <3>4. LastBlock(s.blocks) = s.blocks[n].last
      BY <1>1, <2>2 DEF LastBlock, Last
    <3>5. LastBlock(u.blocks) = u.blocks[n - x].last
      BY <1>3, <3>3 DEF LastBlock, Last
    <3>. QED BY <3>2, <3>4, <3>5
  <2>. QED BY <2>1, <2>2
<1>6. Ordered(u.blocks)
  <2>1. \A i \in DOMAIN u.blocks : u.blocks[i].first <= u.blocks[i].last
    BY <1>0, <1>20, <1>3 DEF Ordered
  <2>2. ASSUME NEW i \in DOMAIN u.blocks, NEW j \in DOMAIN u.blocks, i < j
        PROVE  u.blocks[i].last < u.blocks[j].first
    <3>1. i + x \in DOMAIN s.blocks /\ j + x \in DOMAIN s.blocks /\ i + x < j + x
      BY ONLY <1>20, <1>3, <2>2
    <3>. QED BY <1>0, <1>3, <3>1 DEF Ordered
  <2>. QED BY <2>1, <2>2 DEF Ordered
<1>7. Proper(u)
  BY <1>0, <1>2, <1>3, <1>5, <1>6 DEF Proper, Sound
<1>8. FilesSound(e, LastBlock(u.blocks))
  BY <1>5 DEF Sound, FilesSound, FileSound
<1>9. v \in Nat /\ t <= v /\ Holds(e, s, v, W)
  BY <1>0, TrimKeepsCopy DEF Sound
<1>10. v = IF x = 0 THEN t ELSE s.blocks[x].last
  BY <1>1 DEF Mark
<1>. HIDE DEF v
<1>11. v <= LastBlock(u.blocks) /\ \A i \in DOMAIN u.blocks : v < u.blocks[i].last
  <2>0. /\ \A i \in DOMAIN s.blocks : s.blocks[i].last <= LastBlock(s.blocks)
        /\ LastBlock(s.blocks) \in Nat
    BY <1>0, LastBlockBounds
  <2>1. CASE x = 0
    <3>1. ASSUME NEW i \in DOMAIN u.blocks PROVE i \in DOMAIN s.blocks /\ u.blocks[i] = s.blocks[i]
      BY <1>20, <1>3, <2>1
    <3>. QED BY <1>5, <1>10, <2>1, <3>1 DEF Sound
  <2>2. CASE x # 0
    <3>1. x \in DOMAIN s.blocks /\ v = s.blocks[x].last
      BY <1>20, <1>10, <2>2
    <3>2. ASSUME NEW i \in DOMAIN u.blocks PROVE v < u.blocks[i].last
      <4>0. i \in Nat \ {0}
        BY ONLY <1>3, <1>20
      <4>1. i + x \in DOMAIN s.blocks /\ x < i + x /\ u.blocks[i] = s.blocks[i + x]
        BY ONLY <1>20, <1>3, <4>0
      <4>2. s.blocks[x].last < s.blocks[i + x].first /\ s.blocks[i + x].first <= s.blocks[i + x].last
        BY <1>0, <3>1, <4>1 DEF Ordered
      <4>. QED BY <1>4, <3>1, <4>1, <4>2
    <3>. QED BY <1>5, <2>0, <3>1, <3>2
  <2>. QED BY <2>1, <2>2
<1>12. Holds(e, u, v, W)
  <2>. SUFFICES ASSUME NEW k \in W, k > v PROVE Has(e, u, k)
    BY DEF Holds
  <2>1. Has(e, s, k)
    BY <1>9 DEF Holds
  <2>2. CASE \E i \in DOMAIN s.pending : s.pending[i] = k
    BY <1>2, <2>2 DEF Has
  <2>3. CASE \E i \in DOMAIN s.blocks :
               s.blocks[i] \in DOMAIN e /\ \E j \in DOMAIN e[s.blocks[i]] : e[s.blocks[i]][j] = k
    <3>1. PICK i \in DOMAIN s.blocks :
               s.blocks[i] \in DOMAIN e /\ \E j \in DOMAIN e[s.blocks[i]] : e[s.blocks[i]][j] = k
      BY <2>3
    <3>2. s.blocks[i] \notin Removed(s.blocks)
      BY <3>1
    <3>3. i \notin 1..x
      BY <1>1, <3>2 DEF Removed
    <3>4. i - x \in DOMAIN u.blocks /\ u.blocks[i - x] = s.blocks[i]
      <4>0. i \in Nat /\ i > x /\ i <= n
        BY <1>20, <3>3
      <4>1. i - x \in 1..n - x /\ (i - x) + x = i
        BY ONLY <1>20, <4>0
      <4>. QED BY <1>3, <4>1
    <3>. QED BY <3>1, <3>4 DEF Has
  <2>. QED BY <2>1, <2>2, <2>3 DEF Has
<1>. QED BY <1>2, <1>5, <1>7, <1>8, <1>11, <1>12 DEF Sound, u, v

-----------------------------------------------------------------------------
(* Pages: what the blocks' files hold, one after the other                      *)

LEMMA LeastOf ==
  ASSUME NEW S \in SUBSET Nat, S # {}
  PROVE  \E n \in S : \A k \in S : n <= k
<1>. DEFINE Lower == OpToRel(<, Nat)
<1>1. IsWellFoundedOn(Lower, Nat)
  BY NatLessThanWellFounded
<1>2. PICK n \in S : \A k \in S : ~(<<k, n>> \in Lower)
  <2>. HIDE DEF Lower
  <2>. QED BY <1>1, WFMin
<1>3. \A k \in S : ~(k < n)
  BY <1>2 DEF OpToRel
<1>. QED BY <1>3

\* One increasing line holds what two hold.
Joins(z, x, y) ==
    /\ z \in Seq(Nat) /\ Increasing(z)
    /\ \A i \in DOMAIN x : \E k \in DOMAIN z : z[k] = x[i]
    /\ \A j \in DOMAIN y : \E k \in DOMAIN z : z[k] = y[j]
    /\ \A k \in DOMAIN z : \/ \E i \in DOMAIN x : z[k] = x[i]
                           \/ \E j \in DOMAIN y : z[k] = y[j]

LEMMA Joined ==
  ASSUME NEW x \in Seq(Nat), NEW y \in Seq(Nat), Increasing(x), Increasing(y),
         \A i \in DOMAIN x, j \in DOMAIN y : x[i] < y[j],
         NEW z, z = x \o y
  PROVE  Joins(z, x, y)
<1>. DEFINE m == Len(x)
            n == Len(y)
<1>1. /\ m \in Nat /\ n \in Nat /\ DOMAIN x = 1..m /\ DOMAIN y = 1..n
      /\ z \in Seq(Nat) /\ Len(z) = m + n /\ DOMAIN z = 1..m + n
      /\ \A k \in 1..m : z[k] = x[k]
      /\ \A k \in m + 1..m + n : z[k] = y[k - m]
  OBVIOUS
<1>. HIDE DEF m, n
<1>2. ASSUME NEW k \in DOMAIN z
      PROVE  \/ k \in DOMAIN x /\ z[k] = x[k]
             \/ k > m /\ k - m \in DOMAIN y /\ z[k] = y[k - m]
  <2>1. CASE k <= m
    BY <1>1, <2>1
  <2>2. CASE k > m
    <3>1. k \in m + 1..m + n /\ k - m \in 1..n
      BY <1>1, <2>2
    <3>. QED BY <1>1, <2>2, <3>1
  <2>. QED BY <1>1, <2>1, <2>2
<1>3. ASSUME NEW j \in DOMAIN y PROVE j + m \in DOMAIN z /\ z[j + m] = y[j]
  <2>1. j + m \in m + 1..m + n /\ (j + m) - m = j
    BY <1>1
  <2>. QED BY <1>1, <2>1
<1>4. ASSUME NEW i \in DOMAIN z, NEW j \in DOMAIN z, i < j PROVE z[i] < z[j]
  <2>1. i \in Nat /\ j \in Nat
    BY <1>1
  <2>2. CASE i \in DOMAIN x /\ z[i] = x[i]
    BY <1>2, <1>4, <2>2 DEF Increasing
  <2>3. CASE i > m /\ i - m \in DOMAIN y /\ z[i] = y[i - m]
    <3>1. j > m
      BY ONLY <1>1, <1>4, <2>1, <2>3
    <3>2. j - m \in DOMAIN y /\ z[j] = y[j - m]
      BY <1>1, <1>2, <2>1, <3>1
    <3>3. i - m < j - m
      BY ONLY <1>1, <1>4, <2>1
    <3>. QED BY <2>3, <3>2, <3>3 DEF Increasing
  <2>. QED BY <1>2, <2>2, <2>3
<1>5. \A i \in DOMAIN x : i \in DOMAIN z /\ z[i] = x[i]
  BY <1>1
<1>. QED BY <1>1, <1>2, <1>3, <1>4, <1>5 DEF Increasing, Joins

\* The recursion of Contents, unfolded.
LEMMA ContentsUnfold ==
  ASSUME NEW blocks \in Seq(Blocks)
  PROVE  \E g : /\ g[0] = <<>>
                /\ \A i \in 1..Len(blocks) : g[i] = g[i - 1] \o files[blocks[i]]
                /\ Contents(blocks) = g[Len(blocks)]
<1>. DEFINE G(n, g) == g = [i \in 0..n |-> IF i = 0 THEN <<>> ELSE g[i - 1] \o files[blocks[i]]]
            Bad == {n \in Nat : ~\E g : G(n, g)}
<1>1. \E g : G(0, g)
  <2>. DEFINE g == [i \in {0} |-> <<>>]
  <2>1. G(0, g)
    <3>1. 0..0 = {0}
      OBVIOUS
    <3>. QED BY <3>1
  <2>. QED BY <2>1
<1>2. ASSUME NEW n \in Nat, NEW g, G(n, g) PROVE \E h : G(n + 1, h)
  <2>. DEFINE h == [i \in 0..n + 1 |-> IF i = n + 1 THEN g[n] \o files[blocks[n + 1]] ELSE g[i]]
  <2>1. ASSUME NEW i \in 0..n + 1
        PROVE  h[i] = IF i = 0 THEN <<>> ELSE h[i - 1] \o files[blocks[i]]
    <3>1. CASE i = n + 1
      <4>1. i # 0 /\ i - 1 = n /\ n \in 0..n + 1 /\ n # n + 1
        BY <3>1
      <4>. QED BY <3>1, <4>1
    <3>2. CASE i # n + 1
      <4>1. i \in 0..n /\ h[i] = g[i]
        BY <3>2
      <4>2. g[i] = IF i = 0 THEN <<>> ELSE g[i - 1] \o files[blocks[i]]
        BY <1>2, <4>1
      <4>3. i # 0 => i - 1 \in 0..n + 1 /\ i - 1 # n + 1
        BY <4>1
      <4>4. i # 0 => h[i - 1] = g[i - 1]
        BY <4>3
      <4>. QED BY <4>1, <4>2, <4>4
    <3>. QED BY <3>1, <3>2
  <2>2. h = [i \in 0..n + 1 |-> h[i]]
    OBVIOUS
  <2>. HIDE DEF h
  <2>3. G(n + 1, h)
    BY <2>1, <2>2
  <2>. QED BY <2>3
<1>3. Bad = {}
  <2>. SUFFICES ASSUME Bad # {} PROVE FALSE
    OBVIOUS
  <2>1. PICK n \in Bad : \A k \in Bad : n <= k
    BY LeastOf
  <2>2. n # 0
    BY <1>1
  <2>3. n - 1 \in Nat /\ ~(n <= n - 1) /\ (n - 1) + 1 = n
    BY <2>2
  <2>4. PICK g : G(n - 1, g)
    BY <2>1, <2>3
  <2>. HIDE DEF G
  <2>. QED BY <1>2, <2>3, <2>4
<1>. DEFINE upTo == CHOOSE g : G(Len(blocks), g)
<1>4. \E g : G(Len(blocks), g)
  <2>1. Len(blocks) \in Nat
    OBVIOUS
  <2>. QED BY <1>3, <2>1
<1>5. G(Len(blocks), upTo)
  <2>. HIDE DEF G
  <2>. QED BY <1>4
<1>6. Contents(blocks) = upTo[Len(blocks)]
  BY DEF Contents
<1>. HIDE DEF upTo
<1>7. upTo[0] = <<>> /\ \A i \in 1..Len(blocks) : upTo[i] = upTo[i - 1] \o files[blocks[i]]
  <2>1. Len(blocks) \in Nat
    OBVIOUS
  <2>2. 0 \in 0..Len(blocks) /\ \A i \in 1..Len(blocks) : i \in 0..Len(blocks) /\ i # 0
    BY <2>1
  <2>. QED BY <1>5, <2>2
<1>. QED BY <1>6, <1>7

\* Sound files in order make a page in order that leaves nothing out.
LEMMA ContentsInOrder ==
  ASSUME NEW blocks \in Seq(Blocks), Ordered(blocks), Stored(blocks), NEW newest, FilesSound(files, newest)
  PROVE  /\ Contents(blocks) \in Seq(Nat) /\ Increasing(Contents(blocks))
         /\ \A k \in DOMAIN Contents(blocks) : Contents(blocks)[k] <= LastBlock(blocks)
         /\ \A i \in DOMAIN blocks : \A k \in DOMAIN files[blocks[i]] :
              \E j \in DOMAIN Contents(blocks) : Contents(blocks)[j] = files[blocks[i]][k]
<1>1. PICK g : /\ g[0] = <<>>
               /\ \A i \in 1..Len(blocks) : g[i] = g[i - 1] \o files[blocks[i]]
               /\ Contents(blocks) = g[Len(blocks)]
  BY ContentsUnfold
<1>. DEFINE Good(n) == /\ g[n] \in Seq(Nat) /\ Increasing(g[n])
                       /\ \A k \in DOMAIN g[n] : n # 0 /\ g[n][k] <= blocks[n].last
                       /\ \A i \in 1..n : \A k \in DOMAIN files[blocks[i]] :
                            \E j \in DOMAIN g[n] : g[n][j] = files[blocks[i]][k]
            Bad == {n \in 0..Len(blocks) : ~Good(n)}
<1>2. Len(blocks) \in Nat /\ DOMAIN blocks = 1..Len(blocks)
  OBVIOUS
<1>3. Good(0)
  <2>1. g[0] \in Seq(Nat) /\ DOMAIN g[0] = {}
    BY <1>1
  <2>2. \A i \in 1..0 : FALSE
    OBVIOUS
  <2>. QED BY <2>1, <2>2 DEF Increasing
<1>4. ASSUME NEW n \in 1..Len(blocks), Good(n - 1) PROVE Good(n)
  <2>1. PICK b : b = blocks[n]
    OBVIOUS
  <2>2. b \in DOMAIN files /\ n \in DOMAIN blocks /\ n # 0 /\ n \in Nat
    BY <1>2, <2>1 DEF Stored
  <2>3. /\ files[b] \in Seq(Nat) /\ Increasing(files[b]) /\ b.first \in Nat /\ b.last \in Nat
        /\ \A k \in DOMAIN files[b] : files[b][k] \in Nat /\ b.first <= files[b][k] /\ files[b][k] <= b.last
    BY <2>2, FileBounds DEF FilesSound, FileSound, Blocks
  <2>4. PICK x : x = g[n - 1]
    OBVIOUS
  <2>5. x \in Seq(Nat) /\ Increasing(x)
    BY <1>4, <2>4
  <2>6. \A k \in DOMAIN x : x[k] < b.first /\ x[k] \in Nat
    <3>. SUFFICES ASSUME NEW k \in DOMAIN x PROVE x[k] < b.first /\ x[k] \in Nat
      OBVIOUS
    <3>1. n - 1 # 0 /\ x[k] <= blocks[n - 1].last /\ x[k] \in Nat
      BY <1>4, <2>4, <2>5
    <3>2. n - 1 \in DOMAIN blocks /\ n - 1 < n
      BY <1>2, <2>2, <3>1
    <3>3. blocks[n - 1].last < b.first
      BY <2>1, <2>2, <3>2 DEF Ordered
    <3>4. blocks[n - 1].last \in Nat
      <4>1. blocks[n - 1] \in Blocks
        BY <3>2
      <4>. QED BY <4>1 DEF Blocks
    <3>. QED BY <2>3, <3>1, <3>3, <3>4
  <2>7. \A i \in DOMAIN x, j \in DOMAIN files[b] : x[i] < files[b][j]
    BY <2>3, <2>6
  <2>8. g[n] = x \o files[b]
    BY <1>1, <2>1, <2>4
  <2>9. /\ g[n] \in Seq(Nat) /\ Increasing(g[n])
        /\ \A i \in DOMAIN x : \E k \in DOMAIN g[n] : g[n][k] = x[i]
        /\ \A j \in DOMAIN files[b] : \E k \in DOMAIN g[n] : g[n][k] = files[b][j]
        /\ \A k \in DOMAIN g[n] : \/ \E i \in DOMAIN x : g[n][k] = x[i]
                                  \/ \E j \in DOMAIN files[b] : g[n][k] = files[b][j]
    <3>1. PICK z : z = g[n]
      OBVIOUS
    <3>2. PICK y \in Seq(Nat) : y = files[b]
      BY <2>3
    <3>3. Increasing(y) /\ z = x \o y /\ \A i \in DOMAIN x, j \in DOMAIN y : x[i] < y[j]
      BY <2>3, <2>7, <2>8, <3>1, <3>2
    <3>4. Joins(z, x, y)
      BY <2>5, <3>2, <3>3, Joined
    <3>. QED BY <3>1, <3>2, <3>4 DEF Joins
  <2>10. ASSUME NEW k \in DOMAIN g[n] PROVE g[n][k] <= b.last
    <3>1. ASSUME NEW i \in DOMAIN x PROVE x[i] <= b.last
      <4>1. b.first <= b.last
        BY <2>1, <2>2 DEF Ordered
      <4>. QED BY <2>3, <2>6, <4>1
    <3>. QED BY <2>3, <2>9, <3>1
  <2>11. ASSUME NEW i \in 1..n, NEW k \in DOMAIN files[blocks[i]]
         PROVE  \E j \in DOMAIN g[n] : g[n][j] = files[blocks[i]][k]
    <3>1. CASE i = n
      BY <2>1, <2>9, <3>1
    <3>2. CASE i # n
      <4>1. i \in 1..n - 1
        BY ONLY <2>2, <3>2, i \in 1..n
      <4>2. PICK j \in DOMAIN x : x[j] = files[blocks[i]][k]
        BY <1>4, <2>4, <4>1
      <4>. QED BY <2>9, <4>2
    <3>. QED BY <3>1, <3>2
  <2>. QED BY <2>1, <2>2, <2>9, <2>10, <2>11
<1>5. Bad = {}
  <2>. SUFFICES ASSUME Bad # {} PROVE FALSE
    OBVIOUS
  <2>1. Bad \in SUBSET Nat
    BY <1>2
  <2>. HIDE DEF Good
  <2>2. PICK n \in Bad : \A k \in Bad : n <= k
    BY <2>1, LeastOf
  <2>3. n # 0 /\ n \in 0..Len(blocks)
    BY <1>3
  <2>4. n \in 1..Len(blocks) /\ n - 1 \in 0..Len(blocks) /\ ~(n <= n - 1)
    BY <1>2, <2>3
  <2>5. Good(n - 1)
    BY <2>2, <2>4
  <2>. QED BY <1>4, <2>4, <2>5
<1>6. Good(Len(blocks))
  <2>. HIDE DEF Good
  <2>. QED BY <1>2, <1>5
<1>7. \A k \in DOMAIN g[Len(blocks)] : g[Len(blocks)][k] <= LastBlock(blocks)
  <2>1. Len(blocks) # 0 => LastBlock(blocks) = blocks[Len(blocks)].last
    BY DEF LastBlock, Last
  <2>. QED BY <1>6, <2>1
<1>. QED BY <1>1, <1>2, <1>6, <1>7

\* A page in order that has every record of N above the quota's mark t.
ExactFor(records, t, N) ==
    Increasing(records) /\ \A n \in N : n > t => \E k \in DOMAIN records : records[k] = n

\* A sound copy whose files are all there makes an exact page.
LEMMA PageExact ==
  ASSUME NEW c, Proper(c), Stored(c.blocks), NEW newest, FilesSound(files, newest),
         NEW t, NEW N, Holds(files, c, t, N),
         NEW records, records = Contents(c.blocks) \o c.pending
  PROVE  ExactFor(records, t, N)
<1>1. PICK blocks \in Seq(Blocks) : blocks = c.blocks
  BY DEF Proper
<1>2. PICK y \in Seq(Nat) : y = c.pending
  BY DEF Proper
<1>3. /\ Ordered(blocks) /\ Increasing(y) /\ \A i \in DOMAIN y : LastBlock(blocks) < y[i]
      /\ Stored(blocks)
  BY <1>1, <1>2 DEF Proper
<1>4. PICK x : x = Contents(blocks)
  OBVIOUS
<1>5. /\ x \in Seq(Nat) /\ Increasing(x)
      /\ \A k \in DOMAIN x : x[k] <= LastBlock(blocks)
      /\ \A i \in DOMAIN blocks : \A k \in DOMAIN files[blocks[i]] :
           \E j \in DOMAIN x : x[j] = files[blocks[i]][k]
  BY <1>3, <1>4, ContentsInOrder
<1>6. \A i \in DOMAIN x, j \in DOMAIN y : x[i] < y[j]
  <2>1. LastBlock(blocks) \in Nat
    BY <1>3, LastBlockBounds
  <2>2. (\A i \in DOMAIN x : x[i] \in Nat) /\ (\A j \in DOMAIN y : y[j] \in Nat)
    BY <1>5
  <2>. QED BY <1>3, <1>5, <2>1, <2>2
<1>7. records = x \o y
  BY <1>1, <1>2, <1>4
<1>8. /\ Increasing(records)
      /\ \A i \in DOMAIN x : \E k \in DOMAIN records : records[k] = x[i]
      /\ \A j \in DOMAIN y : \E k \in DOMAIN records : records[k] = y[j]
  <2>1. Joins(records, x, y)
    BY <1>3, <1>5, <1>6, <1>7, Joined
  <2>. QED BY <2>1 DEF Joins
<1>9. ASSUME NEW n \in N, n > t PROVE \E k \in DOMAIN records : records[k] = n
  <2>1. Has(files, c, n)
    BY <1>9 DEF Holds
  <2>2. CASE \E i \in DOMAIN c.pending : c.pending[i] = n
    BY <1>2, <1>8, <2>2
  <2>3. CASE \E i \in DOMAIN c.blocks :
               c.blocks[i] \in DOMAIN files /\ \E k \in DOMAIN files[c.blocks[i]] : files[c.blocks[i]][k] = n
    <3>1. PICK i \in DOMAIN blocks : \E k \in DOMAIN files[blocks[i]] : files[blocks[i]][k] = n
      BY <1>1, <2>3
    <3>2. PICK j \in DOMAIN x : x[j] = n
      BY <1>5, <3>1
    <3>. QED BY <1>8, <3>2
  <2>. QED BY <2>1, <2>2, <2>3 DEF Has
<1>. QED BY <1>8, <1>9 DEF ExactFor

-----------------------------------------------------------------------------
(* The invariant of a terminal that stays open                                   *)

Labels == {"top", "closes", "receive", "load", "loadActive", "append", "record", "flush", "manifest",
           "reset", "trim", "trimManifest", "release", "barrier"}
Locking == {"append", "record", "flush", "manifest", "reset", "trim", "trimManifest"}

\* The history owner never closes; it holds the lock of a state that is there.
Control ==
    /\ closeCalls \in Nat /\ crashes \in Nat /\ accepted \in Nat
    /\ ingest \in Seq(Messages)
    /\ finalize = <<>> /\ todo = <<>> /\ closes = <<>>
    /\ pc \in Labels /\ job.kind \in {"none", "append", "barrier"} /\ job.n \in Nat
    /\ pc \in Locking => state.exists
    /\ pc = "record" => job.n > LastOf(state)

\* What the state amounts to: from the file of a block to the end of the pending
\* records, a flush is halfway.
Effective ==
    IF pc = "manifest" THEN [state EXCEPT !.blocks = Append(@, BlockOf(state.pending)), !.pending = <<>>]
    ELSE IF pc = "reset" THEN [state EXCEPT !.pending = <<>>]
    ELSE state

Newest == LastBlock(Effective.blocks)

StateSound ==
    /\ state \in Archives /\ held \in Archives /\ manifest \in Manifests
    /\ written \in SUBSET Nat /\ trimmed \in Nat
    /\ Effective \in Archives /\ Sound(files, Effective, trimmed, written)

\* Before the archive is loaded there is nothing in it.
Empty ==
    /\ state.blocks = <<>> /\ state.pending = <<>>
    /\ written = {} /\ trimmed = 0 /\ DOMAIN files = {} /\ active = <<>> /\ manifest.blocks = <<>>
    /\ pc = "loadActive" => held.blocks = <<>>

\* What a reader holds: records written before it asked, and a copy of the state.
\* A cold state is of use only while nobody has loaded the archive.
ReaderSound(rd) ==
    /\ rd = [at |-> rd.at, needed |-> rd.needed, manifest |-> rd.manifest, copy |-> rd.copy]
    /\ rd.needed \subseteq written /\ rd.manifest \in Manifests
    /\ ~state.exists /\ rd.at = "building" => rd.manifest.blocks = <<>>
    /\ ~state.exists /\ rd.at = "built" =>
         /\ rd.copy \in Archives /\ rd.copy.exists
         /\ rd.copy.blocks = <<>> /\ rd.copy.pending = <<>>
    /\ rd.at = "copied" => CopySound(files, rd.copy, trimmed, rd.needed, Newest)

ReadersSound ==
    /\ reader = [r \in Readers |-> reader[r]]
    /\ \A r \in Readers : ReaderSound(reader[r])

HistoryInv ==
    /\ Control /\ StateSound
    /\ ~state.exists => Empty
    /\ ReadersSound /\ ExactPages

\* A record that is newer than all others joins the pending ones.
LEMMA AppendStep ==
  ASSUME NEW f, NEW s \in Archives, NEW t \in Nat, NEW W \in SUBSET Nat, Sound(f, s, t, W),
         NEW n \in Nat, n > LastOf(s),
         NEW u, u = [s EXCEPT !.pending = Append(@, n)]
  PROVE  /\ u \in Archives /\ u.exists = s.exists /\ Sound(f, u, t, W \cup {n})
         /\ LastBlock(u.blocks) = LastBlock(s.blocks)
<1>1. PICK p \in Seq(Nat) : p = s.pending
  BY DEF Archives
<1>2. PICK q : q = Append(p, n)
  OBVIOUS
<1>3. u = [s EXCEPT !.pending = q]
  BY <1>1, <1>2
<1>4. /\ q \in Seq(Nat) /\ DOMAIN q = 1..Len(p) + 1 /\ DOMAIN p = 1..Len(p) /\ Len(p) \in Nat
      /\ \A i \in 1..Len(p) : q[i] = p[i]
      /\ q[Len(p) + 1] = n
  BY <1>2
<1>5. u \in Archives /\ u.exists = s.exists /\ u.blocks = s.blocks /\ u.pending = q
  BY <1>3, <1>4 DEF Archives
<1>6. Increasing(p) /\ (\A i \in DOMAIN p : LastBlock(s.blocks) < p[i]) /\ LastBlock(s.blocks) \in Nat
  BY <1>1, LastBlockBounds DEF Sound, Proper
<1>7. (\A i \in DOMAIN p : p[i] < n) /\ LastBlock(s.blocks) < n
  <2>1. CASE p = <<>>
    BY <1>1, <1>4, <2>1 DEF LastOf
  <2>2. CASE p # <<>>
    <3>1. Len(p) \in DOMAIN p /\ LastOf(s) = p[Len(p)]
      BY <1>1, <1>4, <2>2 DEF LastOf, Last
    <3>2. \A i \in DOMAIN p : p[i] \in Nat
      OBVIOUS
    <3>3. p[Len(p)] < n
      BY <3>1, <3>2
    <3>4. ASSUME NEW i \in DOMAIN p PROVE p[i] < n
      <4>1. CASE i = Len(p)
        BY <3>3, <4>1
      <4>2. CASE i # Len(p)
        <5>1. i < Len(p)
          BY <1>4, <4>2
        <5>2. p[i] < p[Len(p)]
          BY <1>6, <3>1, <5>1 DEF Increasing
        <5>. QED BY <3>1, <3>2, <3>3, <5>2
      <4>. QED BY <4>1, <4>2
    <3>5. LastBlock(s.blocks) < n
      BY <1>6, <3>1, <3>2, <3>3
    <3>. QED BY <3>4, <3>5
  <2>. QED BY <2>1, <2>2
<1>8. Increasing(q)
  <2>. SUFFICES ASSUME NEW i \in DOMAIN q, NEW j \in DOMAIN q, i < j PROVE q[i] < q[j]
    BY DEF Increasing
  <2>1. i \in DOMAIN p /\ q[i] = p[i]
    BY <1>4
  <2>2. CASE j \in DOMAIN p
    BY <1>4, <1>6, <2>1, <2>2 DEF Increasing
  <2>3. CASE j \notin DOMAIN p
    <3>1. j = Len(p) + 1
      BY <1>4, <2>3
    <3>. QED BY <1>4, <1>7, <2>1, <3>1
  <2>. QED BY <2>2, <2>3
<1>9. \A i \in DOMAIN q : LastBlock(s.blocks) < q[i]
  <2>. SUFFICES ASSUME NEW i \in DOMAIN q PROVE LastBlock(s.blocks) < q[i]
    OBVIOUS
  <2>1. i \in DOMAIN p \/ i = Len(p) + 1
    BY <1>4
  <2>. QED BY <1>4, <1>6, <1>7, <2>1
<1>10. Proper(u)
  BY <1>4, <1>5, <1>8, <1>9 DEF Sound, Proper
<1>11. Holds(f, u, t, W \cup {n})
  <2>1. Has(f, u, n)
    BY <1>4, <1>5 DEF Has
  <2>2. ASSUME NEW x \in W, x > t PROVE Has(f, u, x)
    <3>1. Has(f, s, x)
      BY <2>2 DEF Sound, Holds
    <3>2. (\E i \in DOMAIN s.pending : s.pending[i] = x) => \E i \in DOMAIN u.pending : u.pending[i] = x
      BY <1>1, <1>4, <1>5
    <3>. QED BY <1>5, <3>1, <3>2 DEF Has
  <2>. QED BY <2>1, <2>2 DEF Holds
<1>. QED BY <1>5, <1>10, <1>11 DEF Sound

-----------------------------------------------------------------------------
(* Steps                                                                        *)

LEMMA NewestIsNat ==
  ASSUME StateSound
  PROVE  Newest \in Nat
BY LastBlockBounds DEF StateSound, Sound, Proper, Newest

\* A step that keeps the archive, the readers and the page.
LEMMA QuietStep ==
  ASSUME HistoryInv, Control',
         UNCHANGED <<files, state, held, reader, written, trimmed, page>>, Effective' = Effective,
         manifest' \in Manifests,
         state.exists \/ (active' = active /\ manifest'.blocks = manifest.blocks),
         pc' = "loadActive" => pc = "loadActive" \/ state.exists
  PROVE  HistoryInv'
<1>1. StateSound'
  BY DEF HistoryInv, StateSound
<1>2. ~state'.exists => Empty'
  BY DEF HistoryInv, Empty
<1>3. Newest' = Newest
  BY DEF Newest
<1>4. ReadersSound'
  BY <1>3 DEF HistoryInv, ReadersSound, ReaderSound
<1>5. ExactPages'
  BY DEF HistoryInv, ExactPages
<1>. QED BY <1>1, <1>2, <1>4, <1>5 DEF HistoryInv

\* Whatever a copy had, it has still, or the quota has removed it.
CopiesKept ==
    \A c : \A N \in SUBSET Nat : Holds(files, c, trimmed, N) => Holds(files', c, trimmed', N)

\* A step that changes an archive that is there.
LEMMA ArchiveStep ==
  ASSUME HistoryInv, Control', StateSound', state.exists, state'.exists,
         UNCHANGED <<reader, page>>, written \subseteq written', CopiesKept, Newest <= Newest'
  PROVE  HistoryInv'
<1>1. Newest \in Nat /\ Newest' \in Nat
  <2>1. Newest \in Nat
    BY NewestIsNat DEF HistoryInv
  <2>2. Newest' \in Nat
    BY LastBlockBounds DEF StateSound, Sound, Proper, Newest
  <2>. QED BY <2>1, <2>2
<1>2. ASSUME NEW r \in Readers PROVE ReaderSound(reader[r])'
  <2>1. ReaderSound(reader[r]) /\ written \in SUBSET Nat
    BY DEF HistoryInv, ReadersSound, StateSound
  <2>2. reader'[r] = reader[r] /\ reader[r].needed \in SUBSET Nat
    BY <2>1 DEF ReaderSound
  <2>3. ASSUME reader[r].at = "copied"
        PROVE  CopySound(files', reader[r].copy, trimmed', reader[r].needed, Newest')
    <3>1. CopySound(files, reader[r].copy, trimmed, reader[r].needed, Newest)
      BY <2>1, <2>3 DEF ReaderSound
    <3>2. Holds(files', reader[r].copy, trimmed', reader[r].needed)
      BY <2>2, <3>1 DEF CopiesKept, CopySound
    <3>3. ASSUME NEW i \in DOMAIN reader[r].copy.blocks PROVE reader[r].copy.blocks[i].last <= Newest'
      <4>1. reader[r].copy.blocks[i] \in Blocks /\ reader[r].copy.blocks[i].last <= Newest
        BY <3>1 DEF CopySound, Proper
      <4>. QED BY <1>1, <4>1 DEF Blocks
    <3>. QED BY <3>1, <3>2, <3>3 DEF CopySound
  <2>. QED BY <2>1, <2>2, <2>3 DEF ReaderSound
<1>3. ReadersSound'
  BY <1>2 DEF HistoryInv, ReadersSound
<1>4. ExactPages'
  BY DEF HistoryInv, ExactPages
<1>. QED BY <1>3, <1>4 DEF HistoryInv

(* The owner's loop, which leaves the archive alone.                            *)
LEMMA LoopStep ==
  ASSUME HistoryInv, UNCHANGED <<closeCalls, crashes>>,
         Collect \/ EndCloses \/ Timeout \/ ReceiveAppend \/ ReceiveBarrier \/ Release \/ BeginRecord \/ FailRecord
  PROVE  HistoryInv'
<1>0. Control /\ StateSound
  BY DEF HistoryInv
<1>1. ASSUME NEW q \in Seq(Messages), q # <<>> PROVE Tail(q) \in Seq(Messages) /\ Head(q) \in Messages
  BY <1>1
<1>2. CASE Collect
  <2>1. todo' = <<>>
    BY <1>0, <1>2 DEF Collect, Control
  <2>2. Control'
    BY <1>0, <1>2, <2>1 DEF Collect, Control, Labels, Locking, disk, memory, process, callers, history, counters, At
  <2>3. Effective' = Effective
    BY <1>2 DEF Collect, Effective, disk, memory, At
  <2>. QED BY <1>0, <1>2, <2>2, <2>3, QuietStep DEF Collect, StateSound, disk, memory, process, callers, history, counters
<1>3. CASE EndCloses
  <2>1. Control'
    BY <1>0, <1>3 DEF EndCloses, Control, Labels, Locking, mailboxes, disk, memory, counters, At
  <2>2. Effective' = Effective
    BY <1>3 DEF EndCloses, Effective, disk, memory, At
  <2>3. pc' # "loadActive"
    BY <1>3 DEF EndCloses
  <2>. QED BY <1>0, <1>3, <2>1, <2>2, <2>3, QuietStep DEF EndCloses, StateSound, disk, memory, callers, history
<1>4. CASE Timeout
  <2>1. Control'
    BY <1>0, <1>4 DEF Timeout, Control, Labels, Locking, mailboxes, disk, memory, counters, At
  <2>2. Effective' = Effective
    BY <1>4 DEF Timeout, Effective, disk, memory, At
  <2>. QED BY <1>0, <1>4, <2>1, <2>2, QuietStep DEF Timeout, StateSound, disk, memory, callers, history
<1>5. CASE ReceiveAppend
  <2>1. ingest' \in Seq(Messages) /\ job' \in Messages /\ job'.kind = "append"
    BY <1>0, <1>1, <1>5 DEF ReceiveAppend, Control
  <2>2. job'.n \in Nat
    BY <2>1 DEF Messages
  <2>3. Control'
    BY <1>0, <1>5, <2>1, <2>2 DEF ReceiveAppend, Control, Labels, Locking, disk, memory, counters, At
  <2>4. Effective' = Effective
    BY <1>5 DEF ReceiveAppend, Effective, disk, memory, At
  <2>. QED BY <1>0, <1>5, <2>3, <2>4, QuietStep DEF ReceiveAppend, StateSound, disk, memory, callers, history
<1>6. CASE ReceiveBarrier
  <2>1. ingest' \in Seq(Messages)
    BY <1>0, <1>1, <1>6 DEF ReceiveBarrier, Control
  <2>2. Control'
    BY <1>0, <1>6, <2>1 DEF ReceiveBarrier, Control, Labels, Locking, disk, memory, counters, At
  <2>3. Effective' = Effective
    BY <1>6 DEF ReceiveBarrier, Effective, disk, memory, At
  <2>. QED BY <1>0, <1>6, <2>2, <2>3, QuietStep DEF ReceiveBarrier, StateSound, disk, memory, callers, history
<1>7. CASE Release
  <2>1. Control'
    BY <1>0, <1>7 DEF Release, Control, Labels, Locking, NoJob, disk, history, counters, At
  <2>2. Effective' = Effective
    BY <1>7 DEF Release, Effective, disk, At
  <2>. QED BY <1>0, <1>7, <2>1, <2>2, QuietStep DEF Release, StateSound, disk, history
<1>8. CASE BeginRecord
  <2>0. LastOf(state) \in Nat
    <3>1. CASE state.pending = <<>>
      <4>1. Effective = state
        BY <1>8 DEF BeginRecord, Effective, At
      <4>. QED BY <1>0, <3>1, <4>1, LastBlockBounds DEF LastOf, StateSound, Sound, Proper
    <3>2. CASE state.pending # <<>>
      <4>1. state.pending \in Seq(Nat)
        BY <1>0 DEF StateSound, Archives
      <4>. QED BY <3>2, <4>1 DEF LastOf, Last
    <3>. QED BY <3>1, <3>2
  <2>1. pc' = "record" => job.n > LastOf(state)
    BY <1>0, <1>8, <2>0 DEF BeginRecord, Control
  <2>2. Control'
    BY <1>0, <1>8, <2>1 DEF BeginRecord, Control, Labels, Locking, mailboxes, LastOf, LastBlock, counters, At
  <2>3. Effective' = Effective
    BY <1>8 DEF BeginRecord, Effective, At
  <2>4. state.exists /\ pc' # "loadActive"
    BY <1>0, <1>8 DEF BeginRecord, Control, Locking, At
  <2>. QED BY <1>0, <1>8, <2>2, <2>3, <2>4, QuietStep DEF BeginRecord, StateSound, callers, history
<1>9. CASE FailRecord
  <2>1. Control'
    BY <1>0, <1>9 DEF FailRecord, Control, Labels, Locking, mailboxes, disk, At
  <2>2. Effective' = Effective
    BY <1>9 DEF FailRecord, Effective, disk, At
  <2>. QED BY <1>0, <1>9, <2>1, <2>2, QuietStep DEF FailRecord, StateSound, disk, callers, history
<1>. QED BY <1>2, <1>3, <1>4, <1>5, <1>6, <1>7, <1>8, <1>9

(* The producer, a flush that is asked for, and a reopening, which there is not.  *)
LEMMA ProducerStep ==
  ASSUME HistoryInv, UNCHANGED <<closeCalls, crashes>>,
         Accept \/ Reserve \/ Send \/ FlushAll \/ Reopen
  PROVE  HistoryInv'
<1>0. Control /\ StateSound
  BY DEF HistoryInv
<1>1. ASSUME NEW m, m \in [kind : {"append"}, n : Nat] \/ m = [kind |-> "barrier", n |-> 0]
      PROVE  Append(ingest, m) \in Seq(Messages)
  <2>1. m \in Messages
    BY <1>1 DEF Messages
  <2>. QED BY <1>0, <2>1 DEF Control
<1>2. CASE Accept
  <2>1. Control'
    BY <1>0, <1>2 DEF Accept, Control, owner, LastOf, LastBlock, memory, counters
  <2>2. Effective' = Effective
    BY <1>2 DEF Accept, Effective, owner, memory
  <2>. QED BY <1>0, <1>2, <2>1, <2>2, QuietStep DEF Accept, StateSound, disk, owner, memory, callers, history
<1>3. CASE Reserve
  <2>1. Control'
    BY <1>0, <1>3 DEF Reserve, Control, owner, LastOf, LastBlock, memory, counters
  <2>2. Effective' = Effective
    BY <1>3 DEF Reserve, Effective, owner, memory
  <2>. QED BY <1>0, <1>3, <2>1, <2>2, QuietStep DEF Reserve, StateSound, disk, owner, memory, callers, history
<1>4. CASE Send
  <2>1. ingest' \in Seq(Messages)
    BY <1>0, <1>1, <1>4 DEF Send, Control
  <2>2. Control'
    BY <1>0, <1>4, <2>1 DEF Send, Control, owner, LastOf, LastBlock, memory, counters
  <2>3. Effective' = Effective
    BY <1>4 DEF Send, Effective, owner, memory
  <2>. QED BY <1>0, <1>4, <2>2, <2>3, QuietStep DEF Send, StateSound, disk, owner, memory, callers, history
<1>5. CASE FlushAll
  <2>1. ingest' \in Seq(Messages)
    BY <1>1, <1>5 DEF FlushAll
  <2>2. Control'
    BY <1>0, <1>5, <2>1 DEF FlushAll, Control, owner, LastOf, LastBlock, memory
  <2>3. Effective' = Effective
    BY <1>5 DEF FlushAll, Effective, owner, memory
  <2>. QED BY <1>0, <1>5, <2>2, <2>3, QuietStep DEF FlushAll, StateSound, disk, owner, memory, history
<1>6. CASE Reopen
  <2>1. Control'
    BY <1>0, <1>6 DEF Reopen, Control, mailboxes, owner, LastOf, LastBlock, memory, counters
  <2>2. Effective' = Effective
    BY <1>6 DEF Reopen, Effective, owner, memory
  <2>3. manifest' \in Manifests /\ manifest'.blocks = manifest.blocks
    <3>1. manifest \in Manifests
      BY <1>0 DEF StateSound
    <3>. QED BY <1>6, <3>1 DEF Reopen, Manifests
  <2>. QED BY <1>0, <1>6, <2>1, <2>2, <2>3, QuietStep DEF Reopen, owner, memory, callers, history
<1>. QED BY <1>2, <1>3, <1>4, <1>5, <1>6

(* A record, and the steps of a flush.                                          *)
LEMMA SameCopies ==
  ASSUME UNCHANGED <<files, trimmed>>
  PROVE  CopiesKept
BY DEF CopiesKept, Holds, Has

LEMMA CurrentIsState ==
  ASSUME Control
  PROVE  Current = state /\ \A s : SetCurrent(s) <=> state' = s /\ UNCHANGED held
BY DEF Control, Current, SetCurrent

LEMMA EndRecordStep ==
  ASSUME HistoryInv, UNCHANGED <<closeCalls, crashes>>, EndRecord
  PROVE  HistoryInv'
<1>0. Control /\ StateSound /\ pc = "record" /\ state.exists
  BY DEF HistoryInv, Control, Locking, EndRecord, At
<1>1. job.n \in Nat /\ job.n > LastOf(state) /\ Effective = state
  BY <1>0 DEF Control, Effective
<1>2. state' = [state EXCEPT !.pending = Append(@, job.n)] /\ written' = written \cup {job.n}
  BY DEF EndRecord
<1>3. /\ state' \in Archives /\ state'.exists /\ Sound(files, state', trimmed, written')
      /\ LastBlock(state'.blocks) = LastBlock(state.blocks)
  <2>1. PICK u : u = [state EXCEPT !.pending = Append(@, job.n)]
    OBVIOUS
  <2>2. state \in Archives /\ trimmed \in Nat /\ written \in SUBSET Nat /\ Sound(files, state, trimmed, written)
    BY <1>0, <1>1 DEF StateSound
  <2>3. /\ u \in Archives /\ u.exists = state.exists /\ Sound(files, u, trimmed, written \cup {job.n})
        /\ LastBlock(u.blocks) = LastBlock(state.blocks)
    <3>1. PICK s \in Archives, n \in Nat, t \in Nat, W \in SUBSET Nat :
               s = state /\ n = job.n /\ t = trimmed /\ W = written
      BY <1>1, <2>2
    <3>2. n > LastOf(s) /\ Sound(files, s, t, W) /\ u = [s EXCEPT !.pending = Append(@, n)]
      BY <1>1, <2>1, <2>2, <3>1
    <3>3. u \in Archives /\ u.exists = s.exists /\ Sound(files, u, t, W \cup {n}) /\ LastBlock(u.blocks) = LastBlock(s.blocks)
      BY <3>2, AppendStep
    <3>. QED BY <3>1, <3>3
  <2>. QED BY <1>0, <1>2, <2>1, <2>3
<1>4. pc' \in {"flush", "release"} /\ UNCHANGED <<files, trimmed, held, manifest, reader, page>>
  BY DEF EndRecord, callers
<1>5. Effective' = state'
  BY <1>4 DEF Effective
<1>6. StateSound'
  BY <1>0, <1>1, <1>2, <1>3, <1>4, <1>5 DEF StateSound
<1>7. Control'
  BY <1>0, <1>3, <1>4 DEF EndRecord, Control, Labels, Locking, mailboxes
<1>8. Newest \in Nat /\ Newest' = Newest
  BY <1>0, <1>1, <1>3, <1>5, NewestIsNat DEF Newest
<1>9. Newest <= Newest' /\ written \subseteq written'
  BY <1>2, <1>8
<1>. QED BY <1>0, <1>3, <1>4, <1>6, <1>7, <1>9, SameCopies, ArchiveStep

LEMMA WriteBlockStep ==
  ASSUME HistoryInv, UNCHANGED <<closeCalls, crashes>>, WriteBlock
  PROVE  HistoryInv'
<1>0. Control /\ StateSound /\ pc = "flush" /\ state.exists /\ Current = state /\ Effective = state
  BY CurrentIsState DEF HistoryInv, Control, Locking, WriteBlock, At, Effective
<1>1. UNCHANGED <<manifest, active, state, held, reader, written, trimmed, page>>
  BY DEF WriteBlock, memory, callers, history
<1>2. CASE state.pending = <<>>
  <2>1. pc' = "trim" /\ files' = files
    BY <1>0, <1>2 DEF WriteBlock
  <2>2. Control'
    BY <1>0, <1>1, <2>1 DEF WriteBlock, Control, Labels, Locking, mailboxes, counters
  <2>3. Effective' = Effective
    BY <1>0, <1>1, <2>1 DEF Effective
  <2>. QED BY <1>0, <1>1, <2>1, <2>2, <2>3, QuietStep DEF StateSound
<1>3. CASE state.pending # <<>>
  <2>1. /\ pc' = "manifest"
        /\ files' = WithBlock(files, state.pending)
    BY <1>0, <1>3 DEF WriteBlock, WithBlock
  <2>2. Effective' = Blocked(state)
    BY <1>1, <2>1 DEF Effective, Blocked
  <2>3. state \in Archives /\ trimmed \in Nat /\ written \in SUBSET Nat /\ Sound(files, state, trimmed, written)
    BY <1>0 DEF StateSound
  <2>4. /\ Effective' \in Archives /\ Sound(files', Effective', trimmed, written)
        /\ LastBlock(state.blocks) \in Nat /\ Newest' \in Nat /\ Newest < Newest'
        /\ LastBlock(state.blocks) < BlockOf(state.pending).last
    <3>1. PICK u, e : u = Blocked(state) /\ e = WithBlock(files, state.pending)
      OBVIOUS
    <3>3. /\ u \in Archives /\ Sound(e, u, trimmed, written)
          /\ LastBlock(state.blocks) \in Nat /\ LastBlock(u.blocks) \in Nat
          /\ LastBlock(state.blocks) < LastBlock(u.blocks)
          /\ LastBlock(state.blocks) < BlockOf(state.pending).last
      <4>1. PICK s \in Archives, t \in Nat, W \in SUBSET Nat : s = state /\ t = trimmed /\ W = written
        BY <2>3
      <4>2. /\ Sound(files, s, t, W) /\ s.pending # <<>>
            /\ e = WithBlock(files, s.pending) /\ u = Blocked(s)
        BY <1>3, <2>3, <3>1, <4>1
      <4>3. /\ u \in Archives /\ Sound(e, u, t, W)
            /\ LastBlock(s.blocks) \in Nat /\ LastBlock(u.blocks) \in Nat
            /\ LastBlock(s.blocks) < LastBlock(u.blocks)
            /\ LastBlock(s.blocks) < BlockOf(s.pending).last
        BY <4>2, FlushStep
      <4>. QED BY <4>1, <4>3
    <3>4. Effective' = u /\ files' = e
      BY <2>1, <2>2, <3>1
    <3>. QED BY <1>0, <3>3, <3>4 DEF Newest
  <2>5. CopiesKept
    <3>1. FilesSound(files, LastBlock(state.blocks)) /\ LastBlock(state.blocks) \in Nat
      BY <2>3, <2>4 DEF Sound
    <3>2. PICK b : b = BlockOf(state.pending)
      OBVIOUS
    <3>3. files' = [x \in DOMAIN files \cup {b} |-> IF x = b THEN state.pending ELSE files[x]]
      BY <2>1, <3>2 DEF WithBlock
    <3>. SUFFICES ASSUME NEW c, NEW N \in SUBSET Nat, Holds(files, c, trimmed, N)
                  PROVE  Holds(files', c, trimmed', N)
      BY DEF CopiesKept
    <3>4. Holds(files', c, trimmed, N)
      BY <2>4, <3>1, <3>2, <3>3, FlushKeepsCopy
    <3>. QED BY <1>1, <3>4
  <2>6. StateSound'
    BY <1>0, <1>1, <2>4 DEF StateSound
  <2>7. Control'
    BY <1>0, <1>1, <2>1 DEF WriteBlock, Control, Labels, Locking, mailboxes, counters
  <2>8. Newest \in Nat /\ Newest <= Newest'
    BY <1>0, <2>4 DEF Newest
  <2>9. written \subseteq written' /\ state'.exists
    BY <1>0, <1>1
  <2>. QED BY <1>0, <1>1, <2>5, <2>6, <2>7, <2>8, <2>9, ArchiveStep
<1>. QED BY <1>2, <1>3

LEMMA WriteManifestStep ==
  ASSUME HistoryInv, UNCHANGED <<closeCalls, crashes>>, WriteManifest
  PROVE  HistoryInv'
<1>0. Control /\ StateSound /\ pc = "manifest" /\ state.exists /\ Current = state /\ state \in Archives
  BY CurrentIsState DEF HistoryInv, Control, Locking, WriteManifest, At, StateSound
<1>1. PICK longer : longer = Append(state.blocks, BlockOf(state.pending))
  OBVIOUS
<1>2. state' = [state EXCEPT !.blocks = longer] /\ held' = held /\ manifest' = ManifestOf(state')
  <2>1. PICK s : s = [state EXCEPT !.blocks = longer]
    OBVIOUS
  <2>2. SetCurrent(s) /\ manifest' = ManifestOf(s)
    BY <1>0, <1>1, <2>1 DEF WriteManifest
  <2>3. state' = s /\ held' = held
    BY <1>0, <2>2, CurrentIsState
  <2>. QED BY <2>1, <2>2, <2>3
<1>3. pc' = "reset" /\ UNCHANGED <<files, active, reader, written, trimmed, page>>
  BY DEF WriteManifest, callers, history
<1>4. PICK nothing : nothing = <<>>
  OBVIOUS
<1>5. Effective = [state EXCEPT !.blocks = longer, !.pending = nothing]
  BY <1>0, <1>1, <1>4 DEF Effective
<1>6. Effective' = [state' EXCEPT !.pending = nothing]
  BY <1>3, <1>4 DEF Effective
<1>7. Effective' = Effective
  BY <1>0, <1>2, <1>5, <1>6 DEF Archives
<1>8. longer \in Seq(Blocks)
  <2>1. Effective.blocks = longer
    BY <1>0, <1>5 DEF Archives
  <2>. QED BY <1>0, <2>1 DEF StateSound, Archives
<1>9. state' \in Archives /\ state'.exists /\ manifest' \in Manifests
  BY <1>0, <1>2, <1>8 DEF Archives, Manifests, ManifestOf
<1>10. StateSound'
  BY <1>0, <1>2, <1>3, <1>7, <1>9 DEF StateSound
<1>11. Control'
  BY <1>0, <1>3, <1>9 DEF WriteManifest, Control, Labels, Locking, mailboxes, counters
<1>12. Newest <= Newest'
  BY <1>0, <1>7, NewestIsNat DEF Newest
<1>. QED BY <1>0, <1>3, <1>9, <1>10, <1>11, <1>12, SameCopies, ArchiveStep

LEMMA ResetActiveStep ==
  ASSUME HistoryInv, UNCHANGED <<closeCalls, crashes>>, ResetActive
  PROVE  HistoryInv'
<1>0. Control /\ StateSound /\ pc = "reset" /\ state.exists /\ Current = state /\ state \in Archives
  BY CurrentIsState DEF HistoryInv, Control, Locking, ResetActive, At, StateSound
<1>1. state' = [state EXCEPT !.pending = <<>>] /\ held' = held
  BY <1>0, CurrentIsState DEF ResetActive
<1>2. pc' = "trim" /\ UNCHANGED <<files, manifest, reader, written, trimmed, page>>
  BY DEF ResetActive, callers, history
<1>3. Effective = state' /\ Effective' = state'
  BY <1>0, <1>1, <1>2 DEF Effective
<1>4. StateSound'
  BY <1>0, <1>1, <1>2, <1>3 DEF StateSound
<1>5. state'.exists
  BY <1>0, <1>1 DEF Archives
<1>6. Control'
  BY <1>0, <1>2, <1>5 DEF ResetActive, Control, Labels, Locking, mailboxes, counters
<1>7. Newest <= Newest'
  BY <1>0, <1>3, NewestIsNat DEF Newest
<1>. QED BY <1>0, <1>2, <1>4, <1>5, <1>6, <1>7, SameCopies, ArchiveStep

LEMMA TrimBlocksStep ==
  ASSUME HistoryInv, UNCHANGED <<closeCalls, crashes>>, TrimBlocks
  PROVE  HistoryInv'
<1>0. Control /\ StateSound /\ pc = "trim" /\ state.exists /\ Current = state /\ Effective = state
  BY CurrentIsState DEF HistoryInv, Control, Locking, TrimBlocks, At, Effective
<1>1. /\ files' = [b \in DOMAIN files \ Removed(state.blocks) |-> files[b]]
      /\ state' = Trim(state) /\ held' = held /\ trimmed' = Mark(state.blocks, trimmed)
  BY <1>0, CurrentIsState DEF TrimBlocks, TrimmedBy, Mark
<1>2. pc' = "trimManifest" /\ UNCHANGED <<manifest, active, reader, written, page>>
  BY DEF TrimBlocks, callers
<1>3. /\ state \in Archives /\ trimmed \in Nat /\ written \in SUBSET Nat /\ Sound(files, state, trimmed, written)
      /\ state.blocks \in Seq(Blocks) /\ Ordered(state.blocks) /\ FilesSound(files, LastBlock(state.blocks))
      /\ \A i \in DOMAIN state.blocks : trimmed < state.blocks[i].last
  BY <1>0 DEF StateSound, Sound, Proper
<1>4. /\ state' \in Archives /\ state'.exists /\ Sound(files', state', trimmed', written)
      /\ LastBlock(state'.blocks) = LastBlock(state.blocks)
  BY <1>0, <1>1, <1>3, TrimStep, HistoryAssumption
<1>5. CopiesKept /\ trimmed' \in Nat
  <2>1. PICK blocks \in Seq(Blocks) : blocks = state.blocks
    BY <1>3
  <2>2. ASSUME NEW c, NEW N \in SUBSET Nat, Holds(files, c, trimmed, N)
        PROVE  Mark(blocks, trimmed) \in Nat /\ Holds(files', c, Mark(blocks, trimmed), N)
    BY <1>1, <1>3, <2>1, <2>2, TrimKeepsCopy, HistoryAssumption
  <2>3. Holds(files, state, trimmed, {})
    BY DEF Holds
  <2>4. Mark(blocks, trimmed) \in Nat
    BY <2>2, <2>3
  <2>. QED BY <1>1, <2>1, <2>2, <2>4 DEF CopiesKept
<1>6. Effective' = state'
  BY <1>2 DEF Effective
<1>7. StateSound'
  BY <1>0, <1>1, <1>2, <1>4, <1>5, <1>6 DEF StateSound
<1>8. Control'
  BY <1>0, <1>2, <1>4 DEF TrimBlocks, Control, Labels, Locking, mailboxes, counters
<1>9. Newest <= Newest'
  BY <1>0, <1>4, <1>6, NewestIsNat DEF Newest
<1>. QED BY <1>0, <1>2, <1>4, <1>5, <1>7, <1>8, <1>9, ArchiveStep

LEMMA WriteTrimmedStep ==
  ASSUME HistoryInv, UNCHANGED <<closeCalls, crashes>>, WriteTrimmed
  PROVE  HistoryInv'
<1>0. Control /\ StateSound /\ pc = "trimManifest" /\ state.exists /\ Current = state /\ state \in Archives
  BY CurrentIsState DEF HistoryInv, Control, Locking, WriteTrimmed, At, StateSound
<1>1. pc' = "release" /\ UNCHANGED <<files, state, held, reader, written, trimmed, page>>
  BY <1>0 DEF WriteTrimmed, memory, callers, history, Control
<1>2. Control'
  BY <1>0, <1>1 DEF WriteTrimmed, Control, Labels, Locking, mailboxes, counters
<1>3. Effective' = Effective
  BY <1>0, <1>1 DEF Effective
<1>4. manifest' \in Manifests
  BY <1>0 DEF WriteTrimmed, ManifestOf, Archives, Manifests
<1>. QED BY <1>0, <1>1, <1>2, <1>3, <1>4, QuietStep

(* The flush on the caller's thread: block, manifest and quota at once.         *)
LEMMA FlushLiveStep ==
  ASSUME HistoryInv, UNCHANGED <<closeCalls, crashes>>, FlushLive
  PROVE  HistoryInv'
<1>0. Control /\ StateSound /\ pc \notin Locking
  BY DEF HistoryInv, Control, FlushLive, Locked, Locking
<1>1. Effective = state /\ pc' = pc /\ UNCHANGED <<held, reader, written, page>>
  BY <1>0 DEF Effective, Locking, FlushLive, owner
<1>2. Effective' = state'
  BY <1>0, <1>1 DEF Effective, Locking
<1>3. Control'
  BY <1>0, <1>1 DEF FlushLive, Control, Locking, mailboxes, owner, counters
<1>4. CASE ~state.exists
  <2>1. UNCHANGED <<manifest, files, active, state, trimmed>>
    BY <1>4 DEF FlushLive, disk
  <2>. QED BY <1>0, <1>1, <1>2, <1>3, <2>1, QuietStep DEF StateSound
<1>5. CASE state.exists
  <2>1. PICK u : u = Flushed(state)
    OBVIOUS
  <2>2. PICK new : new = Range(u.blocks) \ Range(state.blocks)
    OBVIOUS
  <2>3. /\ files' = [b \in (DOMAIN files \cup new) \ Removed(u.blocks) |->
                       IF b \in new THEN state.pending ELSE files[b]]
        /\ state' = Trim(u) /\ trimmed' = Mark(u.blocks, trimmed) /\ manifest' = ManifestOf(Trim(u))
    BY <1>5, <2>1, <2>2 DEF FlushLive, TrimmedBy, Mark
  <2>4. state \in Archives /\ trimmed \in Nat /\ written \in SUBSET Nat /\ Sound(files, state, trimmed, written)
    BY <1>0, <1>1 DEF StateSound
  <2>5. PICK e : /\ u \in Archives /\ u.exists /\ Sound(e, u, trimmed, written)
                 /\ files' = [b \in DOMAIN e \ Removed(u.blocks) |-> e[b]]
                 /\ \A c : \A N \in SUBSET Nat : Holds(files, c, trimmed, N) => Holds(e, c, trimmed, N)
                 /\ LastBlock(state.blocks) <= LastBlock(u.blocks) /\ LastBlock(u.blocks) \in Nat
    <3>1. CASE state.pending = <<>>
      <4>1. u = state /\ new = {}
        BY <2>1, <2>2, <3>1 DEF Flushed
      <4>2. files' = [b \in DOMAIN files \ Removed(u.blocks) |-> files[b]]
        BY <2>3, <4>1
      <4>3. LastBlock(state.blocks) \in Nat
        BY <2>4, LastBlockBounds DEF Sound, Proper
      <4>. QED BY <1>5, <2>4, <4>1, <4>2, <4>3
    <3>2. CASE state.pending # <<>>
      <4>1. u = Blocked(state)
        BY <2>1, <3>2 DEF Flushed, Blocked
      <4>2. PICK e : e = WithBlock(files, state.pending)
        OBVIOUS
      <4>3. PICK s \in Archives, t \in Nat, W \in SUBSET Nat : s = state /\ t = trimmed /\ W = written
        BY <2>4
      <4>4. Sound(files, s, t, W) /\ s.pending # <<>> /\ e = WithBlock(files, s.pending) /\ u = Blocked(s)
        BY <2>4, <3>2, <4>1, <4>2, <4>3
      <4>5. /\ u \in Archives /\ Sound(e, u, t, W)
            /\ LastBlock(s.blocks) \in Nat /\ LastBlock(u.blocks) \in Nat
            /\ LastBlock(s.blocks) < LastBlock(u.blocks)
            /\ LastBlock(s.blocks) < BlockOf(s.pending).last
        BY <4>4, FlushStep
      <4>6. PICK b : b = BlockOf(state.pending)
        OBVIOUS
      <4>7. e = [x \in DOMAIN files \cup {b} |-> IF x = b THEN state.pending ELSE files[x]]
        BY <4>2, <4>6 DEF WithBlock
      <4>8. ASSUME NEW c, NEW N \in SUBSET Nat, Holds(files, c, trimmed, N) PROVE Holds(e, c, trimmed, N)
        <5>1. FilesSound(files, LastBlock(state.blocks)) /\ LastBlock(state.blocks) < b.last /\ LastBlock(state.blocks) \in Nat
          BY <2>4, <4>3, <4>5, <4>6 DEF Sound
        <5>. QED BY <4>7, <4>8, <5>1, FlushKeepsCopy
      <4>9. u.exists /\ u.blocks = Append(state.blocks, b) /\ state.blocks \in Seq(Blocks)
        <5>1. PICK longer, nothing : longer = Append(state.blocks, b) /\ nothing = <<>>
          OBVIOUS
        <5>2. u = [state EXCEPT !.blocks = longer, !.pending = nothing]
          BY <4>1, <4>6, <5>1 DEF Blocked
        <5>. QED BY <1>5, <2>4, <5>1, <5>2 DEF Archives
      <4>10. b \notin Range(state.blocks)
        <5>1. \A i \in DOMAIN state.blocks : state.blocks[i].last <= LastBlock(state.blocks)
          BY <2>4, LastBlockBounds DEF Sound, Proper
        <5>2. \A i \in DOMAIN state.blocks : state.blocks[i].last \in Nat
          <6>1. \A i \in DOMAIN state.blocks : state.blocks[i] \in Blocks
            BY <4>9
          <6>. QED BY <6>1 DEF Blocks
        <5>3. b.last \in Nat /\ LastBlock(state.blocks) < b.last /\ LastBlock(state.blocks) \in Nat
          <6>1. state.pending \in Seq(Nat) /\ Increasing(state.pending)
            BY <2>4 DEF Sound, Proper
          <6>2. b \in Blocks
            BY <3>2, <4>6, <6>1, BlockBounds
          <6>. QED BY <4>3, <4>5, <4>6, <6>2 DEF Blocks
        <5>. QED BY <5>1, <5>2, <5>3 DEF Range
      <4>11. new = {b}
        <5>1. PICK old \in Seq(Blocks) : old = state.blocks
          BY <4>9
        <5>2. PICK more : more = u.blocks
          OBVIOUS
        <5>3. b \in Blocks
          <6>1. state.pending \in Seq(Nat) /\ Increasing(state.pending)
            BY <2>4 DEF Sound, Proper
          <6>. QED BY <3>2, <4>6, <6>1, BlockBounds
        <5>4. /\ DOMAIN more = 1..Len(old) + 1 /\ Len(old) \in Nat /\ DOMAIN old = 1..Len(old)
              /\ (\A i \in DOMAIN old : more[i] = old[i]) /\ more[Len(old) + 1] = b
          BY <4>9, <5>1, <5>2, <5>3
        <5>5. Range(more) = Range(old) \cup {b}
          BY <5>4 DEF Range
        <5>. QED BY <2>2, <4>10, <5>1, <5>2, <5>5
      <4>12. files' = [x \in DOMAIN e \ Removed(u.blocks) |-> e[x]]
        <5>1. DOMAIN e = DOMAIN files \cup {b}
          BY <4>7
        <5>. QED BY <2>3, <4>7, <4>11, <5>1
      <4>13. /\ LastBlock(state.blocks) <= LastBlock(u.blocks) /\ LastBlock(u.blocks) \in Nat
             /\ u \in Archives /\ Sound(e, u, trimmed, written)
        BY <4>3, <4>5
      <4>. QED BY <4>8, <4>9, <4>12, <4>13
    <3>. QED BY <3>1, <3>2
  <2>6. /\ state' \in Archives /\ state'.exists /\ Sound(files', state', trimmed', written)
        /\ LastBlock(state'.blocks) = LastBlock(u.blocks)
    BY <2>3, <2>4, <2>5, TrimStep, HistoryAssumption
  <2>7. CopiesKept /\ trimmed' \in Nat
    <3>1. PICK blocks \in Seq(Blocks) : blocks = u.blocks
      BY <2>5 DEF Sound, Proper
    <3>2. ASSUME NEW c, NEW N \in SUBSET Nat, Holds(e, c, trimmed, N)
          PROVE  Mark(blocks, trimmed) \in Nat /\ Holds(files', c, Mark(blocks, trimmed), N)
      <4>1. /\ Ordered(blocks) /\ FilesSound(e, LastBlock(blocks))
            /\ \A i \in DOMAIN blocks : trimmed < blocks[i].last
            /\ files' = [b \in DOMAIN e \ Removed(blocks) |-> e[b]]
        BY <2>5, <3>1 DEF Sound, Proper
      <4>. QED BY <2>4, <3>2, <4>1, TrimKeepsCopy, HistoryAssumption
    <3>3. Holds(e, state, trimmed, {})
      BY DEF Holds
    <3>4. Mark(blocks, trimmed) \in Nat
      BY <3>2, <3>3
    <3>. QED BY <2>3, <2>5, <3>1, <3>2, <3>4 DEF CopiesKept
  <2>8. manifest' \in Manifests
    BY <2>3, <2>6 DEF ManifestOf, Archives, Manifests
  <2>9. StateSound'
    BY <1>0, <1>1, <1>2, <2>6, <2>7, <2>8 DEF StateSound
  <2>10. Newest <= Newest' /\ written \subseteq written'
    BY <1>1, <1>2, <2>5, <2>6 DEF Newest
  <2>. QED BY <1>1, <1>3, <1>5, <2>6, <2>7, <2>9, <2>10, ArchiveStep
<1>. QED BY <1>4, <1>5

\* What nobody has written to yet gives an empty cold state.
LEMMA ColdIsEmpty ==
  ASSUME NEW m \in Manifests, m.blocks = <<>>, active = <<>>
  PROVE  /\ ColdState(m) \in Archives /\ ColdState(m).exists
         /\ ColdState(m).blocks = <<>> /\ ColdState(m).pending = <<>>
         /\ ValidPrefix(active) = active
<1>1. ValidPrefix(active) = <<>>
  <2>1. \A i \in 1..Len(<<>>) : FALSE
    OBVIOUS
  <2>. QED BY <2>1 DEF ValidPrefix
<1>2. PendingOf(m, active) = <<>>
  <2>. DEFINE stored == {i \in DOMAIN ValidPrefix(active) : ValidPrefix(active)[i] <= LastBlock(m.blocks)}
  <2>1. stored = {}
    BY <1>1
  <2>2. Cardinality(stored) = 0
    BY <2>1, FS_EmptySet
  <2>3. PendingOf(m, active) = SubSeq(ValidPrefix(active), Cardinality(stored) + 1, Len(ValidPrefix(active)))
    BY DEF PendingOf
  <2>. HIDE DEF stored
  <2>4. SubSeq(<<>>, 1, 0) = <<>>
    <3>0. <<>> \in Seq(Nat)
      OBVIOUS
    <3>1. PICK x \in Seq(Nat) : x = <<>>
      BY <3>0, Zenon
    <3>2. Len(x) = 0 /\ SubSeq(x, 1, 0) \in Seq(Nat) /\ Len(SubSeq(x, 1, 0)) = 0
      BY <3>1
    <3>3. SubSeq(x, 1, 0) = <<>>
      BY <3>2
    <3>. QED BY <3>1, <3>3
  <2>. QED BY <1>1, <2>2, <2>3, <2>4
<1>3. ColdState(m) = [exists |-> TRUE, blocks |-> m.blocks, closed |-> m.closed, pending |-> PendingOf(m, active)]
  BY DEF ColdState
<1>4. m.blocks \in Seq(Blocks) /\ m.closed \in BOOLEAN
  BY DEF Manifests
<1>5. PICK p \in Seq(Nat) : p = PendingOf(m, active)
  <2>1. <<>> \in Seq(Nat)
    OBVIOUS
  <2>2. PendingOf(m, active) \in Seq(Nat)
    BY <1>2, <2>1, Zenon
  <2>. QED BY <2>2, Zenon
<1>6. ColdState(m) = [exists |-> TRUE, blocks |-> m.blocks, closed |-> m.closed, pending |-> p]
  BY <1>3, <1>5
<1>. QED BY <1>1, <1>2, <1>4, <1>5, <1>6 DEF Archives

(* Readers.                                                                     *)
LEMMA ReaderStep ==
  ASSUME HistoryInv, Control', ExactPages',
         UNCHANGED <<files, state, held, manifest, written, trimmed>>, Effective' = Effective,
         state.exists \/ active' = active, pc' = "loadActive" => pc = "loadActive",
         NEW r \in Readers, NEW rd, ReaderSound(rd), reader' = [reader EXCEPT ![r] = rd]
  PROVE  HistoryInv'
<1>1. StateSound'
  BY DEF HistoryInv, StateSound
<1>2. ~state'.exists => Empty'
  BY DEF HistoryInv, Empty
<1>3. ASSUME NEW x, ReaderSound(x) PROVE ReaderSound(x)'
  <2>1. Newest' = Newest
    BY DEF Newest
  <2>. QED BY <1>3, <2>1 DEF ReaderSound
<1>4. ReadersSound'
  <2>1. /\ reader = [q \in Readers |-> reader[q]]
        /\ \A q \in Readers : ReaderSound(reader[q])
    BY DEF HistoryInv, ReadersSound
  <2>2. \A q \in Readers : reader'[q] = IF q = r THEN rd ELSE reader[q]
    BY <2>1
  <2>3. reader' = [q \in Readers |-> reader'[q]]
    BY <2>1
  <2>4. ASSUME NEW q \in Readers PROVE ReaderSound(reader[q])'
    <3>1. PICK x : x = reader'[q]
      OBVIOUS
    <3>2. ReaderSound(x)
      BY <2>1, <2>2, <3>1
    <3>3. ReaderSound(x)'
      BY <1>3, <3>2
    <3>. QED BY <3>1, <3>3 DEF ReaderSound
  <2>. QED BY <2>3, <2>4 DEF ReadersSound
<1>. QED BY <1>1, <1>2, <1>4 DEF HistoryInv

LEMMA IdleSound ==
  ASSUME HistoryInv
  PROVE  ReaderSound(IdleReader)
<1>1. /\ IdleReader.at = "idle" /\ IdleReader.needed = {} /\ IdleReader.manifest = NoManifest
      /\ IdleReader = [at |-> IdleReader.at, needed |-> IdleReader.needed,
                       manifest |-> IdleReader.manifest, copy |-> IdleReader.copy]
  BY DEF IdleReader
<1>2. NoManifest \in Manifests
  BY DEF NoManifest, Manifests
<1>. QED BY <1>1, <1>2 DEF ReaderSound

\* A copy taken while nobody holds the lock.
LEMMA CopyOfState ==
  ASSUME HistoryInv, Effective = state, NEW N \in SUBSET written
  PROVE  CopySound(files, state, trimmed, N, Newest)
<1>1. Sound(files, state, trimmed, written)
  BY DEF HistoryInv, StateSound
<1>2. \A i \in DOMAIN state.blocks : state.blocks[i].last <= Newest
  BY <1>1, LastBlockBounds DEF Sound, Proper, Newest
<1>. QED BY <1>1, <1>2 DEF Sound, Holds, CopySound

LEMMA Unlocked ==
  ASSUME Control, ~Locked
  PROVE  pc \notin Locking /\ Effective = state /\ (pc' = pc => Effective' = state')
BY DEF Control, Locked, Locking, Effective

LEMMA AskStep ==
  ASSUME HistoryInv, UNCHANGED <<closeCalls, crashes>>, NEW r \in Readers, Ask(r) \/ LookUp(r) \/ OpenActive(r)
  PROVE  HistoryInv'
<1>0. /\ Control /\ ReaderSound(reader[r]) /\ DOMAIN reader = Readers /\ StateSound
  BY DEF HistoryInv, ReadersSound
<1>1. PICK old : old = reader[r]
  OBVIOUS
<1>2. ReaderSound(old) /\ old = [at |-> old.at, needed |-> old.needed, manifest |-> old.manifest, copy |-> old.copy]
  BY <1>0, <1>1 DEF ReaderSound
<1>3. CASE Ask(r)
  <2>1. PICK rd : rd = [old EXCEPT !.at = "asked"]
    OBVIOUS
  <2>2. reader' = [reader EXCEPT ![r] = rd]
    BY <1>0, <1>1, <1>3, <2>1 DEF Ask
  <2>3. rd = [at |-> "asked", needed |-> old.needed, manifest |-> old.manifest, copy |-> old.copy]
    BY <1>2, <2>1
  <2>4. ReaderSound(rd)
    BY <1>2, <2>3 DEF ReaderSound
  <2>5. ingest' \in Seq(Messages)
    <3>1. [kind |-> "snapshot", n |-> r] \in Messages
      BY DEF Messages
    <3>. QED BY <1>0, <1>3, <3>1 DEF Ask, Control
  <2>6. Control'
    BY <1>0, <1>3, <2>5 DEF Ask, Control, owner, LastOf, LastBlock, memory
  <2>7. Effective' = Effective
    BY <1>3 DEF Ask, Effective, owner, memory
  <2>8. ExactPages'
    BY <1>3 DEF HistoryInv, ExactPages, Ask, history
  <2>. QED BY <1>0, <1>3, <2>2, <2>4, <2>6, <2>7, <2>8, ReaderStep DEF Ask, disk, owner, memory, history
<1>4. CASE LookUp(r)
  <2>1. UNCHANGED <<disk, mailboxes, owner, memory, process, barrier, history, counters>> /\ reader[r].at = "answered"
    BY <1>4 DEF LookUp
  <2>2. PICK rd : reader' = [reader EXCEPT ![r] = rd] /\ ReaderSound(rd)
    <3>1. CASE state.exists
      <4>1. ~Locked /\ reader' = [reader EXCEPT ![r].at = "copied", ![r].copy = state]
        BY <1>4, <3>1 DEF LookUp
      <4>2. PICK rd : rd = [old EXCEPT !.at = "copied", !.copy = state]
        OBVIOUS
      <4>3. reader' = [reader EXCEPT ![r] = rd]
        BY <1>0, <1>1, <4>1, <4>2
      <4>4. rd = [at |-> "copied", needed |-> old.needed, manifest |-> old.manifest, copy |-> state]
        BY <1>2, <4>2
      <4>5. CopySound(files, state, trimmed, old.needed, Newest)
        BY <1>0, <1>2, <4>1, Unlocked, CopyOfState DEF ReaderSound
      <4>6. ReaderSound(rd)
        BY <1>2, <3>1, <4>4, <4>5 DEF ReaderSound
      <4>. QED BY <4>3, <4>6
    <3>2. CASE ~state.exists /\ manifest.exists
      <4>1. reader' = [reader EXCEPT ![r] = [@ EXCEPT !.at = "building", !.manifest = manifest]]
        BY <1>4, <3>2 DEF LookUp
      <4>2. PICK rd : rd = [old EXCEPT !.at = "building", !.manifest = manifest]
        OBVIOUS
      <4>3. reader' = [reader EXCEPT ![r] = rd]
        BY <1>0, <1>1, <4>1, <4>2
      <4>4. rd = [at |-> "building", needed |-> old.needed, manifest |-> manifest, copy |-> old.copy]
        BY <1>2, <4>2
      <4>5. manifest \in Manifests /\ manifest.blocks = <<>>
        BY <1>0, <3>2 DEF HistoryInv, Empty, StateSound
      <4>6. ReaderSound(rd)
        BY <1>2, <4>4, <4>5 DEF ReaderSound
      <4>. QED BY <4>3, <4>6
    <3>3. CASE ~state.exists /\ ~manifest.exists
      <4>1. reader' = [reader EXCEPT ![r] = IdleReader]
        BY <1>4, <3>3 DEF LookUp
      <4>. QED BY <4>1, IdleSound
    <3>. QED BY <3>1, <3>2, <3>3
  <2>3. Control'
    BY <1>0, <2>1 DEF Control, owner, mailboxes, LastOf, LastBlock, memory, counters
  <2>4. Effective' = Effective
    BY <2>1 DEF Effective, owner, memory
  <2>5. ExactPages'
    BY <2>1 DEF HistoryInv, ExactPages, history
  <2>. QED BY <1>0, <2>1, <2>2, <2>3, <2>4, <2>5, ReaderStep DEF disk, owner, memory, history
<1>5. CASE OpenActive(r)
  <2>1. /\ UNCHANGED <<manifest, files, mailboxes, owner, memory, process, barrier, history, counters>>
        /\ reader[r].at = "building" /\ active' = ValidPrefix(active)
    BY <1>5 DEF OpenActive
  <2>2. PICK copy : copy = ColdState(old.manifest)
    OBVIOUS
  <2>3. PICK rd : rd = [old EXCEPT !.at = "built", !.copy = copy]
    OBVIOUS
  <2>4. reader' = [reader EXCEPT ![r] = rd]
    BY <1>0, <1>1, <1>5, <2>2, <2>3 DEF OpenActive
  <2>5. rd = [at |-> "built", needed |-> old.needed, manifest |-> old.manifest, copy |-> copy]
    BY <1>2, <2>3
  <2>6. ASSUME ~state.exists
        PROVE  /\ copy \in Archives /\ copy.exists /\ copy.blocks = <<>> /\ copy.pending = <<>>
               /\ active' = active
    <3>1. old.manifest.blocks = <<>> /\ old.manifest \in Manifests /\ active = <<>>
      BY <1>1, <1>2, <2>1, <2>6 DEF ReaderSound, HistoryInv, Empty
    <3>. QED BY <2>1, <2>2, <3>1, ColdIsEmpty
  <2>7. ReaderSound(rd)
    BY <1>2, <2>5, <2>6 DEF ReaderSound
  <2>8. Control'
    BY <1>0, <2>1 DEF Control, owner, mailboxes, LastOf, LastBlock, memory, counters
  <2>9. Effective' = Effective
    BY <2>1 DEF Effective, owner, memory
  <2>10. ExactPages'
    BY <2>1 DEF HistoryInv, ExactPages, history
  <2>. QED BY <1>0, <2>1, <2>4, <2>6, <2>7, <2>8, <2>9, <2>10, ReaderStep DEF owner, memory, history
<1>. QED BY <1>3, <1>4, <1>5

LEMMA ReceiveSnapshotStep ==
  ASSUME HistoryInv, UNCHANGED <<closeCalls, crashes>>, ReceiveSnapshot
  PROVE  HistoryInv'
<1>0. /\ Control /\ DOMAIN reader = Readers /\ StateSound /\ pc = "receive" /\ ingest # <<>>
      /\ ingest \in Seq(Messages)
  BY DEF HistoryInv, ReadersSound, ReceiveSnapshot, At, Control
<1>1. PICK m \in Messages : m = Head(ingest)
  BY <1>0
<1>2. m.kind = "snapshot" /\ m.n \in Readers
  BY <1>1 DEF ReceiveSnapshot, Messages
<1>3. PICK r \in Readers : r = m.n
  BY <1>2
<1>4. PICK old : old = reader[r]
  OBVIOUS
<1>5. ReaderSound(old) /\ old = [at |-> old.at, needed |-> old.needed, manifest |-> old.manifest, copy |-> old.copy]
  BY <1>4 DEF HistoryInv, ReadersSound, ReaderSound
<1>6. /\ pc' = "top" /\ ingest' = Tail(ingest)
      /\ UNCHANGED <<files, active, manifest, state, held, written, trimmed, page>>
      /\ reader' = [reader EXCEPT ![r] = IF failed THEN IdleReader
                                         ELSE [@ EXCEPT !.at = "answered", !.needed = written]]
  BY <1>1, <1>3 DEF ReceiveSnapshot, disk, history
<1>7. PICK rd : reader' = [reader EXCEPT ![r] = rd] /\ ReaderSound(rd)
  <2>1. CASE failed
    <3>1. reader' = [reader EXCEPT ![r] = IdleReader]
      BY <1>6, <2>1
    <3>. QED BY <3>1, IdleSound
  <2>2. CASE ~failed
    <3>1. PICK rd : rd = [old EXCEPT !.at = "answered", !.needed = written]
      OBVIOUS
    <3>2. reader' = [reader EXCEPT ![r] = rd]
      BY <1>0, <1>4, <1>6, <2>2, <3>1
    <3>3. rd = [at |-> "answered", needed |-> written, manifest |-> old.manifest, copy |-> old.copy]
      BY <1>5, <3>1
    <3>4. ReaderSound(rd)
      BY <1>5, <3>3 DEF ReaderSound
    <3>. QED BY <3>2, <3>4
  <2>. QED BY <2>1, <2>2
<1>8. ingest' \in Seq(Messages)
  BY <1>0, <1>6
<1>9. Control'
  BY <1>0, <1>6, <1>8 DEF ReceiveSnapshot, Control, Labels, Locking, counters
<1>10. Effective' = Effective
  BY <1>0, <1>6 DEF Effective
<1>11. ExactPages'
  BY <1>6 DEF HistoryInv, ExactPages
<1>. QED BY <1>6, <1>7, <1>9, <1>10, <1>11, ReaderStep

LEMMA ReadBlocksStep ==
  ASSUME HistoryInv, UNCHANGED <<closeCalls, crashes>>, NEW r \in Readers, ReadBlocks(r)
  PROVE  HistoryInv'
<1>0. Control /\ StateSound /\ ReaderSound(reader[r])
  BY DEF HistoryInv, ReadersSound
<1>1. /\ UNCHANGED <<disk, mailboxes, owner, memory, process, barrier, written, trimmed, counters>>
      /\ reader' = [reader EXCEPT ![r] = IdleReader] /\ reader[r].at = "copied"
  BY DEF ReadBlocks
<1>2. Control'
  BY <1>0, <1>1 DEF Control, owner, mailboxes, LastOf, LastBlock, memory, counters
<1>3. Effective' = Effective
  BY <1>1 DEF Effective, owner, memory
<1>4. ExactPages'
  <2>1. PICK c, N : c = reader[r].copy /\ N = reader[r].needed
    OBVIOUS
  <2>2. CopySound(files, c, trimmed, N, Newest)
    BY <1>0, <1>1, <2>1 DEF ReaderSound
  <2>3. CASE Stored(c.blocks)
    <3>1. PICK records : records = Contents(c.blocks) \o c.pending
      OBVIOUS
    <3>2. page' = [records |-> records, owed |-> {n \in N : n > trimmed}]
      BY <2>1, <2>3, <3>1 DEF ReadBlocks
    <3>3. /\ Increasing(records)
          /\ \A n \in N : n > trimmed => \E k \in DOMAIN records : records[k] = n
      <4>1. PICK newest : FilesSound(files, newest)
        BY <1>0 DEF StateSound, Sound
      <4>2. PICK t : t = trimmed
        OBVIOUS
      <4>3. Proper(c) /\ Holds(files, c, t, N)
        BY <2>2, <4>2 DEF CopySound
      <4>4. ExactFor(records, t, N)
        BY ONLY <2>3, <3>1, <4>1, <4>3, PageExact
      <4>. QED BY <4>2, <4>4 DEF ExactFor
    <3>4. page'.records = records /\ page'.owed = {n \in N : n > trimmed}
      BY <3>2
    <3>. QED BY <3>3, <3>4 DEF ExactPages, Increasing
  <2>4. CASE ~Stored(c.blocks)
    <3>1. page' = page
      BY <2>1, <2>4 DEF ReadBlocks
    <3>. QED BY <3>1 DEF HistoryInv, ExactPages
  <2>. QED BY <2>3, <2>4
<1>. QED BY <1>0, <1>1, <1>2, <1>3, <1>4, IdleSound, ReaderStep DEF disk, owner, memory

(* The archive is loaded, by the owner or by a reader: it is empty.             *)
LEMMA ColdStep ==
  ASSUME HistoryInv, ~state.exists,
         state' \in Archives, state'.exists, state'.blocks = <<>>, state'.pending = <<>>,
         UNCHANGED <<files, written, trimmed, manifest>>, held' \in Archives, Effective' = state'
  PROVE  StateSound' /\ (\A rd : ReaderSound(rd) => ReaderSound(rd)')
         /\ CopySound(files', state', trimmed', {}, Newest')
<1>1. /\ Empty /\ StateSound /\ Effective = state
  BY DEF HistoryInv, Control, Locking, Effective
<1>2. Sound(files', state', trimmed', written') /\ Newest' = 0
  <2>1. PICK s \in Archives : s = state'
    OBVIOUS
  <2>2. DOMAIN s.blocks = {} /\ DOMAIN s.pending = {} /\ s.blocks \in Seq(Blocks) /\ s.pending \in Seq(Nat)
    BY <2>1 DEF Archives
  <2>3. LastBlock(s.blocks) = 0
    BY <2>1 DEF LastBlock
  <2>4. Proper(s)
    BY <2>2 DEF Proper, Ordered, Increasing
  <2>5. Sound(files, s, 0, {})
    BY <1>1, <2>2, <2>3, <2>4 DEF Sound, FilesSound, Holds, Empty
  <2>6. Newest' = 0
    BY <2>1, <2>3 DEF Newest
  <2>. QED BY <1>1, <2>1, <2>5, <2>6 DEF Empty
<1>3. StateSound'
  BY <1>1, <1>2 DEF StateSound
<1>4. Newest = 0
  BY <1>1 DEF Newest, LastBlock, Empty
<1>5. ASSUME NEW rd, ReaderSound(rd) PROVE ReaderSound(rd)'
  BY <1>2, <1>4, <1>5 DEF ReaderSound
<1>6. CopySound(files', state', trimmed', {}, Newest')
  <2>1. DOMAIN state'.blocks = {}
    BY <1>2
  <2>. QED BY <1>2, <2>1 DEF CopySound, Sound, Holds
<1>. QED BY <1>3, <1>5, <1>6

LEMMA LoadManifestStep ==
  ASSUME HistoryInv, UNCHANGED <<closeCalls, crashes>>, LoadManifest
  PROVE  HistoryInv'
<1>0. Control /\ StateSound /\ pc = "load" /\ manifest \in Manifests
  BY DEF HistoryInv, LoadManifest, At, StateSound
<1>1. /\ pc' = "loadActive" /\ UNCHANGED <<files, active, state, reader, written, trimmed, page>>
      /\ manifest' = [manifest EXCEPT !.exists = TRUE]
      /\ held' = [exists |-> FALSE, blocks |-> manifest.blocks, closed |-> manifest.closed, pending |-> <<>>]
  BY DEF LoadManifest, callers, history
<1>2. manifest' \in Manifests /\ manifest'.blocks = manifest.blocks
  BY <1>0, <1>1 DEF Manifests
<1>3. held' \in Archives /\ held'.blocks = manifest.blocks
  <2>1. PICK p : p = <<>>
    OBVIOUS
  <2>2. p \in Seq(Nat)
    BY <2>1
  <2>3. manifest.blocks \in Seq(Blocks) /\ manifest.closed \in BOOLEAN
    BY <1>0 DEF Manifests
  <2>4. held' = [exists |-> FALSE, blocks |-> manifest.blocks, closed |-> manifest.closed, pending |-> p]
    BY <1>1, <2>1
  <2>. QED BY <2>2, <2>3, <2>4 DEF Archives
<1>4. Effective' = Effective
  BY <1>0, <1>1 DEF Effective
<1>5. StateSound'
  BY <1>0, <1>1, <1>2, <1>3, <1>4 DEF StateSound
<1>6. Control'
  BY <1>0, <1>1 DEF LoadManifest, Control, Labels, Locking, mailboxes, counters
<1>7. ~state'.exists => Empty'
  BY <1>1, <1>2, <1>3 DEF HistoryInv, Empty
<1>8. ReadersSound'
  <2>1. Newest' = Newest
    BY <1>4 DEF Newest
  <2>. QED BY <1>1, <2>1 DEF HistoryInv, ReadersSound, ReaderSound
<1>9. ExactPages'
  BY <1>1 DEF HistoryInv, ExactPages
<1>. QED BY <1>5, <1>6, <1>7, <1>8, <1>9 DEF HistoryInv

LEMMA LoadActiveStep ==
  ASSUME HistoryInv, UNCHANGED <<closeCalls, crashes>>, LoadActive
  PROVE  HistoryInv'
<1>0. Control /\ StateSound /\ pc = "loadActive" /\ held \in Archives /\ Effective = state
  BY DEF HistoryInv, LoadActive, At, StateSound, Effective
<1>1. /\ pc' = "append" /\ UNCHANGED <<files, manifest, reader, written, trimmed, page>>
      /\ state' = (IF state.exists THEN state ELSE ColdState(held)) /\ held' = NoState
  BY DEF LoadActive, callers, history
<1>2. held' \in Archives
  <2>1. PICK p : p = <<>>
    OBVIOUS
  <2>2. p \in Seq(Nat) /\ p \in Seq(Blocks)
    BY <2>1
  <2>3. held' = [exists |-> FALSE, blocks |-> p, closed |-> FALSE, pending |-> p]
    BY <1>1, <2>1 DEF NoState
  <2>. QED BY <2>2, <2>3 DEF Archives
<1>3. Effective' = state'
  BY <1>1 DEF Effective
<1>4. ExactPages'
  BY <1>1 DEF HistoryInv, ExactPages
<1>5. CASE state.exists
  <2>1. state' = state
    BY <1>1, <1>5
  <2>2. StateSound'
    BY <1>0, <1>1, <1>2, <1>3, <2>1 DEF StateSound
  <2>3. Control'
    BY <1>0, <1>1, <1>5, <2>1 DEF LoadActive, Control, Labels, Locking, mailboxes, counters
  <2>4. Newest' = Newest
    BY <1>0, <1>3, <2>1 DEF Newest
  <2>5. ReadersSound'
    BY <1>1, <2>1, <2>4 DEF HistoryInv, ReadersSound, ReaderSound
  <2>. QED BY <1>4, <1>5, <2>1, <2>2, <2>3, <2>5 DEF HistoryInv
<1>6. CASE ~state.exists
  <2>1. held.blocks = <<>> /\ active = <<>>
    BY <1>0, <1>6 DEF HistoryInv, Empty
  <2>2. /\ state' \in Archives /\ state'.exists /\ state'.blocks = <<>> /\ state'.pending = <<>>
    <3>1. PICK m : m = [exists |-> held.exists, blocks |-> held.blocks, closed |-> held.closed]
      OBVIOUS
    <3>2. m \in Manifests /\ m.blocks = <<>>
      BY <1>0, <2>1, <3>1 DEF Archives, Manifests
    <3>3. ColdState(m) = ColdState(held)
      BY <3>1 DEF ColdState, PendingOf
    <3>. QED BY <1>1, <1>6, <2>1, <3>2, <3>3, ColdIsEmpty
  <2>3. StateSound' /\ \A rd : ReaderSound(rd) => ReaderSound(rd)'
    BY <1>1, <1>2, <1>3, <1>6, <2>2, ColdStep
  <2>4. Control'
    BY <1>0, <1>1, <2>2 DEF LoadActive, Control, Labels, Locking, mailboxes, counters
  <2>5. ReadersSound'
    <3>1. ASSUME NEW r \in Readers PROVE ReaderSound(reader[r])'
      <4>1. PICK x : x = reader[r]
        OBVIOUS
      <4>2. ReaderSound(x)
        BY <4>1 DEF HistoryInv, ReadersSound
      <4>3. ReaderSound(x)'
        BY <2>3, <4>2
      <4>. QED BY <1>1, <4>1, <4>3 DEF ReaderSound
    <3>. QED BY <1>1, <3>1 DEF HistoryInv, ReadersSound
  <2>. QED BY <1>4, <2>2, <2>3, <2>4, <2>5 DEF HistoryInv
<1>. QED BY <1>5, <1>6

LEMMA InsertStep ==
  ASSUME HistoryInv, UNCHANGED <<closeCalls, crashes>>, NEW r \in Readers, Insert(r)
  PROVE  HistoryInv'
<1>0. /\ Control /\ StateSound /\ ReaderSound(reader[r]) /\ DOMAIN reader = Readers /\ reader[r].at = "built"
  BY DEF HistoryInv, ReadersSound, Insert
<1>1. pc \notin Locking /\ Effective = state /\ pc' = pc /\ Effective' = state'
  BY <1>0, Unlocked DEF Insert, owner
<1>2. PICK old, s : old = reader[r] /\ s = IF state.exists THEN state ELSE old.copy
  OBVIOUS
<1>3. /\ state' = s /\ reader' = [reader EXCEPT ![r].at = "copied", ![r].copy = s]
      /\ Indexed(s)
      /\ UNCHANGED <<disk, producer, pendingClose, budget, ingest, finalize, owner, held, failed, process,
                     barrier, history, counters>>
  BY <1>2 DEF Insert
<1>4. ReaderSound(old) /\ old = [at |-> old.at, needed |-> old.needed, manifest |-> old.manifest, copy |-> old.copy]
  BY <1>0, <1>2 DEF ReaderSound
<1>5. PICK rd : rd = [old EXCEPT !.at = "copied", !.copy = s]
  OBVIOUS
<1>6. reader' = [reader EXCEPT ![r] = rd]
  BY <1>0, <1>2, <1>3, <1>5
<1>7. rd = [at |-> "copied", needed |-> old.needed, manifest |-> old.manifest, copy |-> s]
  BY <1>4, <1>5
<1>8. ExactPages'
  BY <1>3 DEF HistoryInv, ExactPages, history
<1>9. s \in Archives /\ s.exists
  BY <1>0, <1>2, <1>4 DEF ReaderSound, StateSound
<1>10. ASSUME LastBlock(s.blocks) \in Nat PROVE Control'
  <2>1. LastOf(s) \in Nat
    <3>1. s.pending \in Seq(Nat)
      BY <1>9 DEF Archives
    <3>. QED BY <1>10, <3>1 DEF LastOf, Last
  <2>2. accepted' \in Nat
    BY <1>0, <1>3, <2>1 DEF Indexed, Control
  <2>. QED BY <1>0, <1>1, <1>3, <1>9, <2>2 DEF Control, Locking, owner, counters
<1>11. CASE state.exists
  <2>1. s = state /\ state' = state
    BY <1>2, <1>3, <1>11
  <2>2. CopySound(files, state, trimmed, old.needed, Newest)
    BY <1>1, <1>4, CopyOfState DEF ReaderSound
  <2>3. ReaderSound(rd)
    BY <1>4, <1>7, <1>11, <2>1, <2>2 DEF ReaderSound
  <2>4. Control'
    <3>1. LastBlock(state.blocks) \in Nat
      BY <1>0, <1>1, NewestIsNat DEF Newest
    <3>. QED BY <1>10, <2>1, <3>1
  <2>5. Effective' = Effective
    BY <1>1, <2>1
  <2>. QED BY <1>1, <1>3, <1>6, <1>8, <1>11, <2>1, <2>3, <2>4, <2>5, ReaderStep DEF disk, history
<1>12. CASE ~state.exists
  <2>1. s.blocks = <<>> /\ s.pending = <<>>
    BY <1>0, <1>2, <1>12 DEF ReaderSound
  <2>2. /\ StateSound' /\ \A x : ReaderSound(x) => ReaderSound(x)'
        /\ CopySound(files', state', trimmed', {}, Newest')
    BY <1>0, <1>1, <1>3, <1>9, <1>12, <2>1, ColdStep DEF disk, history, StateSound
  <2>3. Control'
    BY <1>10, <2>1 DEF LastBlock
  <2>4. old.needed = {}
    BY <1>4, <1>12 DEF HistoryInv, Empty, ReaderSound
  <2>5. ReaderSound(rd)'
    <3>1. rd.at = "copied" /\ rd.needed = {} /\ rd.manifest = old.manifest /\ rd.copy = state'
      BY <1>3, <1>7, <2>4
    <3>2. /\ rd = [at |-> rd.at, needed |-> rd.needed, manifest |-> rd.manifest, copy |-> rd.copy]
          /\ rd.manifest \in Manifests
      BY <1>4, <1>7 DEF ReaderSound
    <3>. QED BY <2>2, <3>1, <3>2 DEF ReaderSound
  <2>6. ReadersSound'
    <3>1. reader = [q \in Readers |-> reader[q]] /\ \A q \in Readers : ReaderSound(reader[q])
      BY DEF HistoryInv, ReadersSound
    <3>2. reader' = [q \in Readers |-> reader'[q]] /\ \A q \in Readers : reader'[q] = IF q = r THEN rd ELSE reader[q]
      BY <1>6, <3>1
    <3>3. ASSUME NEW q \in Readers PROVE ReaderSound(reader[q])'
      <4>1. PICK x : x = reader'[q]
        OBVIOUS
      <4>2. ReaderSound(x)'
        BY <2>2, <2>5, <3>1, <3>2, <4>1
      <4>. QED BY <4>1, <4>2 DEF ReaderSound
    <3>. QED BY <3>2, <3>3 DEF ReadersSound
  <2>. QED BY <1>3, <1>8, <1>9, <2>2, <2>3, <2>6 DEF HistoryInv
<1>. QED BY <1>11, <1>12

-----------------------------------------------------------------------------
(* The theorem                                                                  *)

LEMMA HistoryStart ==
  ASSUME Init
  PROVE  HistoryInv
<1>1. PICK p : p = <<>>
  OBVIOUS
<1>2. p \in Seq(Nat) /\ p \in Seq(Blocks) /\ p \in Seq(Messages) /\ DOMAIN p = {}
  BY <1>1
<1>3. NoState = [exists |-> FALSE, blocks |-> p, closed |-> FALSE, pending |-> p]
  BY <1>1 DEF NoState
<1>4. NoState \in Archives /\ ~NoState.exists /\ NoState.blocks = p /\ NoState.pending = p
  BY <1>2, <1>3 DEF Archives
<1>5. NoManifest = [exists |-> FALSE, blocks |-> p, closed |-> FALSE]
  BY <1>1 DEF NoManifest
<1>6. NoManifest \in Manifests /\ NoManifest.blocks = p
  BY <1>2, <1>5 DEF Manifests
<1>7. Effective = NoState
  BY DEF Init, Effective
<1>8. Sound(files, NoState, 0, {})
  <2>1. LastBlock(NoState.blocks) = 0
    BY <1>1, <1>4 DEF LastBlock
  <2>2. Proper(NoState)
    BY <1>2, <1>4 DEF Proper, Ordered, Increasing
  <2>3. DOMAIN files = {}
    BY <1>1, <1>2 DEF Init
  <2>. QED BY <1>2, <1>4, <2>1, <2>2, <2>3 DEF Sound, FilesSound, Holds
<1>9. StateSound
  BY <1>4, <1>6, <1>7, <1>8 DEF StateSound, Init
<1>10. Control
  <2>1. job = [kind |-> "none", n |-> 0]
    BY DEF Init, NoJob
  <2>. QED BY <1>1, <1>2, <2>1 DEF Control, Init, Labels, Locking
<1>11. Empty
  <2>1. DOMAIN files = {}
    BY <1>1, <1>2 DEF Init
  <2>. QED BY <1>1, <1>4, <1>6, <2>1 DEF Empty, Init
<1>12. ReadersSound
  <2>1. IdleReader = [at |-> "idle", needed |-> {}, manifest |-> NoManifest, copy |-> NoState]
    BY DEF IdleReader
  <2>2. ReaderSound(IdleReader)
    BY <1>6, <2>1 DEF ReaderSound
  <2>3. reader = [r \in Readers |-> IdleReader]
    BY DEF Init
  <2>. QED BY <2>2, <2>3 DEF ReadersSound
<1>13. ExactPages
  <2>1. page.records = p /\ page.owed = {}
    BY <1>1 DEF Init, NoPage
  <2>. QED BY <1>2, <2>1 DEF ExactPages
<1>. QED BY <1>9, <1>10, <1>11, <1>12, <1>13 DEF HistoryInv

LEMMA HistoryStep ==
  ASSUME HistoryInv, LiveNext
  PROVE  HistoryInv'
<1>0. Control /\ UNCHANGED <<closeCalls, crashes>> /\ Next
  BY DEF HistoryInv, LiveNext
<1>1. ~CloseTerminal /\ ~Crash
  BY <1>0 DEF CloseTerminal, Crash, Control
<1>2. ~Postpone /\ ~Finalize /\ ~FinishClose
  BY <1>0 DEF Postpone, Finalize, FinishClose, Control, Labels, At
<1>3. CASE Owner
  BY <1>0, <1>2, <1>3, LoopStep, EndRecordStep, WriteBlockStep, WriteManifestStep, ResetActiveStep, TrimBlocksStep,
     WriteTrimmedStep, ReceiveSnapshotStep, LoadManifestStep, LoadActiveStep DEF Owner
<1>4. CASE Producer
  BY <1>0, <1>1, <1>4, ProducerStep DEF Producer
<1>5. CASE \E r \in Readers : Reader(r)
  BY <1>0, <1>5, AskStep, InsertStep, ReadBlocksStep DEF Reader
<1>. QED BY <1>0, <1>1, <1>3, <1>4, <1>5, ProducerStep, FlushLiveStep DEF Next

\* However reads, appends, flushes and the quota interleave, and whatever fails, a page
\* read of a terminal that stays open holds, in order and once each, every record
\* that was written when its read was admitted and that the quota has left.
THEOREM PagesAreExact == LiveSpec => []ExactPages
<1>1. HistoryInv /\ UNCHANGED vars => HistoryInv'
  <2>. SUFFICES ASSUME HistoryInv, UNCHANGED vars PROVE HistoryInv'
    OBVIOUS
  <2>1. UNCHANGED <<disk, mailboxes, owner, memory, process, callers, history, counters>>
    BY DEF vars
  <2>2. Control'
    BY <2>1 DEF HistoryInv, Control, mailboxes, owner, memory, counters, LastOf, LastBlock
  <2>3. Effective' = Effective
    BY <2>1 DEF Effective, owner, memory
  <2>4. manifest' \in Manifests
    BY <2>1 DEF HistoryInv, StateSound, disk
  <2>. QED BY <2>1, <2>2, <2>3, <2>4, QuietStep DEF disk, owner, memory, callers, history
<1>2. HistoryInv => ExactPages
  BY DEF HistoryInv
<1>. QED BY <1>1, <1>2, HistoryStart, HistoryStep, PTL DEF LiveSpec
=============================================================================
