------------------------------ MODULE BlockHead ------------------------------
(***************************************************************************)
(* The variables that the rules compute for each block (the HEAD), from the *)
(* HEADs of the blocks before that BINDEX keeps: issuers, times, difficulty, *)
(* dividend and mass; and the HEAD of the next block, which is computed     *)
(* ahead and cached.                                                       *)
(***************************************************************************)
EXTENDS Integers, SequencesExt, FiniteSetsExt

CONSTANTS Issuer,        \* members that may write blocks
          Incoming,      \* blocks: their issuer, their time after the median time, the members there are after
          Forkable,      \* conf.forksize
          TimeBlocks,    \* conf.medianTimeBlocks
          DiffEval,      \* conf.dtDiffEval
          MinGen,        \* minGenTime
          MaxGen,        \* maxGenTime
          Dt,            \* conf.dt
          DtReeval,      \* conf.dtReeval
          Reeval0,       \* conf.udReevalTime0
          FirstUD,       \* conf.ud0
          GrowthDen,     \* 1 / c^2
          PowMin0,       \* powMin of the root
          RotNum, RotDen, \* conf.percentRot
          Digits,        \* 10 ^ NB_DIGITS_UD
          LastNumber,    \* bound: number of the last block
          MaxFalls,      \* bound: blocks reverted
          MaxReads       \* bound: computations of the next HEAD at one time

ASSUME HeadAssumption ==
    /\ {TimeBlocks, DiffEval, MinGen, MaxGen, Dt, DtReeval, GrowthDen, Digits} \subseteq Nat \ {0}
    /\ {Forkable, Reeval0, FirstUD, PowMin0, LastNumber, MaxFalls, MaxReads} \subseteq Nat /\ Incoming \subseteq Issuer \X Nat \X Nat
    /\ MinGen <= MaxGen /\ FirstUD < Digits /\ RotNum \in Nat /\ RotDen \in Nat \ {0}

VARIABLES
    heads,    \* HEADs of the chain
    tail,     \* number of the first that BINDEX keeps
    falls,    \* blocks reverted
    vHEAD,    \* block that the cached next HEAD follows
    vHEAD_1,  \* cached current HEAD
    reading,  \* blocks that the computations under way follow
    raced     \* history: a block was written during a computation

chainVars == <<heads, tail, falls>>
cacheVars == <<vHEAD, vHEAD_1, reading, raced>>
headVars == <<chainVars, cacheVars>>

None == -1
TopNumber == Len(heads) - 1
Bindex == SubSeq(heads, tail + 1, Len(heads))
Largest(s, n) == IF n >= Len(s) THEN s ELSE SubSeq(s, Len(s) - n + 1, Len(s))
Total(s) == FoldLeft(LAMBDA a, x : a + x, 0, s)
Ceil(x, y) == (x + y - 1) \div y

----------------------------------------------------------------------------
(* The rules, on what BINDEX holds: its last record h is HEAD_1. *)

IssuersOf(seen) == {seen[k].issuer : k \in DOMAIN seen}
IssuersCount(frame) == Cardinality(IssuersOf(frame))

IssuersFrame(h) == h.issuersFrame + (IF h.issuersFrameVar > 0 THEN 1 ELSE IF h.issuersFrameVar < 0 THEN -1 ELSE 0)

\* mutant: the number of issuers moves the frame as if it were new at each block
FrameVarOf(h, count) == 5 * count + (IF h.issuersFrameVar > 0 THEN -1 ELSE IF h.issuersFrameVar < 0 THEN 1 ELSE 0)

IssuersFrameVar(h, count) ==
    h.issuersFrameVar + 5 * (count - h.issuersCount)
        + (IF h.issuersFrameVar > 0 THEN -1 ELSE IF h.issuersFrameVar < 0 THEN 1 ELSE 0)

\* The average of the times, which never goes back.
MedianTime(h, latest) ==
    LET average == Total([k \in DOMAIN latest |-> latest[k].time]) \div Len(latest) IN Max({h.medianTime, average})

DiffNumber(h, n) == IF h.diffNumber <= n THEN h.diffNumber + DiffEval ELSE h.diffNumber

\* A difficulty never leaves one to reach 15 modulo 16.
Raise(p) == IF (p + 2) % 16 = 0 THEN p + 2 ELSE p + 1
Lower(p) == Max({0, IF p % 16 = 0 THEN p - 2 ELSE p - 1})

\* speed = quantity / elapsed, or 100; compared to 1 / minGenTime and 1 / maxGenTime.
PowMin(seen, n, t, diff) ==
    LET h == Last(seen)
        quantity == Min({DiffEval, n})
        elapsed == t - seen[Len(seen) - quantity + 1].medianTime
    IN IF diff = h.diffNumber THEN h.powMin
       ELSE IF quantity * MinGen >= elapsed THEN Raise(h.powMin)
       ELSE IF quantity * MaxGen <= elapsed THEN Lower(h.powMin)
       ELSE h.powMin

\* Twice the median of counts: with an even number of them it may fall between two.
TwiceMedian(counts) ==
    LET s == SortSeq(counts, <) n == Len(s)
    IN IF n % 2 = 0 THEN s[n \div 2] + s[n \div 2 + 1] ELSE 2 * s[(n + 1) \div 2]

\* The integer part of log(x / y) in base 1.189, whose powers in thousandths these are: x is at most 10 y.
HandicapSteps == <<1189, 1414, 1681, 1999, 2377, 2826, 3360, 3995, 4750, 5648, 6715, 7984, 9493>>
Handicap(x, y) == Cardinality({k \in DOMAIN HandicapSteps : 1000 * x >= HandicapSteps[k] * y})

\* What an issuer must reach: more when it wrote more blocks than the median issuer, or when it wrote one of the
\* last blocks. The levels 15 modulo 16 do not exist.
PersonalDifficulty(h, frame, powMin, issuer) ==
    LET mine == {k \in DOMAIN frame : frame[k].issuer = issuer}
        counts == [i \in IssuersOf(frame) |-> Cardinality({k \in DOMAIN frame : frame[k].issuer = i})]
        median2 == Max({2, TwiceMedian([n \in 1..Cardinality(DOMAIN counts) |-> counts[SetToSeq(DOMAIN counts)[n]]])})
        last == frame[Max(mine)]
        excluded == IF mine = {} THEN 0
                    ELSE (RotNum * last.issuersCount) \div (RotDen * (1 + h.number - last.number))
        handicap == Handicap(2 * (Cardinality(mine) + 1), median2)
        diff == Max({powMin, powMin * excluded}) + handicap
    IN IF (diff + 1) % 16 = 0 THEN diff + 1 ELSE diff

Reached(at, t, step) == IF at <= t THEN at + step ELSE at

\* DUG: what each member gets more at a re-evaluation is a part of the mass there was at the last one.
Reevaluated(h, members) ==
    h.dividend + Ceil(Ceil(h.massReeval, 10 ^ h.unitBase) * Dt, GrowthDen * members * DtReeval)

PrepareDividend(h, udTime, udReevalTime, members) ==
    LET d == IF udReevalTime # h.udReevalTime THEN Reevaluated(h, members) ELSE h.dividend
    IN [dividend |-> d, new |-> IF udTime # h.udTime THEN d ELSE None]

\* Past so many digits the dividend changes of base, and is created whether this is the time of one or not.
PrepareUnitBase(d, base) ==
    IF d.dividend >= Digits
    THEN [dividend |-> Ceil(d.dividend, 10), new |-> Ceil(d.dividend, 10), unitBase |-> base + 1]
    ELSE [dividend |-> d.dividend, new |-> d.new, unitBase |-> base]

Mass(h, d, udTime, members) ==
    IF udTime # h.udTime THEN h.mass + d.dividend * 10 ^ d.unitBase * members ELSE h.mass

\* completeGlobalScope: the HEAD after those seen.
NextHead(seen, issuer, step, members) ==
    LET h == Last(seen)
        n == h.number + 1
        frame == Largest(seen, h.issuersFrame)
        count == IssuersCount(frame)
        t == MedianTime(h, Largest(seen, TimeBlocks))
        diff == DiffNumber(h, n)
        udTime == Reached(h.udTime, t, Dt)
        reeval == Reached(h.udReevalTime, t, DtReeval)
        d == PrepareUnitBase(PrepareDividend(h, udTime, reeval, members), h.unitBase)
    IN [number |-> n, issuer |-> issuer, time |-> t + step, medianTime |-> t, membersCount |-> members,
        issuersCount |-> count, issuersFrame |-> IssuersFrame(h), issuersFrameVar |-> IssuersFrameVar(h, count),
        diffNumber |-> diff, powMin |-> PowMin(seen, n, t, diff),
        issuerDiff |-> PersonalDifficulty(h, frame, PowMin(seen, n, t, diff), issuer),
        udTime |-> udTime, udReevalTime |-> reeval, dividend |-> d.dividend, new_dividend |-> d.new,
        unitBase |-> d.unitBase, mass |-> Mass(h, d, udTime, members),
        massReeval |-> IF reeval # h.udReevalTime THEN h.mass ELSE h.massReeval]

RootHead(issuer, members) ==
    [number |-> 0, issuer |-> issuer, time |-> 0, medianTime |-> 0, membersCount |-> members,
     issuersCount |-> 0, issuersFrame |-> 1, issuersFrameVar |-> 0, diffNumber |-> DiffEval, powMin |-> PowMin0,
     issuerDiff |-> PowMin0,
     udTime |-> Dt, udReevalTime |-> Reeval0, dividend |-> FirstUD, new_dividend |-> None,
     unitBase |-> 0, mass |-> 0, massReeval |-> 0]

\* mutant: a base changed by both computations
GeneratedTwice(h, t, members) ==
    LET udTime == Reached(h.udTime, t, Dt)
        reeval == Reached(h.udReevalTime, t, DtReeval)
        virtual == PrepareUnitBase(PrepareDividend(h, udTime, reeval, h.membersCount), h.unitBase)
        again == PrepareUnitBase(PrepareDividend(h, udTime, reeval, members), virtual.unitBase)
    IN [new |-> IF virtual.new # None THEN again.dividend ELSE None,
        unitBase |-> IF virtual.new # None THEN again.unitBase ELSE h.unitBase]

\* nextBlock: the generator computes the dividend on the cached HEAD again, with the members of its block.
GeneratedDividend(h, t, members) ==
    LET udTime == Reached(h.udTime, t, Dt)
        reeval == Reached(h.udReevalTime, t, DtReeval)
        virtual == PrepareUnitBase(PrepareDividend(h, udTime, reeval, h.membersCount), h.unitBase)
        again == PrepareUnitBase(PrepareDividend(h, udTime, reeval, members), virtual.unitBase)
    IN IF virtual.new # None THEN [new |-> again.dividend, unitBase |-> Min({h.unitBase + 1, again.unitBase})]
       ELSE [new |-> None, unitBase |-> h.unitBase]

----------------------------------------------------------------------------
\* requiredBindexSizeForTail, of the first HEAD that is kept.
RequiredSize(h) == Forkable + Max({h.issuersCount, h.issuersFrame, TimeBlocks, DiffEval})

\* trimIndexes: one block more than the size is left.
TrimBindex(h) == LET size == RequiredSize(heads[tail + 1]) IN
    tail' = IF h.number - tail + 1 > size THEN h.number - size ELSE tail

\* mutant: the cache is left when a block is written
KeepCache == UNCHANGED <<vHEAD, vHEAD_1>>

ForgetCache == vHEAD' = None /\ vHEAD_1' = None

\* checkAndAddBlock.
WriteBlock(issuer, step, members) ==
    /\ TopNumber < LastNumber
    /\ LET h == NextHead(Bindex, issuer, step, members) IN
       /\ heads' = Append(heads, h)
       /\ TrimBindex(h)
    /\ ForgetCache
    /\ raced' = (reading # <<>>)
    /\ UNCHANGED <<falls, reading>>

\* revertCurrentHead, and the computation of the next HEAD it starts.
Fall ==
    /\ TopNumber > tail /\ falls < MaxFalls /\ falls < Forkable
    /\ heads' = Front(heads) /\ falls' = falls + 1
    /\ reading' = Append(reading, TopNumber - 1) /\ vHEAD_1' = TopNumber - 1
    /\ raced' = (reading # <<>>)
    /\ UNCHANGED <<tail, vHEAD>>

\* getvHeadCopy, getvHEAD_1: of a page that lists difficulties, of the prover or of the generator.
RefreshHead ==
    /\ vHEAD = None /\ Len(reading) < MaxReads
    /\ vHEAD_1' = TopNumber /\ reading' = Append(reading, TopNumber)
    /\ UNCHANGED <<chainVars, vHEAD, raced>>

\* A computation ends, in any order.
HeadRefreshed(k) ==
    /\ k \in DOMAIN reading
    /\ vHEAD' = reading[k] /\ reading' = RemoveAt(reading, k)
    /\ UNCHANGED <<chainVars, vHEAD_1, raced>>

HeadInit ==
    /\ \E i \in Issuer : heads = <<RootHead(i, Cardinality(Issuer))>>
    /\ tail = 0 /\ falls = 0
    /\ vHEAD = None /\ vHEAD_1 = None /\ reading = <<>> /\ raced = FALSE

HeadNext ==
    \/ \E b \in Incoming : WriteBlock(b[1], b[2], b[3])
    \/ Fall \/ RefreshHead
    \/ \E k \in 1..MaxReads + MaxFalls : HeadRefreshed(k)

HeadSpec == HeadInit /\ [][HeadNext]_headVars

----------------------------------------------------------------------------
\* The frame in which issuers are counted moves to five times their number, one block at a time.
FrameFollowsIssuers == \A k \in DOMAIN heads :
    /\ heads[k].issuersFrame + heads[k].issuersFrameVar = 5 * heads[k].issuersCount + 1
    /\ heads[k].issuersFrame >= 1

\* The HEAD computed on BINDEX is the one a node that trimmed nothing computes, also after reverts, as long as the
\* frame has not outgrown what BINDEX keeps, whose size is that of the frame of its first block.
SameHead ==
    Last(heads).issuersFrame <= Len(Bindex) =>
        /\ Len(Bindex) >= Min({DiffEval, Len(heads)})
        /\ \A i \in Issuer : NextHead(Bindex, i, 0, 1) = NextHead(heads, i, 0, 1)

\* The mass is the sum of the dividends created, but those created out of time by a change of base.
MassIsDividends ==
    LET created(k) == heads[k].new_dividend * 10 ^ heads[k].unitBase * heads[k].membersCount
        onTime == {k \in DOMAIN heads \ {1} : heads[k].new_dividend # None /\ heads[k].udTime # heads[k - 1].udTime}
        based == {k \in DOMAIN heads \ {1} : heads[k].new_dividend # None} \ onTime
    IN /\ Last(heads).mass = MapThenSumSet(created, onTime)
       /\ \A k \in based : heads[k].unitBase # heads[k - 1].unitBase

\* The cached HEAD is the one that follows the current block, unless a block was written or reverted while it was
\* computed: then it stays wrong until the next block.
VirtualHeadIsNext == reading = <<>> /\ vHEAD # None /\ ~raced => vHEAD = TopNumber /\ vHEAD_1 = TopNumber

\* The generator gives its block the dividend and the base that the rules want, unless the members of the block keep
\* the dividend just below the change of base that the cached HEAD had.
DividendAccepted ==
    LET h == Last(heads) t == MedianTime(h, Largest(Bindex, TimeBlocks)) IN
    \A m \in {h.membersCount, h.membersCount + 1} :
        LET rule == NextHead(Bindex, h.issuer, 0, m)
            mine == GeneratedDividend(h, t, m)
        IN \/ mine.new = rule.new_dividend /\ mine.unitBase = rule.unitBase
           \/ NextHead(Bindex, h.issuer, 0, h.membersCount).unitBase > rule.unitBase

\* The HEADs that a node computes are right: the next one on the blocks it kept, and the one it caches.
HeadsAreRight == SameHead /\ VirtualHeadIsNext

\* Dividends are counted once, and created where the rules want them.
DividendsAgree == MassIsDividends /\ DividendAccepted
=============================================================================
