------------------------- MODULE RecommenderProofs -------------------------
(***************************************************************************)
(* What the recommender keeps over crashes and restarts, for every set of  *)
(* containers and VPAs and every bound: the peaks of a container do not    *)
(* overlap, an OOM that was recorded counts, and a checkpoint is only      *)
(* replaced by one that holds what it held.                                *)
(***************************************************************************)
EXTENDS Recommender, FiniteSetTheorems, TLAPS

-----------------------------------------------------------------------------
(* Histograms, which are bags of peaks, by the copies of a peak in them.   *)

Peaks == Nat \X Nat

IsHistogram(h) ==
    /\ IsABag(h)
    /\ DOMAIN h \subseteq Peaks

Copies(p, h) == IF p \in DOMAIN h THEN h[p] ELSE 0

One(p, q) == IF p = q THEN 1 ELSE 0

\* A peak is in a histogram when there is a copy of it.
LEMMA CopiesOfPeak ==
    ASSUME NEW h, IsABag(h), NEW p
    PROVE  /\ Copies(p, h) \in Nat
           /\ p \in DOMAIN h <=> Copies(p, h) >= 1
  BY DEF Copies, IsABag

\* The empty histogram.
LEMMA CopiesInEmpty ==
    /\ IsHistogram(EmptyBag)
    /\ DOMAIN EmptyBag = {}
    /\ \A p : Copies(p, EmptyBag) = 0
  BY DEF IsHistogram, IsABag, EmptyBag, SetToBag, Copies

\* Peak(end, usage) has one copy of one peak.
LEMMA CopiesInPeak ==
    ASSUME NEW end \in Nat, NEW usage \in Nat
    PROVE  /\ IsHistogram(Peak(end, usage))
           /\ DOMAIN Peak(end, usage) = {<<end, usage>>}
           /\ \A p : Copies(p, Peak(end, usage)) = One(p, <<end, usage>>)
  BY DEF IsHistogram, IsABag, Peak, SetToBag, Copies, Peaks, One

\* Merging two histograms adds their copies.
LEMMA CopiesInMerge ==
    ASSUME NEW g, IsHistogram(g), NEW h, IsHistogram(h)
    PROVE  /\ IsHistogram(g (+) h)
           /\ DOMAIN (g (+) h) = DOMAIN g \cup DOMAIN h
           /\ \A p : Copies(p, g (+) h) = Copies(p, g) + Copies(p, h)
<1>1. g (+) h = [p \in DOMAIN g \cup DOMAIN h |-> Copies(p, g) + Copies(p, h)]
  BY DEF (+), Copies
<1>2. DOMAIN (g (+) h) = DOMAIN g \cup DOMAIN h
  BY <1>1
<1>3. ASSUME NEW p \in DOMAIN g \cup DOMAIN h
      PROVE  Copies(p, g) + Copies(p, h) \in {n \in Nat : n > 0}
  BY CopiesOfPeak DEF IsHistogram
<1>4. IsHistogram(g (+) h)
  BY <1>1, <1>2, <1>3 DEF IsHistogram, IsABag
<1>5. ASSUME NEW p PROVE Copies(p, g (+) h) = Copies(p, g) + Copies(p, h)
  BY <1>1, <1>2 DEF Copies
<1> QED
  BY <1>2, <1>4, <1>5

\* Taking a histogram away from another takes its copies away.
LEMMA CopiesInRest ==
    ASSUME NEW g, IsHistogram(g), NEW h, IsHistogram(h)
    PROVE  /\ IsHistogram(g (-) h)
           /\ DOMAIN (g (-) h) \subseteq DOMAIN g
           /\ \A p : Copies(p, g (-) h) = IF Copies(p, g) > Copies(p, h)
                                          THEN Copies(p, g) - Copies(p, h) ELSE 0
<1> DEFINE rest == [p \in DOMAIN g |-> IF p \in DOMAIN h THEN g[p] - h[p] ELSE g[p]]
<1>1. g (-) h = [p \in {q \in DOMAIN rest : rest[q] > 0} |-> rest[p]]
  BY DEF (-)
<1>2. ASSUME NEW p \in DOMAIN g PROVE rest[p] = Copies(p, g) - Copies(p, h)
  BY DEF Copies, IsHistogram, IsABag
<1>3. DOMAIN rest = DOMAIN g
  OBVIOUS
<1> HIDE DEF rest
<1>4. DOMAIN (g (-) h) = {q \in DOMAIN g : Copies(q, g) > Copies(q, h)}
  <2>1. ASSUME NEW q \in DOMAIN g PROVE rest[q] > 0 <=> Copies(q, g) > Copies(q, h)
    BY <1>2, CopiesOfPeak DEF IsHistogram
  <2> QED
    BY <1>1, <1>3, <2>1
<1>5. ASSUME NEW p, p \in DOMAIN (g (-) h)
      PROVE  (g (-) h)[p] = Copies(p, g) - Copies(p, h)
  BY <1>1, <1>2, <1>3, <1>4, <1>5
<1>6. ASSUME NEW p, p \in DOMAIN (g (-) h)
      PROVE  (g (-) h)[p] \in {n \in Nat : n > 0}
  BY <1>4, <1>5, <1>6, CopiesOfPeak DEF IsHistogram
<1>7. g (-) h = [p \in DOMAIN (g (-) h) |-> (g (-) h)[p]]
  BY <1>1, <1>4
<1>8. IsHistogram(g (-) h)
  BY <1>4, <1>6, <1>7 DEF IsHistogram, IsABag
<1>9. ASSUME NEW p
      PROVE  Copies(p, g (-) h) = IF Copies(p, g) > Copies(p, h)
                                  THEN Copies(p, g) - Copies(p, h) ELSE 0
  BY <1>4, <1>5, CopiesOfPeak DEF Copies, IsHistogram
<1> QED
  BY <1>4, <1>8, <1>9

-----------------------------------------------------------------------------
(* The inductive invariant.                                                *)

ContainerStates == [windowEnd : Nat, memoryPeak : Nat, oomPeak : Nat, last : Nat]

\* The OOMs that have happened.
Infos == [container : Containers, time : 1 .. now]

PCs == {"init", "restore", "vpas", "pods", "metrics", "ooms", "store", "gc",
        "collect", "down"}

\* The process has come to its first RunOnce.
Running == loop.pc \notin {"init", "restore", "down"}

ApiOK ==
    /\ api = [vpas |-> api.vpas, saved |-> api.saved, savedAt |-> api.savedAt,
              events |-> api.events]
    /\ api.vpas \subseteq Vpas
    /\ DOMAIN api.saved \subseteq Containers
    /\ \A c \in DOMAIN api.saved : IsHistogram(api.saved[c])
    /\ api.savedAt \in [Containers -> Nat]
    /\ api.events \subseteq Infos
    /\ IsFiniteSet(api.events)

MemoryOK ==
    /\ memory = [known |-> memory.known, written |-> memory.written,
                 initial |-> memory.initial, live |-> memory.live,
                 containers |-> memory.containers]
    /\ memory.known \in [Vpas -> {"no", "nothing", "selects"}]
    /\ memory.written \in [Vpas -> Nat]
    /\ DOMAIN memory.initial \subseteq Containers
    /\ \A c \in DOMAIN memory.initial : IsHistogram(memory.initial[c])
    /\ DOMAIN memory.live \subseteq Containers
    /\ \A c \in DOMAIN memory.live : IsHistogram(memory.live[c])
    /\ DOMAIN memory.containers \subseteq DOMAIN memory.live
    /\ \A c \in DOMAIN memory.containers : memory.containers[c] \in ContainerStates

LoopOK ==
    loop \in [pc : PCs, todo : Seq(Vpas), pending : SUBSET Containers, budget : Nat,
              start : Nat, expired : BOOLEAN]

TypeOK ==
    /\ now \in 1 .. MaxTime
    /\ ApiOK
    /\ streams \in [Sources -> Seq(Infos)]
    /\ channel \in Seq(Infos)
    /\ MemoryOK
    /\ LoopOK
    /\ recorded \subseteq Infos
    /\ forgotten \subseteq Containers
    /\ disturbed \subseteq Containers

\* Nothing is in memory before the checkpoints are restored; the checkpoints to be
\* written are of containers in the model, and none was written after this round
\* of writing has begun.
StagesOK ==
    /\ ~ Running => /\ DOMAIN memory.initial = {}
                    /\ DOMAIN memory.live = {}
    /\ ~ At("store") => loop.pending = {}
    /\ \A c \in loop.pending : c \in Aggregated(VpaOf[c])
    /\ \A c \in Containers : api.savedAt[c] <= now
    /\ At("store") => /\ loop.start <= now
                      /\ \A c \in Containers : api.savedAt[c] <= loop.start

\* The peak of the window a state is in.
Current(state) == <<state.windowEnd, GetMaxMemoryPeak(state)>>

\* The container has a window: it has had a sample since its pod was loaded.
InAWindow(c) == c \in DOMAIN memory.containers /\ memory.containers[c].windowEnd # 0

\* The window of a container began in the past and its peak is in the aggregation.
WindowOK(state, live) ==
    /\ state.windowEnd - Interval <= now
    /\ At("store") => state.windowEnd - Interval <= loop.start
    /\ state.windowEnd # 0 => Current(state) \in DOMAIN live

WindowsOK ==
    \A c \in DOMAIN memory.containers : WindowOK(memory.containers[c], memory.live[c])

\* OOMs were recorded for containers in the model, and count.
OOMsOK ==
    /\ \A info \in recorded : info.container \in DOMAIN memory.live
    /\ OOMCounted

\* The VPAs of what was restored, and of the checkpoints that are not forgotten,
\* are in the model.
KnownOK ==
    /\ \A c \in DOMAIN memory.initial : memory.known[VpaOf[c]] # "no"
    /\ Running => \A c \in DOMAIN api.saved \ forgotten : memory.known[VpaOf[c]] # "no"

\* What was gathered or restored, without the peak of the window of state, if open.
Gathered(open, state, live, initial) ==
    (live (+) initial)
        (-) (IF open THEN Peak(state.windowEnd, GetMaxMemoryPeak(state)) ELSE EmptyBag)

\* q is in it; or it is the peak of a window that had ended at the given time.
Stays(open, state, live, initial, at, q) ==
    \/ q \in DOMAIN Gathered(open, state, live, initial)
    \/ open /\ q = Current(state) /\ q[1] <= at

\* q will be in the next checkpoint of c: it was restored and the VPA selects
\* nothing; or it is not of the current window; or that had ended when the last
\* checkpoint was written.
Held(c, q) ==
    IF c \in DOMAIN memory.initial /\ memory.known[VpaOf[c]] = "nothing"
    THEN q \in DOMAIN memory.initial[c]
    ELSE Stays(InAWindow(c), memory.containers[c], Entries(memory.live, c),
               Entries(memory.initial, c), api.savedAt[c], q)

\* Each peak of a checkpoint is held, or a larger one of its window.
HistoryOK ==
    Running =>
        \A c \in DOMAIN api.saved \ forgotten : \A p \in DOMAIN api.saved[c] :
            \E q \in Peaks : Held(c, q) /\ q[1] = p[1] /\ q[2] >= p[2]

\* One copy of each peak, and windows that do not overlap.
Spread(h) ==
    \A p, q \in DOMAIN h :
        /\ h[p] = 1
        /\ p # q => p[1] - q[1] >= Interval \/ q[1] - p[1] >= Interval

\* The other peaks are of windows before the one of state.
Before(state, peaks) ==
    \A p \in peaks : p = Current(state) \/ p[1] <= state.windowEnd - Interval

\* What was saved or restored of c ended before the checkpoint was written, and what
\* was gathered or restored before the window that c is in.
SpreadAt(c) ==
    /\ Spread(Entries(memory.live, c) (+) Entries(memory.initial, c))
    /\ Spread(Entries(api.saved, c))
    /\ \A p \in DOMAIN Entries(api.saved, c) \cup DOMAIN Entries(memory.initial, c) :
           p[1] <= api.savedAt[c]
    /\ ~ InAWindow(c) => DOMAIN Entries(memory.live, c) = {}
    /\ InAWindow(c) =>
           Before(memory.containers[c],
                  DOMAIN Entries(memory.live, c) \cup DOMAIN Entries(memory.initial, c))

SpreadOK == \A c \in Containers \ disturbed : SpreadAt(c)

Inv ==
    /\ TypeOK
    /\ StagesOK
    /\ WindowsOK
    /\ OOMsOK
    /\ KnownOK
    /\ HistoryOK
    /\ SpreadOK

-----------------------------------------------------------------------------
(* What a sample does to a container.                                      *)

\* The numbers among the constants.
LEMMA Numbers ==
    /\ Interval \in Nat /\ Interval > 0
    /\ MaxTime \in Nat /\ MaxTime > 0
    /\ Request \in Nat /\ OOMBumpUp \in Nat
    /\ MinCheckpoints \in Nat /\ MaxUsage \in Nat
  BY NumbersAssumption

\* The larger peak of a state is a number not below either of its peaks.
LEMMA MaxPeakType ==
    ASSUME NEW state \in ContainerStates
    PROVE  /\ GetMaxMemoryPeak(state) \in Nat
           /\ GetMaxMemoryPeak(state) >= state.memoryPeak
           /\ GetMaxMemoryPeak(state) >= state.oomPeak
  BY DEF GetMaxMemoryPeak, Larger, ContainerStates

\* The sample opens no window and is not above the peak of the one there is.
Unmoved(s, h, s2, h2, time, usage) ==
    /\ s2.windowEnd = s.windowEnd
    /\ GetMaxMemoryPeak(s2) = GetMaxMemoryPeak(s)
    /\ h2 = h

\* It is above the peak of the window that the container is in, which is not zero.
Raised(s, h, s2, h2, time, usage) ==
    /\ s.windowEnd # 0
    /\ s2.windowEnd = s.windowEnd
    /\ GetMaxMemoryPeak(s) # 0 /\ usage > GetMaxMemoryPeak(s)
    /\ GetMaxMemoryPeak(s2) = usage
    /\ h2 = PeakReplaced(h, s.windowEnd, GetMaxMemoryPeak(s), usage)

\* It opens the window around its time.
Opened(s, h, s2, h2, time, usage) ==
    /\ s2.windowEnd # 0
    /\ GetMaxMemoryPeak(s2) = usage
    /\ h2 = h (+) Peak(s2.windowEnd, usage)
    /\ InWindow(time, <<s2.windowEnd, usage>>)
    /\ IF s.windowEnd = 0 THEN s2.windowEnd = time + Interval
                          ELSE s.windowEnd <= s2.windowEnd - Interval

Effect(s, h, s2, h2, time, usage) ==
    \/ Unmoved(s, h, s2, h2, time, usage)
    \/ Raised(s, h, s2, h2, time, usage)
    \/ Opened(s, h, s2, h2, time, usage)

\* The part of a time that exceeds whole intervals.
LEMMA Remainder ==
    ASSUME NEW n \in Nat
    PROVE  /\ n % Interval \in Nat
           /\ n % Interval < Interval
           /\ n % Interval <= n
<1>1. Interval \in Nat /\ Interval > 0
  BY Numbers
<1>2. n % Interval \in 0 .. Interval - 1
  BY <1>1
<1>3. n % Interval <= n
  BY <1>1, Z3
<1> QED
  BY <1>1, <1>2, <1>3

\* addMemorySample does one of the three, or has ignored a late sample.
LEMMA SampleEffect ==
    ASSUME NEW s \in ContainerStates, NEW h, NEW time \in Nat \ {0}, NEW usage \in Nat,
           NEW isOOM \in BOOLEAN
    PROVE  LET after == addMemorySample(s, h, time, usage, isOOM)
           IN  /\ after.state \in ContainerStates
               /\ Effect(s, h, after.state, after.live, time, usage)
               /\ isOOM /\ Unmoved(s, h, after.state, after.live, time, usage)
                    => \/ ~ (time < s.windowEnd)
                       \/ GetMaxMemoryPeak(s) = 0
                       \/ usage <= GetMaxMemoryPeak(s)
               /\ s.windowEnd = 0 /\ isOOM
                    => Opened(s, h, after.state, after.live, time, usage)
               /\ time >= s.windowEnd /\ isOOM
                    => Opened(s, h, after.state, after.live, time, usage)
<1> DEFINE end   == IF s.windowEnd = 0 THEN time ELSE s.windowEnd
           old   == GetMaxMemoryPeak(s)
           shift == time - end - ((time - end) % Interval) + Interval
           opens == time >= end
           next  == IF opens THEN end + shift ELSE end
           adds  == opens \/ (old # 0 /\ usage > old)
           state == [windowEnd  |-> next,
                     last       |-> time,
                     memoryPeak |-> IF adds /\ ~ isOOM THEN usage
                                    ELSE IF opens THEN 0 ELSE s.memoryPeak,
                     oomPeak    |-> IF adds /\ isOOM THEN usage
                                    ELSE IF opens THEN 0 ELSE s.oomPeak]
           live  == IF opens THEN h (+) Peak(next, usage)
                    ELSE IF adds THEN PeakReplaced(h, next, old, usage) ELSE h
           after == addMemorySample(s, h, time, usage, isOOM)
<1>1. after = IF ~ isOOM /\ time < s.last
              THEN [state |-> s, live |-> h] ELSE [state |-> state, live |-> live]
  BY DEF addMemorySample
<1>2. s.windowEnd \in Nat /\ s.memoryPeak \in Nat /\ s.oomPeak \in Nat /\ s.last \in Nat
  BY DEF ContainerStates
<1>3. end \in Nat \ {0} /\ (s.windowEnd = 0 => end = time)
                       /\ (s.windowEnd # 0 => end = s.windowEnd)
  BY <1>2
<1>4. Interval \in Nat /\ Interval > 0
  BY Numbers
<1>5. old \in Nat /\ old >= s.memoryPeak /\ old >= s.oomPeak
  BY MaxPeakType
<1> HIDE DEF end, old
<1>6. opens => /\ next \in Nat /\ next >= end + Interval
               /\ next - Interval <= time /\ time < next
               /\ (s.windowEnd = 0 => next = time + Interval)
  <2>1. SUFFICES ASSUME opens PROVE /\ next \in Nat /\ next >= end + Interval
                                    /\ next - Interval <= time /\ time < next
                                    /\ (s.windowEnd = 0 => next = time + Interval)
    OBVIOUS
  <2> DEFINE n == time - end
             r == n % Interval
  <2>2. n \in Nat /\ (s.windowEnd = 0 => n = 0)
    BY <1>3, <2>1
  <2>3. next = end + (n - r + Interval)
    BY <2>1
  <2>4. time = end + n
    BY <1>3
  <2> HIDE DEF n, next, opens
  <2>5. r \in Nat /\ r < Interval /\ r <= n
    BY <2>2, Remainder
  <2>6. n = 0 => r = 0
    BY <2>5, <2>2
  <2> HIDE DEF r
  <2> QED
    BY <1>3, <1>4, <2>2, <2>3, <2>4, <2>5, <2>6
<1>7. ~ opens => next = s.windowEnd /\ s.windowEnd # 0 /\ time < s.windowEnd
  BY <1>2, <1>3
<1>8. next \in Nat
  BY <1>2, <1>6, <1>7
<1>9. state \in ContainerStates /\ state.windowEnd = next
  BY <1>2, <1>8 DEF ContainerStates
<1>10. GetMaxMemoryPeak(state) = IF adds THEN usage ELSE old
  <2>1. state.memoryPeak = IF adds /\ ~ isOOM THEN usage
                           ELSE IF opens THEN 0 ELSE s.memoryPeak
    OBVIOUS
  <2>2. state.oomPeak = IF adds /\ isOOM THEN usage
                        ELSE IF opens THEN 0 ELSE s.oomPeak
    OBVIOUS
  <2>3. opens => adds
    OBVIOUS
  <2>4. adds /\ ~ opens => usage > old
    OBVIOUS
  <2>5. old = IF s.memoryPeak > s.oomPeak THEN s.memoryPeak ELSE s.oomPeak
    BY DEF old, GetMaxMemoryPeak, Larger
  <2> HIDE DEF state, adds, opens
  <2>6. GetMaxMemoryPeak(state) = IF state.memoryPeak > state.oomPeak
                                  THEN state.memoryPeak ELSE state.oomPeak
    BY DEF GetMaxMemoryPeak, Larger
  <2> QED
    BY <1>2, <1>5, <2>1, <2>2, <2>3, <2>4, <2>5, <2>6
<1>11. CASE ~ isOOM /\ time < s.last
  <2>1. after.state = s /\ after.live = h
    BY <1>1, <1>11
  <2> HIDE DEF after
  <2> QED
    BY <1>11, <2>1 DEF Effect, Unmoved, after
<1>12. CASE ~ (~ isOOM /\ time < s.last)
  <2>1. after.state = state /\ after.live = live
    BY <1>1, <1>12
  <2>2. opens => live = h (+) Peak(next, usage)
    OBVIOUS
  <2>3. ~ opens /\ adds => live = PeakReplaced(h, next, old, usage) /\ old # 0 /\ usage > old
    OBVIOUS
  <2>4. ~ opens /\ ~ adds => live = h /\ (old = 0 \/ usage <= old)
    BY <1>5
  <2>5. opens => adds
    OBVIOUS
  <2>6. time >= s.windowEnd => opens
    BY <1>2, <1>7
  <2> HIDE DEF after, state, live, adds, opens, next
  <2>7. opens => Opened(s, h, after.state, after.live, time, usage)
    BY <1>2, <1>3, <1>4, <1>6, <1>8, <1>9, <1>10, <2>1, <2>2, <2>5 DEF Opened, InWindow
  <2>8. ~ opens /\ adds => Raised(s, h, after.state, after.live, time, usage)
    BY <1>7, <1>9, <1>10, <2>1, <2>3 DEF Raised, old
  <2>9. ~ opens /\ ~ adds => /\ Unmoved(s, h, after.state, after.live, time, usage)
                             /\ GetMaxMemoryPeak(s) = 0 \/ usage <= GetMaxMemoryPeak(s)
    BY <1>7, <1>9, <1>10, <2>1, <2>4 DEF Unmoved, old
  <2>10. ~ opens /\ adds => ~ Unmoved(s, h, after.state, after.live, time, usage)
    BY <1>5, <1>10, <2>1, <2>3 DEF Unmoved, old
  <2>11. opens => ~ Unmoved(s, h, after.state, after.live, time, usage) \/ ~ (time < s.windowEnd)
    BY <1>2, <1>3, <1>4, <1>6, <1>9, <2>1 DEF Unmoved
  <2>12. s.windowEnd = 0 => opens
    BY <1>7
  <2> QED
    BY <1>9, <2>1, <2>6, <2>7, <2>8, <2>9, <2>10, <2>11, <2>12 DEF Effect, after
<1> QED
  BY <1>11, <1>12

\* The peak of a window.
LEMMA CurrentType ==
    ASSUME NEW s \in ContainerStates
    PROVE  /\ Current(s) \in Peaks
           /\ Current(s)[1] = s.windowEnd /\ Current(s)[2] = GetMaxMemoryPeak(s)
           /\ s.windowEnd \in Nat /\ GetMaxMemoryPeak(s) \in Nat
  BY MaxPeakType DEF Current, Peaks, ContainerStates

\* A peak that is raised is replaced by the higher one.
LEMMA RaisedCopies ==
    ASSUME NEW s \in ContainerStates, NEW h, IsHistogram(h), NEW s2 \in ContainerStates,
           NEW h2, NEW time, NEW usage \in Nat, Raised(s, h, s2, h2, time, usage),
           Current(s) \in DOMAIN h
    PROVE  /\ IsHistogram(h2)
           /\ \A p : Copies(p, h2) = Copies(p, h) - One(p, Current(s)) + One(p, Current(s2))
           /\ Current(s2)[1] = Current(s)[1] /\ Current(s2)[2] > Current(s)[2]
<1> DEFINE old == Peak(s.windowEnd, GetMaxMemoryPeak(s))
           new == Peak(s.windowEnd, usage)
<1>1. s.windowEnd \in Nat /\ GetMaxMemoryPeak(s) \in Nat
  BY CurrentType
<1>2. h2 = (h (-) old) (+) new
  BY DEF Raised, PeakReplaced
<1>3. Current(s2) = <<s.windowEnd, usage>> /\ usage > GetMaxMemoryPeak(s)
  BY DEF Raised, Current
<1>4. Current(s) = <<s.windowEnd, GetMaxMemoryPeak(s)>>
  BY DEF Current
<1>5. IsHistogram(old) /\ \A p : Copies(p, old) = One(p, Current(s))
  BY <1>1, <1>4, CopiesInPeak
<1>6. IsHistogram(new) /\ \A p : Copies(p, new) = One(p, Current(s2))
  BY <1>1, <1>3, CopiesInPeak
<1> HIDE DEF old, new
<1> DEFINE rest == h (-) old
<1>7. /\ IsHistogram(rest)
      /\ \A p : Copies(p, rest) = IF Copies(p, h) > Copies(p, old)
                                  THEN Copies(p, h) - Copies(p, old) ELSE 0
  BY <1>5, CopiesInRest
<1> HIDE DEF rest
<1>8. \A p : Copies(p, rest) = Copies(p, h) - One(p, Current(s))
  <2> SUFFICES ASSUME NEW p PROVE Copies(p, rest) = Copies(p, h) - One(p, Current(s))
    OBVIOUS
  <2>1. Copies(p, h) \in Nat /\ (p = Current(s) => Copies(p, h) >= 1)
    BY CopiesOfPeak DEF IsHistogram
  <2> QED
    BY <1>5, <1>7, <2>1 DEF One
<1>9. /\ IsHistogram(h2)
      /\ \A p : Copies(p, h2) = Copies(p, rest) + Copies(p, new)
  BY <1>2, <1>6, <1>7, CopiesInMerge DEF rest
<1>10. \A p : Copies(p, h2) = Copies(p, h) - One(p, Current(s)) + One(p, Current(s2))
  BY <1>6, <1>8, <1>9
<1> QED
  BY <1>1, <1>3, <1>4, <1>9, <1>10

\* A window that opens adds its peak.
LEMMA OpenedCopies ==
    ASSUME NEW s \in ContainerStates, NEW h, IsHistogram(h), NEW s2 \in ContainerStates,
           NEW h2, NEW time, NEW usage \in Nat, Opened(s, h, s2, h2, time, usage)
    PROVE  /\ IsHistogram(h2)
           /\ \A p : Copies(p, h2) = Copies(p, h) + One(p, Current(s2))
<1>1. s2.windowEnd \in Nat /\ Current(s2) = <<s2.windowEnd, usage>>
  BY CurrentType DEF Opened, Current
<1>2. /\ IsHistogram(Peak(s2.windowEnd, usage))
      /\ \A p : Copies(p, Peak(s2.windowEnd, usage)) = One(p, Current(s2))
  BY <1>1, CopiesInPeak
<1>3. h2 = h (+) Peak(s2.windowEnd, usage)
  BY DEF Opened
<1> QED
  BY <1>2, <1>3, CopiesInMerge

\* Peaks of zero are in both.
ZerosKept(new, old) == \A p \in DOMAIN old : p[2] = 0 => p \in DOMAIN new

\* A sample leaves a histogram that covers the one before, with the peak of the window.
LEMMA EffectCovers ==
    ASSUME NEW s \in ContainerStates, NEW h, IsHistogram(h), NEW s2 \in ContainerStates,
           NEW h2, NEW time, NEW usage \in Nat, Effect(s, h, s2, h2, time, usage),
           s.windowEnd # 0 => Current(s) \in DOMAIN h
    PROVE  /\ IsHistogram(h2)
           /\ Covers(h2, h) /\ ZerosKept(h2, h)
           /\ s2.windowEnd # 0 => Current(s2) \in DOMAIN h2
<1>1. \A p \in DOMAIN h : p \in Peaks /\ p[1] \in Nat /\ p[2] \in Nat
  BY DEF IsHistogram, Peaks
<1>2. CASE Unmoved(s, h, s2, h2, time, usage)
  BY <1>1, <1>2 DEF Unmoved, Covers, ZerosKept, Current
<1>3. CASE Raised(s, h, s2, h2, time, usage)
  <2>1. s.windowEnd # 0
    BY <1>3 DEF Raised
  <2>2. /\ IsHistogram(h2)
        /\ \A p : Copies(p, h2) = Copies(p, h) - One(p, Current(s)) + One(p, Current(s2))
        /\ Current(s2)[1] = Current(s)[1] /\ Current(s2)[2] > Current(s)[2]
    BY <1>3, <2>1, RaisedCopies
  <2>3. Current(s2) \in DOMAIN h2
    <3>1. Copies(Current(s2), h) \in Nat /\ Current(s2) # Current(s)
      BY CurrentType, CopiesOfPeak, <2>2 DEF IsHistogram
    <3>2. Copies(Current(s2), h2) >= 1
      BY <2>2, <3>1 DEF One
    <3> QED
      BY <2>2, <3>2, CopiesOfPeak DEF IsHistogram
  <2>4. ASSUME NEW p \in DOMAIN h, p # Current(s) PROVE p \in DOMAIN h2
    <3>1. Copies(p, h) \in Nat /\ Copies(p, h) >= 1
      BY CopiesOfPeak DEF IsHistogram
    <3>2. Copies(p, h2) >= 1
      BY <2>2, <2>4, <3>1 DEF One
    <3> QED
      BY <2>2, <3>2, CopiesOfPeak DEF IsHistogram
  <2>5. Current(s2)[2] >= Current(s)[2]
    BY <2>2, CurrentType
  <2>6. Covers(h2, h)
    BY <1>1, <2>2, <2>3, <2>4, <2>5 DEF Covers
  <2>7. ZerosKept(h2, h)
    BY <1>3, <2>4, CurrentType DEF Raised, ZerosKept
  <2> QED
    BY <2>2, <2>3, <2>6, <2>7
<1>4. CASE Opened(s, h, s2, h2, time, usage)
  <2>1. /\ IsHistogram(h2)
        /\ \A p : Copies(p, h2) = Copies(p, h) + One(p, Current(s2))
    BY <1>4, OpenedCopies
  <2>2. ASSUME NEW p, p \in DOMAIN h \/ p = Current(s2) PROVE p \in DOMAIN h2
    <3>1. Copies(p, h) \in Nat /\ (p \in DOMAIN h => Copies(p, h) >= 1)
      BY CopiesOfPeak DEF IsHistogram
    <3>2. Copies(p, h2) >= 1
      BY <2>1, <2>2, <3>1 DEF One
    <3> QED
      BY <2>1, <3>2, CopiesOfPeak DEF IsHistogram
  <2>3. Covers(h2, h) /\ ZerosKept(h2, h)
    BY <1>1, <2>2 DEF Covers, ZerosKept
  <2> QED
    BY <2>1, <2>2, <2>3
<1> QED
  BY <1>2, <1>3, <1>4 DEF Effect

\* Gathered has the peaks with a copy besides that of the open window.
LEMMA GatheredCopies ==
    ASSUME NEW open \in BOOLEAN, NEW s, open => s \in ContainerStates,
           NEW live, IsHistogram(live), NEW initial, IsHistogram(initial)
    PROVE  /\ IsHistogram(Gathered(open, s, live, initial))
           /\ \A p : p \in DOMAIN Gathered(open, s, live, initial) <=>
                  Copies(p, live) + Copies(p, initial) > IF open THEN One(p, Current(s)) ELSE 0
           /\ \A p : Copies(p, Gathered(open, s, live, initial))
                       <= Copies(p, live) + Copies(p, initial)
<1> DEFINE all == live (+) initial
           current == IF open THEN Peak(s.windowEnd, GetMaxMemoryPeak(s)) ELSE EmptyBag
           g == all (-) current
<1>1. IsHistogram(all) /\ \A p : Copies(p, all) = Copies(p, live) + Copies(p, initial)
  BY CopiesInMerge
<1>2. /\ IsHistogram(current)
      /\ \A p : Copies(p, current) = IF open THEN One(p, Current(s)) ELSE 0
  <2>1. CASE open
    <3>1. s.windowEnd \in Nat /\ GetMaxMemoryPeak(s) \in Nat
      BY <2>1, CurrentType
    <3> QED
      BY <2>1, <3>1, CopiesInPeak DEF Current
  <2>2. CASE ~ open
    BY <2>2, CopiesInEmpty
  <2> QED
    BY <2>1, <2>2
<1>3. Gathered(open, s, live, initial) = g
  BY DEF Gathered
<1> HIDE DEF all, current
<1>4. /\ IsHistogram(g)
      /\ \A p : Copies(p, g) = IF Copies(p, all) > Copies(p, current)
                               THEN Copies(p, all) - Copies(p, current) ELSE 0
  BY <1>1, <1>2, CopiesInRest
<1> HIDE DEF g
<1>5. ASSUME NEW p PROVE /\ p \in DOMAIN g <=> Copies(p, all) > Copies(p, current)
                         /\ Copies(p, g) <= Copies(p, all)
  <2>1. Copies(p, all) \in Nat /\ Copies(p, current) \in Nat
    BY <1>1, <1>2, CopiesOfPeak DEF IsHistogram
  <2>2. p \in DOMAIN g <=> Copies(p, g) >= 1
    BY <1>4, CopiesOfPeak DEF IsHistogram
  <2> QED
    BY <1>4, <2>1, <2>2
<1> QED
  BY <1>1, <1>2, <1>3, <1>4, <1>5

\* Copies of a peak are numbers.
LEMMA CopiesType ==
    ASSUME NEW h, IsHistogram(h)
    PROVE  \A p : Copies(p, h) \in Nat /\ (p \in DOMAIN h <=> Copies(p, h) >= 1)
  BY CopiesOfPeak DEF IsHistogram

\* After a sample, a peak that stays in the checkpoints stays, or a larger one does.
LEMMA EffectStays ==
    ASSUME NEW s \in ContainerStates, NEW h, IsHistogram(h), NEW s2 \in ContainerStates,
           NEW h2, NEW time, NEW usage \in Nat, Effect(s, h, s2, h2, time, usage),
           s.windowEnd # 0 => Current(s) \in DOMAIN h,
           NEW initial, IsHistogram(initial), NEW at \in Nat, NEW q \in Peaks,
           Stays(s.windowEnd # 0, s, h, initial, at, q)
    PROVE  \E r \in Peaks : /\ Stays(s2.windowEnd # 0, s2, h2, initial, at, r)
                            /\ r[1] = q[1] /\ r[2] >= q[2]
<1> DEFINE open == s.windowEnd # 0
           open2 == s2.windowEnd # 0
           before == Gathered(open, s, h, initial)
           after == Gathered(open2, s2, h2, initial)
<1>0. q[1] \in Nat /\ q[2] \in Nat
  BY DEF Peaks
<1>1. IsHistogram(h2)
  BY EffectCovers
<1>2. \A p : p \in DOMAIN before <=>
          Copies(p, h) + Copies(p, initial) > IF open THEN One(p, Current(s)) ELSE 0
  BY GatheredCopies
<1>3. \A p : p \in DOMAIN after <=>
          Copies(p, h2) + Copies(p, initial) > IF open2 THEN One(p, Current(s2)) ELSE 0
  BY <1>1, GatheredCopies
<1>4. \A p : Copies(p, h) \in Nat /\ Copies(p, initial) \in Nat /\ One(p, Current(s)) \in {0, 1}
          /\ One(p, Current(s2)) \in {0, 1} /\ (p \in DOMAIN h <=> Copies(p, h) >= 1)
  BY CopiesType DEF One
<1>5. q \in DOMAIN before \/ (open /\ q = Current(s) /\ q[1] <= at)
  BY DEF Stays
<1>6. \A r : r \in DOMAIN after \/ (open2 /\ r = Current(s2) /\ r[1] <= at)
          => Stays(s2.windowEnd # 0, s2, h2, initial, at, r)
  BY DEF Stays
<1>7. Current(s) \in Peaks /\ Current(s2) \in Peaks
  BY CurrentType
<1> HIDE DEF before, after
<1>8. CASE Unmoved(s, h, s2, h2, time, usage)
  <2>1. h2 = h /\ Current(s2) = Current(s) /\ (open2 <=> open)
    BY <1>8 DEF Unmoved, Current
  <2>2. q \in DOMAIN after \/ (open2 /\ q = Current(s2) /\ q[1] <= at)
    BY <1>2, <1>3, <1>5, <2>1
  <2> QED
    BY <1>0, <1>6, <2>2
<1>9. CASE Raised(s, h, s2, h2, time, usage)
  <2>1. open /\ open2
    BY <1>9 DEF Raised
  <2>2. /\ \A p : Copies(p, h2) = Copies(p, h) - One(p, Current(s)) + One(p, Current(s2))
        /\ Current(s2)[1] = Current(s)[1] /\ Current(s2)[2] > Current(s)[2]
    BY <1>9, <2>1, RaisedCopies
  <2>3. CASE q \in DOMAIN before
    <3>1. q \in DOMAIN after
      BY <1>2, <1>3, <1>4, <2>1, <2>2, <2>3
    <3> QED
      BY <1>0, <1>6, <3>1
  <2>4. CASE q = Current(s) /\ q[1] <= at
    <3>1. Current(s2)[2] >= q[2]
      BY <2>2, <2>4, CurrentType
    <3> QED
      BY <1>6, <1>7, <2>1, <2>2, <2>4, <3>1
  <2> QED
    BY <1>5, <2>3, <2>4
<1>10. CASE Opened(s, h, s2, h2, time, usage)
  <2>1. open2
    BY <1>10 DEF Opened
  <2>2. \A p : Copies(p, h2) = Copies(p, h) + One(p, Current(s2))
    BY <1>10, OpenedCopies
  <2>3. Copies(q, h) + Copies(q, initial) > 0
    <3>1. CASE q \in DOMAIN before
      BY <1>2, <1>4, <3>1
    <3>2. CASE open /\ q = Current(s)
      BY <1>4, <3>2
    <3> QED
      BY <1>5, <3>1, <3>2
  <2>4. q \in DOMAIN after
    BY <1>3, <1>4, <2>1, <2>2, <2>3
  <2> QED
    BY <1>0, <1>6, <2>4
<1> QED
  BY <1>8, <1>9, <1>10 DEF Effect

\* What a histogram is spread means by copies.
LEMMA SpreadCopies ==
    ASSUME NEW h, IsHistogram(h)
    PROVE  Spread(h) <=>
               \A p, q : Copies(p, h) >= 1 /\ Copies(q, h) >= 1 =>
                   /\ Copies(p, h) = 1
                   /\ p # q => p[1] - q[1] >= Interval \/ q[1] - p[1] >= Interval
<1>1. \A p : Copies(p, h) \in Nat /\ (p \in DOMAIN h <=> Copies(p, h) >= 1)
  BY CopiesType
<1>2. \A p \in DOMAIN h : Copies(p, h) = h[p]
  BY DEF Copies
<1> QED
  BY <1>1, <1>2 DEF Spread

\* A part of a spread histogram is spread.
LEMMA PartSpread ==
    ASSUME NEW g, IsHistogram(g), NEW h, IsHistogram(h), Spread(h),
           \A p : Copies(p, g) <= Copies(p, h)
    PROVE  Spread(g) /\ DOMAIN g \subseteq DOMAIN h
<1>1. \A p : /\ Copies(p, g) \in Nat /\ (p \in DOMAIN g <=> Copies(p, g) >= 1)
             /\ Copies(p, h) \in Nat /\ (p \in DOMAIN h <=> Copies(p, h) >= 1)
  BY CopiesType
<1>2. \A p, q : Copies(p, h) >= 1 /\ Copies(q, h) >= 1 =>
          /\ Copies(p, h) = 1
          /\ p # q => p[1] - q[1] >= Interval \/ q[1] - p[1] >= Interval
  BY SpreadCopies
<1>3. ASSUME NEW p, NEW q, Copies(p, g) >= 1 /\ Copies(q, g) >= 1
      PROVE  /\ Copies(p, g) = 1
             /\ p # q => p[1] - q[1] >= Interval \/ q[1] - p[1] >= Interval
  <2>1. /\ Copies(p, g) \in Nat /\ Copies(q, g) \in Nat
        /\ Copies(p, h) \in Nat /\ Copies(q, h) \in Nat
    BY <1>1
  <2>2. Copies(p, g) <= Copies(p, h) /\ Copies(q, g) <= Copies(q, h)
    OBVIOUS
  <2>3. Copies(p, h) >= 1 /\ Copies(q, h) >= 1
    BY <1>3, <2>1, <2>2
  <2>4. Copies(p, h) = 1 /\ (p # q => p[1] - q[1] >= Interval \/ q[1] - p[1] >= Interval)
    BY <1>2, <2>3
  <2> QED
    BY <1>3, <2>1, <2>2, <2>4
<1>4. Spread(g)
  BY <1>3, SpreadCopies
<1>5. DOMAIN g \subseteq DOMAIN h
  <2>1. ASSUME NEW p \in DOMAIN g PROVE p \in DOMAIN h
    BY <1>1
  <2> QED
    BY <2>1
<1> QED
  BY <1>4, <1>5

\* A spread histogram with one more peak, later than all of its peaks, is spread.
LEMMA LaterSpread ==
    ASSUME NEW g, IsHistogram(g), Spread(g), NEW h, IsHistogram(h), NEW x \in Peaks,
           \A p : Copies(p, h) = Copies(p, g) + One(p, x),
           \A p \in DOMAIN g : p[1] <= x[1] - Interval
    PROVE  /\ Spread(h)
           /\ \A p \in DOMAIN h : p = x \/ p[1] <= x[1] - Interval
<1>1. \A p : /\ Copies(p, g) \in Nat /\ (p \in DOMAIN g <=> Copies(p, g) >= 1)
             /\ Copies(p, h) \in Nat /\ (p \in DOMAIN h <=> Copies(p, h) >= 1)
  BY CopiesType
<1>2. \A p, q : Copies(p, g) >= 1 /\ Copies(q, g) >= 1 =>
          /\ Copies(p, g) = 1
          /\ p # q => p[1] - q[1] >= Interval \/ q[1] - p[1] >= Interval
  BY SpreadCopies
<1>3. x[1] \in Nat /\ Interval \in Nat /\ Interval > 0
  BY Numbers DEF Peaks
<1>4. Copies(x, g) = 0
  BY <1>1, <1>3
<1>5. Copies(x, h) = 1
  BY <1>4 DEF One
<1>6. ASSUME NEW p, p # x PROVE Copies(p, h) = Copies(p, g)
  BY <1>1, <1>6 DEF One
<1>7. ASSUME NEW p, Copies(p, h) >= 1, p # x
      PROVE  /\ Copies(p, g) >= 1 /\ p \in DOMAIN g
             /\ p[1] \in Nat /\ p[1] <= x[1] - Interval
  BY <1>1, <1>6, <1>7 DEF IsHistogram, Peaks
<1>8. ASSUME NEW p, NEW q, Copies(p, h) >= 1 /\ Copies(q, h) >= 1
      PROVE  /\ Copies(p, h) = 1
             /\ p # q => p[1] - q[1] >= Interval \/ q[1] - p[1] >= Interval
  <2>1. Copies(p, h) = 1
    BY <1>2, <1>5, <1>6, <1>7, <1>8
  <2>2. CASE p = x /\ q # x
    BY <1>3, <1>7, <1>8, <2>1, <2>2
  <2>3. CASE q = x /\ p # x
    BY <1>3, <1>7, <1>8, <2>1, <2>3
  <2>4. CASE p # x /\ q # x
    BY <1>2, <1>7, <1>8, <2>1, <2>4
  <2> QED
    BY <2>1, <2>2, <2>3, <2>4
<1>9. Spread(h)
  BY <1>8, SpreadCopies
<1> QED
  BY <1>1, <1>7, <1>9

\* A sample that is not older than what was restored keeps the peaks spread.
LEMMA EffectSpread ==
    ASSUME NEW s \in ContainerStates, NEW h, IsHistogram(h), NEW s2 \in ContainerStates,
           NEW h2, NEW time \in Nat, NEW usage \in Nat, Effect(s, h, s2, h2, time, usage),
           s.windowEnd # 0 => Current(s) \in DOMAIN h,
           NEW initial, IsHistogram(initial),
           s.windowEnd = 0 => DOMAIN h = {},
           s.windowEnd # 0 => Before(s, DOMAIN h \cup DOMAIN initial),
           s.windowEnd = 0 => \A p \in DOMAIN initial : p[1] <= time,
           Spread(h (+) initial)
    PROVE  /\ Spread(h2 (+) initial)
           /\ s2.windowEnd = 0 => DOMAIN h2 = {}
           /\ s2.windowEnd # 0 => Before(s2, DOMAIN h2 \cup DOMAIN initial)
<1> DEFINE g == h (+) initial
           k == h2 (+) initial
<1>1. /\ IsHistogram(g) /\ DOMAIN g = DOMAIN h \cup DOMAIN initial
      /\ \A p : Copies(p, g) = Copies(p, h) + Copies(p, initial)
  BY CopiesInMerge
<1>2. IsHistogram(h2)
  BY EffectCovers
<1>3. /\ IsHistogram(k) /\ DOMAIN k = DOMAIN h2 \cup DOMAIN initial
      /\ \A p : Copies(p, k) = Copies(p, h2) + Copies(p, initial)
  BY <1>2, CopiesInMerge
<1>4. \A p : Copies(p, h) \in Nat /\ Copies(p, initial) \in Nat /\ Copies(p, h2) \in Nat
          /\ One(p, Current(s)) \in {0, 1} /\ One(p, Current(s2)) \in {0, 1}
          /\ (p \in DOMAIN h <=> Copies(p, h) >= 1)
  BY <1>2, CopiesType DEF One
<1>5. /\ s.windowEnd \in Nat /\ s2.windowEnd \in Nat
      /\ Current(s)[1] = s.windowEnd /\ Current(s2)[1] = s2.windowEnd
      /\ Current(s2) \in Peaks
  BY CurrentType
<1>6. Interval \in Nat /\ Interval > 0
  BY Numbers
<1>7. \A p \in DOMAIN g : p[1] \in Nat
  BY <1>1 DEF IsHistogram, Peaks
<1> HIDE DEF g, k
<1>8. CASE Unmoved(s, h, s2, h2, time, usage)
  BY <1>8 DEF Unmoved, Before, Current
<1>9. CASE Raised(s, h, s2, h2, time, usage)
  <2>1. s.windowEnd # 0 /\ s2.windowEnd = s.windowEnd
    BY <1>9 DEF Raised
  <2>2. \A p : Copies(p, h2) = Copies(p, h) - One(p, Current(s)) + One(p, Current(s2))
    BY <1>9, <2>1, RaisedCopies
  <2> DEFINE rest == Gathered(TRUE, s, h, initial)
             old == Peak(s.windowEnd, GetMaxMemoryPeak(s))
  <2>3. IsHistogram(old) /\ \A p : Copies(p, old) = One(p, Current(s))
    BY CurrentType, CopiesInPeak DEF Current
  <2>4. rest = g (-) old
    BY DEF Gathered, g
  <2> HIDE DEF rest, old
  <2>5. /\ IsHistogram(rest)
        /\ \A p : Copies(p, rest) = IF Copies(p, g) > Copies(p, old)
                                    THEN Copies(p, g) - Copies(p, old) ELSE 0
    BY <1>1, <2>3, <2>4, CopiesInRest
  <2>6. \A p : Copies(p, rest) = Copies(p, g) - One(p, Current(s))
    <3> SUFFICES ASSUME NEW p PROVE Copies(p, rest) = Copies(p, g) - One(p, Current(s))
      OBVIOUS
    <3>1. Copies(p, g) \in Nat /\ (p = Current(s) => Copies(p, g) >= 1)
      BY <1>1, <1>4, <2>1
    <3> QED
      BY <2>3, <2>5, <3>1 DEF One
  <2>7. Spread(rest) /\ DOMAIN rest \subseteq DOMAIN g
    <3>1. \A p : Copies(p, rest) <= Copies(p, g)
      BY <1>1, <1>4, <2>6
    <3> QED
      BY <1>1, <2>5, <3>1, PartSpread DEF g
  <2>8. Current(s) \notin DOMAIN rest
    <3>1. Copies(Current(s), g) = 1
      <4>1. Current(s) \in DOMAIN g
        BY <1>1, <2>1
      <4>2. g[Current(s)] = 1
        BY <4>1 DEF Spread, g
      <4> QED
        BY <4>1, <4>2 DEF Copies
    <3>2. Copies(Current(s), rest) = 0
      BY <2>6, <3>1 DEF One
    <3> QED
      BY <2>5, <3>2, CopiesType
  <2>9. \A p \in DOMAIN rest : p[1] <= Current(s2)[1] - Interval
    BY <1>1, <1>5, <2>1, <2>7, <2>8 DEF Before
  <2>10. \A p : Copies(p, k) = Copies(p, rest) + One(p, Current(s2))
    BY <1>1, <1>3, <1>4, <2>2, <2>6
  <2>11. Spread(k) /\ \A p \in DOMAIN k : p = Current(s2) \/ p[1] <= Current(s2)[1] - Interval
    BY <1>3, <1>5, <2>5, <2>7, <2>9, <2>10, LaterSpread
  <2> QED
    BY <1>3, <1>5, <2>1, <2>11 DEF Before, k
<1>10. CASE Opened(s, h, s2, h2, time, usage)
  <2>1. \A p : Copies(p, h2) = Copies(p, h) + One(p, Current(s2))
    BY <1>10, OpenedCopies
  <2>2. ASSUME NEW p PROVE Copies(p, k) = Copies(p, g) + One(p, Current(s2))
    <3>1. Copies(p, k) = (Copies(p, h) + One(p, Current(s2))) + Copies(p, initial)
      BY <1>3, <2>1
    <3>2. Copies(p, g) = Copies(p, h) + Copies(p, initial)
      BY <1>1
    <3>3. Copies(p, h) \in Nat /\ Copies(p, initial) \in Nat /\ One(p, Current(s2)) \in Nat
      BY <1>4
    <3> QED
      BY <3>1, <3>2, <3>3
  <2>3. ASSUME NEW p \in DOMAIN g PROVE p[1] <= Current(s2)[1] - Interval
    <3>1. CASE s.windowEnd = 0
      <4>1. p[1] <= time /\ s2.windowEnd = time + Interval
        BY <1>1, <1>10, <3>1 DEF Opened
      <4> QED
        BY <1>5, <1>6, <1>7, <4>1
    <3>2. CASE s.windowEnd # 0
      <4>1. s.windowEnd <= s2.windowEnd - Interval
        BY <1>10, <3>2 DEF Opened
      <4>2. p[1] = s.windowEnd \/ p[1] <= s.windowEnd - Interval
        BY <1>1, <1>5, <3>2 DEF Before
      <4> QED
        BY <1>5, <1>6, <1>7, <4>1, <4>2
    <3> QED
      BY <3>1, <3>2
  <2>4. Spread(g)
    BY DEF g
  <2>5. Spread(k) /\ \A p \in DOMAIN k : p = Current(s2) \/ p[1] <= Current(s2)[1] - Interval
    BY <1>1, <1>3, <1>5, <2>2, <2>3, <2>4, LaterSpread
  <2>6. s2.windowEnd # 0
    BY <1>10 DEF Opened
  <2> QED
    BY <1>3, <1>5, <2>5, <2>6 DEF Before, k
<1> QED
  BY <1>8, <1>9, <1>10 DEF Effect

-----------------------------------------------------------------------------
(* Steps that leave the memory alone.                                      *)

\* The first state.
LEMMA InitInv == Init => Inv
<1> SUFFICES ASSUME Init PROVE Inv
  OBVIOUS
<1>0. /\ now = 1 /\ streams = [s \in Sources |-> <<>>] /\ channel = <<>>
      /\ memory = NewMemory /\ loop = NewLoop
      /\ forgotten = {} /\ disturbed = {} /\ recorded = {}
  BY DEF Init
<1>1. /\ api = [vpas |-> Vpas, saved |-> EmptyMap, savedAt |-> [c \in Containers |-> 0],
                events |-> {}]
      /\ api.vpas = Vpas /\ api.saved = EmptyMap
      /\ api.savedAt = [c \in Containers |-> 0] /\ api.events = {}
  BY DEF Init
<1>2. DOMAIN EmptyMap = {}
  BY DEF EmptyMap
<1>3. /\ memory.known = [v \in Vpas |-> "no"] /\ memory.written = [v \in Vpas |-> 0]
      /\ memory.initial = EmptyMap /\ memory.live = EmptyMap
      /\ memory.containers = EmptyMap
  BY <1>0 DEF NewMemory
<1>4. ApiOK
  BY <1>1, <1>2, FS_EmptySet DEF ApiOK
<1>5. MemoryOK
  BY <1>0, <1>2, <1>3 DEF MemoryOK, NewMemory
<1>6. LoopOK
  BY <1>0 DEF LoopOK, NewLoop, PCs
<1>7. TypeOK
  BY <1>0, <1>4, <1>5, <1>6, Numbers DEF TypeOK
<1>8. loop.pc = "init" /\ loop.pending = {}
  BY <1>0 DEF NewLoop
<1>9. StagesOK
  BY <1>0, <1>1, <1>2, <1>3, <1>8 DEF StagesOK, Running, At
<1>10. WindowsOK /\ KnownOK /\ HistoryOK
  BY <1>1, <1>2, <1>3, <1>8 DEF WindowsOK, KnownOK, HistoryOK, Running
<1>11. OOMsOK
  BY <1>0 DEF OOMsOK, OOMCounted
<1>12. SpreadOK
  <2> SUFFICES ASSUME NEW c \in Containers PROVE SpreadAt(c)
    BY DEF SpreadOK
  <2>1. /\ Entries(memory.live, c) = EmptyBag /\ Entries(memory.initial, c) = EmptyBag
        /\ Entries(api.saved, c) = EmptyBag
    BY <1>1, <1>2, <1>3 DEF Entries
  <2>2. DOMAIN EmptyBag = {} /\ DOMAIN (EmptyBag (+) EmptyBag) = {}
    BY CopiesInEmpty, CopiesInMerge
  <2>3. ~ InAWindow(c)
    BY <1>2, <1>3 DEF InAWindow
  <2> QED
    BY <2>1, <2>2, <2>3 DEF SpreadAt, Spread
<1> QED
  BY <1>7, <1>9, <1>10, <1>11, <1>12 DEF Inv

\* OOMs that have happened stay so as the time goes on.
LEMMA InfosGrow ==
    ASSUME now \in Nat, now' \in Nat, now <= now'
    PROVE  Infos \subseteq Infos'
  BY DEF Infos

\* A step that only moves the loop from one part of RunOnce to another.
LoopMoves ==
    /\ Running' <=> Running
    /\ ~ At("store") /\ ~ At("store")'
    /\ loop'.pending = {}

\* A step that changes neither the memory nor a checkpoint.
LEMMA QuietStep ==
    ASSUME Inv, TypeOK', UNCHANGED <<memory, forgotten, disturbed, recorded>>,
           api'.saved = api.saved, api'.savedAt = api.savedAt, now <= now',
           loop' = loop \/ LoopMoves
    PROVE  Inv'
<1>1. now \in Nat /\ now' \in Nat /\ \A c \in Containers : api.savedAt[c] \in Nat
  BY DEF Inv, TypeOK, ApiOK
<1>2. loop.start \in Nat
  BY DEF Inv, TypeOK, LoopOK
<1>3. (Running' <=> Running) /\ (At("store")' => At("store") /\ loop' = loop)
  BY DEF LoopMoves, Running, At
<1>4. StagesOK'
  <2>1. \A c \in Containers : api.savedAt[c] <= now'
    BY <1>1 DEF Inv, StagesOK
  <2>2. \A c \in loop'.pending : c \in Aggregated(VpaOf[c])'
    BY DEF Inv, StagesOK, Aggregated, MatchesVPA, LoopMoves
  <2>3. ~ At("store")' => loop'.pending = {}
    BY DEF Inv, StagesOK, LoopMoves, At
  <2>4. At("store")' => /\ loop'.start <= now'
                        /\ \A c \in Containers : api.savedAt[c] <= loop'.start
    BY <1>1, <1>2, <1>3 DEF Inv, StagesOK
  <2> QED
    BY <1>3, <2>1, <2>2, <2>3, <2>4 DEF Inv, StagesOK
<1>5. WindowsOK'
  <2> SUFFICES ASSUME NEW c \in DOMAIN memory.containers
               PROVE  WindowOK(memory.containers[c], memory.live[c])'
    BY DEF WindowsOK
  <2>1. WindowOK(memory.containers[c], memory.live[c])
    BY DEF Inv, WindowsOK
  <2>2. memory.containers[c].windowEnd \in Nat /\ Interval \in Nat
    BY Numbers DEF Inv, TypeOK, MemoryOK, ContainerStates
  <2> QED
    BY <1>1, <1>3, <2>1, <2>2 DEF WindowOK
<1>6. OOMsOK'
  BY DEF Inv, OOMsOK, OOMCounted
<1>7. KnownOK'
  BY <1>3 DEF Inv, KnownOK
<1>8. HistoryOK'
  BY <1>3 DEF Inv, HistoryOK, Held, InAWindow
<1>9. SpreadOK'
  BY DEF Inv, SpreadOK, SpreadAt, InAWindow
<1> QED
  BY <1>4, <1>5, <1>6, <1>7, <1>8, <1>9 DEF Inv

\* A sequence over a set is one over a larger set.
LEMMA SeqGrows ==
    ASSUME NEW S, NEW T, S \subseteq T, NEW q \in Seq(S)
    PROVE  q \in Seq(T)
<1>1. Len(q) \in Nat /\ q \in [1 .. Len(q) -> S]
  OBVIOUS
<1>2. q \in [1 .. Len(q) -> T]
  BY <1>1
<1> QED
  BY <1>1, <1>2

\* A watch reports OOMs that have happened.
LEMMA ReplaysType ==
    ASSUME TypeOK, NEW q \in Replays
    PROVE  q \in Seq(Infos)
<1>1. Cardinality(api.events) \in Nat
  BY FS_CardinalityType DEF TypeOK, ApiOK
<1>2. q \in [1 .. Cardinality(api.events) -> api.events] /\ api.events \subseteq Infos
  BY DEF Replays, TypeOK, ApiOK
<1> HIDE DEF Infos
<1>3. q \in Seq(api.events)
  BY <1>1, <1>2
<1> QED
  BY <1>2, <1>3, SeqGrows

\* TypeOK when the time and the environment have moved on.
LEMMA QuietTypes ==
    ASSUME TypeOK, now' \in 1 .. MaxTime, now <= now', ApiOK',
           streams' \in [Sources -> Seq(Infos)], channel' \in Seq(Infos),
           UNCHANGED <<memory, forgotten, disturbed, recorded>>, LoopOK'
    PROVE  TypeOK'
<1>1. Infos \subseteq Infos'
  BY Numbers, InfosGrow DEF TypeOK
<1> DEFINE I == Infos
           J == Infos'
<1>2. I \subseteq J /\ streams' \in [Sources -> Seq(I)] /\ channel' \in Seq(I)
  BY <1>1
<1>3. (streams' \in [Sources -> Seq(J)]) /\ (channel' \in Seq(J))
  <2> HIDE DEF I, J
  <2>1. \A q \in Seq(I) : q \in Seq(J)
    BY <1>2, SeqGrows
  <2> QED
    BY <1>2, <2>1
<1>4. recorded' \subseteq Infos'
  BY <1>1 DEF TypeOK
<1>5. MemoryOK'
  BY DEF TypeOK, MemoryOK
<1> QED
  BY <1>3, <1>4, <1>5 DEF TypeOK

\* ApiOK when only the VPA objects or the evictions have changed.
LEMMA ApiMoves ==
    ASSUME TypeOK, now' \in Nat, now <= now',
           api' = [vpas |-> api'.vpas, saved |-> api.saved, savedAt |-> api.savedAt,
                   events |-> api'.events],
           api'.vpas \subseteq Vpas, api'.events \subseteq Infos, IsFiniteSet(api'.events)
    PROVE  /\ ApiOK'
           /\ api'.saved = api.saved /\ api'.savedAt = api.savedAt
<1>1. api'.saved = api.saved /\ api'.savedAt = api.savedAt
  OBVIOUS
<1>2. Infos \subseteq Infos'
  BY InfosGrow, Numbers DEF TypeOK
<1> QED
  BY <1>1, <1>2 DEF ApiOK, TypeOK

\* ApiOK when nothing there has changed.
LEMMA ApiStays ==
    ASSUME TypeOK, now' \in Nat, now <= now', api' = api
    PROVE  ApiOK'
<1>1. Infos \subseteq Infos'
  BY InfosGrow, Numbers DEF TypeOK
<1> QED
  BY <1>1 DEF TypeOK, ApiOK

\* An OOM that happens now.
LEMMA InfoNow ==
    ASSUME TypeOK, NEW c \in Containers
    PROVE  [container |-> c, time |-> now] \in Infos
  BY Numbers DEF TypeOK, Infos

\* The steps of the environment and of the observer keep the invariant.
LEMMA EnvironmentInv ==
    ASSUME Inv,
           \/ Tick
           \/ \E v \in Vpas : CreateVpa(v) \/ DeleteVpa(v)
           \/ \E c \in Killed : OOMKill(c) \/ Evict(c)
           \/ \E s \in Sources : Observe(s)
           \/ Rewatch
           \/ Restart
           \/ UNCHANGED vars
    PROVE  Inv'
<1>0. /\ TypeOK /\ ApiOK /\ LoopOK /\ now \in 1 .. MaxTime /\ now \in Nat
      /\ streams \in [Sources -> Seq(Infos)] /\ channel \in Seq(Infos)
      /\ api.events \in SUBSET Infos /\ api.vpas \in SUBSET Vpas /\ IsFiniteSet(api.events)
  BY Numbers DEF Inv, TypeOK, ApiOK
<1>1. CASE Tick
  <2>1. /\ now' \in 1 .. MaxTime /\ now' \in Nat /\ now <= now'
        /\ UNCHANGED <<api, streams, channel, memory, loop, forgotten, disturbed, recorded>>
    BY <1>0, <1>1, Numbers DEF Tick
  <2>2. ApiOK'
    BY <1>0, <2>1, ApiStays
  <2>3. LoopOK'
    BY <1>0, <2>1 DEF LoopOK
  <2> QED
    BY <1>0, <2>1, <2>2, <2>3, QuietTypes, QuietStep
<1>2. ASSUME NEW v \in Vpas, CreateVpa(v) \/ DeleteVpa(v) PROVE Inv'
  <2>1. PICK V \in SUBSET Vpas : api' = [api EXCEPT !.vpas = V]
    BY <1>0, <1>2 DEF CreateVpa, DeleteVpa
  <2>2. UNCHANGED <<now, streams, channel, memory, loop, forgotten, disturbed, recorded>>
    BY <1>2 DEF CreateVpa, DeleteVpa
  <2>3. /\ api' = [vpas |-> V, saved |-> api.saved, savedAt |-> api.savedAt,
                   events |-> api.events]
        /\ api'.vpas = V /\ api'.events = api.events
    BY <1>0, <2>1 DEF ApiOK
  <2>4. ApiOK' /\ api'.saved = api.saved /\ api'.savedAt = api.savedAt
    BY <1>0, <2>2, <2>3, ApiMoves
  <2>5. LoopOK'
    BY <1>0, <2>2 DEF LoopOK
  <2> QED
    BY <1>0, <2>2, <2>4, <2>5, QuietTypes, QuietStep
<1>3. ASSUME NEW c \in Killed, OOMKill(c) \/ Evict(c) PROVE Inv'
  <2> DEFINE info == [container |-> c, time |-> now]
  <2>1. info \in Infos
    BY <1>0, BoundsAssumption, InfoNow
  <2>2. UNCHANGED <<now, channel, memory, loop, forgotten, disturbed, recorded>>
    BY <1>3 DEF OOMKill, Evict
  <2>3. streams' \in [Sources -> Seq(Infos)]
    <3>1. \/ streams' = streams
          \/ \E s \in Sources : streams' = [streams EXCEPT ![s] = Append(@, info)]
      BY <1>3 DEF OOMKill, Evict, Sources
    <3> HIDE DEF info
    <3>2. ASSUME NEW s \in Sources PROVE Append(streams[s], info) \in Seq(Infos)
      BY <1>0, <2>1
    <3> QED
      BY <1>0, <3>1, <3>2
  <2>4. /\ api' = [vpas |-> api'.vpas, saved |-> api.saved, savedAt |-> api.savedAt,
                   events |-> api'.events]
        /\ api'.vpas = api.vpas /\ api'.events \subseteq Infos /\ IsFiniteSet(api'.events)
    <3>1. CASE OOMKill(c)
      <4>1. api' = api
        BY <3>1 DEF OOMKill
      <4> QED
        BY <1>0, <4>1 DEF ApiOK
    <3>2. CASE Evict(c)
      <4>1. api' = [api EXCEPT !.events = api.events \cup {info}]
        BY <3>2 DEF Evict
      <4> HIDE DEF info
      <4>2. /\ api' = [vpas |-> api.vpas, saved |-> api.saved, savedAt |-> api.savedAt,
                       events |-> api.events \cup {info}]
            /\ api'.vpas = api.vpas /\ api'.events = api.events \cup {info}
        BY <1>0, <4>1 DEF ApiOK
      <4>3. IsFiniteSet(api.events \cup {info})
        BY <1>0, FS_AddElement
      <4> QED
        BY <1>0, <2>1, <4>2, <4>3
    <3> QED
      BY <1>3, <3>1, <3>2
  <2>5. ApiOK' /\ api'.saved = api.saved /\ api'.savedAt = api.savedAt
    BY <1>0, <2>2, <2>4, ApiMoves
  <2>6. LoopOK'
    BY <1>0, <2>2 DEF LoopOK
  <2> QED
    BY <1>0, <2>2, <2>3, <2>5, <2>6, QuietTypes, QuietStep
<1>4. ASSUME NEW s \in Sources, Observe(s) PROVE Inv'
  <2>1. UNCHANGED <<now, api, memory, loop, forgotten, disturbed, recorded>>
    BY <1>4 DEF Observe
  <2>2. /\ streams[s] # <<>> /\ channel' = Append(channel, Head(streams[s]))
        /\ streams' = [streams EXCEPT ![s] = Tail(@)]
    BY <1>4 DEF Observe
  <2>3. streams[s] \in Seq(Infos)
    BY <1>0
  <2>4. channel' \in Seq(Infos) /\ streams' \in [Sources -> Seq(Infos)]
    BY <1>0, <2>2, <2>3
  <2>5. ApiOK'
    BY <1>0, <2>1, ApiStays
  <2>6. LoopOK'
    BY <1>0, <2>1 DEF LoopOK
  <2> QED
    BY <1>0, <2>1, <2>4, <2>5, <2>6, QuietTypes, QuietStep
<1>5. CASE Rewatch \/ Restart
  <2>1. UNCHANGED <<now, api, channel, memory, forgotten, disturbed, recorded>>
    BY <1>5 DEF Rewatch, Restart
  <2>2. PICK q \in Replays : streams' = [streams EXCEPT !["evictions"] = q]
    BY <1>5 DEF Rewatch, Restart
  <2>3. streams' \in [Sources -> Seq(Infos)]
    BY <1>0, <2>2, ReplaysType
  <2>4. ApiOK'
    BY <1>0, <2>1, ApiStays
  <2>5. LoopOK' /\ (loop' = loop \/ LoopMoves)
    <3>1. CASE Rewatch
      BY <1>0, <3>1 DEF Rewatch, LoopOK
    <3>2. CASE Restart
      <4>1. loop.pc = "down" /\ loop' = NewLoop
        BY <3>2 DEF Restart, At
      <4>2. loop'.pc = "init" /\ loop'.pending = {}
        BY <4>1 DEF NewLoop
      <4>3. LoopOK'
        BY <4>1 DEF LoopOK, NewLoop, PCs
      <4> QED
        BY <4>1, <4>2, <4>3 DEF LoopMoves, Running, At
    <3> QED
      BY <1>5, <3>1, <3>2
  <2> QED
    BY <1>0, <2>1, <2>3, <2>4, <2>5, QuietTypes, QuietStep
<1>6. CASE UNCHANGED vars
  <2>1. UNCHANGED <<now, api, streams, channel, memory, loop, forgotten, disturbed, recorded>>
    BY <1>6 DEF vars
  <2>2. ApiOK'
    BY <1>0, <2>1, ApiStays
  <2>3. LoopOK'
    BY <1>0, <2>1 DEF LoopOK
  <2> QED
    BY <1>0, <2>1, <2>2, <2>3, QuietTypes, QuietStep
<1> QED
  BY <1>1, <1>2, <1>3, <1>4, <1>5, <1>6

-----------------------------------------------------------------------------
(* Crashes, and the steps that load VPAs, checkpoints and pods.            *)

\* The histogram of a container in a map of histograms.
LEMMA EntriesType ==
    ASSUME NEW map, NEW c, c \in DOMAIN map => IsHistogram(map[c])
    PROVE  IsHistogram(Entries(map, c))
  BY CopiesInEmpty DEF Entries

\* The histograms of a container.
LEMMA HistogramTypes ==
    ASSUME TypeOK, NEW c
    PROVE  /\ IsHistogram(Entries(memory.live, c))
           /\ IsHistogram(Entries(memory.initial, c))
           /\ IsHistogram(Entries(api.saved, c))
  BY EntriesType DEF TypeOK, MemoryOK, ApiOK

\* Nothing is gathered yet and nothing restored.
LEMMA NothingSpread ==
    /\ DOMAIN EmptyBag = {}
    /\ Spread(EmptyBag (+) EmptyBag)
<1>1. DOMAIN EmptyBag = {} /\ IsHistogram(EmptyBag)
  BY CopiesInEmpty
<1>2. DOMAIN (EmptyBag (+) EmptyBag) = {}
  BY <1>1, CopiesInMerge
<1> QED
  BY <1>1, <1>2 DEF Spread

\* A crash keeps the invariant: what is saved is spread.
LEMMA CrashInv == Inv /\ Crash => Inv'
<1> SUFFICES ASSUME Inv, Crash PROVE Inv'
  OBVIOUS
<1>0. /\ loop' = [NewLoop EXCEPT !.pc = "down"] /\ memory' = NewMemory
      /\ streams' = [s \in Sources |-> <<>>] /\ channel' = <<>>
      /\ recorded' = {} /\ forgotten' = {}
      /\ UNCHANGED <<now, api, disturbed>>
  BY DEF Crash
<1>1. DOMAIN EmptyMap = {}
  BY DEF EmptyMap
<1>2. /\ memory'.known = [v \in Vpas |-> "no"] /\ memory'.written = [v \in Vpas |-> 0]
      /\ memory'.initial = EmptyMap /\ memory'.live = EmptyMap
      /\ memory'.containers = EmptyMap
  BY <1>0 DEF NewMemory
<1>3. loop'.pc = "down" /\ loop'.pending = {} /\ LoopOK'
  <2>1. loop' = [pc |-> "down", todo |-> <<>>, pending |-> {}, budget |-> 0,
                 start |-> 0, expired |-> FALSE]
    BY <1>0 DEF NewLoop
  <2> QED
    BY <2>1 DEF LoopOK, PCs
<1>4. MemoryOK'
  BY <1>0, <1>1, <1>2 DEF MemoryOK, NewMemory
<1>5. ApiOK'
  BY <1>0 DEF Inv, TypeOK, ApiOK, Infos
<1>6. TypeOK'
  BY <1>0, <1>3, <1>4, <1>5 DEF Inv, TypeOK
<1>7. StagesOK'
  BY <1>0, <1>1, <1>2, <1>3 DEF Inv, StagesOK, Running, At
<1>8. WindowsOK' /\ KnownOK' /\ HistoryOK' /\ OOMsOK'
  BY <1>0, <1>1, <1>2, <1>3
     DEF WindowsOK, KnownOK, HistoryOK, OOMsOK, OOMCounted, Running
<1>9. SpreadOK'
  <2> SUFFICES ASSUME NEW c \in Containers \ disturbed PROVE SpreadAt(c)'
    BY <1>0 DEF SpreadOK
  <2>1. SpreadAt(c)
    BY DEF Inv, SpreadOK
  <2>2. /\ Entries(memory.live, c)' = EmptyBag /\ Entries(memory.initial, c)' = EmptyBag
        /\ Entries(api.saved, c)' = Entries(api.saved, c)
    BY <1>0, <1>1, <1>2 DEF Entries
  <2>3. ~ InAWindow(c)'
    BY <1>1, <1>2 DEF InAWindow
  <2> QED
    BY <1>0, <2>1, <2>2, <2>3, NothingSpread DEF SpreadAt
<1> QED
  BY <1>6, <1>7, <1>8, <1>9 DEF Inv

\* Goto keeps the rest of the loop's state.
LEMMA GotoType ==
    ASSUME LoopOK, NEW pc \in PCs, Goto(pc)
    PROVE  LoopOK' /\ loop'.pc = pc /\ loop'.pending = loop.pending
  BY DEF LoopOK, Goto

\* LoadVPAs keeps the invariant: a container whose VPA changes has lost what was
\* restored, and is forgotten.
LEMMA LoadVPAsInv == Inv /\ LoadVPAs => Inv'
<1> SUFFICES ASSUME Inv, LoadVPAs PROVE Inv'
  OBVIOUS
<1>0. /\ UNCHANGED <<now, api, streams, channel, disturbed, recorded>>
      /\ loop.pc \in {"init", "vpas", "gc"}
      /\ forgotten' = forgotten
          \cup (DOMAIN memory.initial \ DOMAIN memory'.initial)
          \cup {c \in Containers : memory.known[VpaOf[c]] # "no"
                                /\ memory'.known[VpaOf[c]] = "no"}
  BY DEF LoadVPAs
<1>1. /\ TypeOK /\ LoopOK /\ ApiOK /\ MemoryOK
      /\ memory.known \in [Vpas -> {"no", "nothing", "selects"}]
      /\ DOMAIN memory.initial \subseteq Containers
  BY DEF Inv, TypeOK, MemoryOK
<1>2. /\ LoopOK' /\ loop'.pending = loop.pending
      /\ loop'.pc = CASE At("init") -> "restore" [] At("vpas") -> "pods" [] At("gc") -> "collect"
  <2> DEFINE pc == CASE At("init") -> "restore" [] At("vpas") -> "pods" [] At("gc") -> "collect"
  <2>1. pc \in PCs
    BY <1>0 DEF PCs, At
  <2>2. Goto(pc)
    BY DEF LoadVPAs
  <2> HIDE DEF pc
  <2>3. LoopOK' /\ loop'.pc = pc /\ loop'.pending = loop.pending
    BY <1>1, <2>1, <2>2, GotoType
  <2> QED
    BY <2>3 DEF pc
<1>3. /\ loop.pc = "init" => loop'.pc = "restore"
      /\ loop.pc # "init" => loop'.pc \in {"pods", "collect"}
  BY <1>0, <1>2 DEF At
<1>4. /\ MemoryOK'
      /\ memory'.live = memory.live /\ memory'.containers = memory.containers
      /\ \A c \in DOMAIN memory'.initial :
             /\ c \in DOMAIN memory.initial /\ memory'.initial[c] = memory.initial[c]
             /\ memory'.known[VpaOf[c]] = memory.known[VpaOf[c]]
  <2>1. CASE memory' = memory
    BY <1>1, <2>1 DEF MemoryOK
  <2>2. ASSUME NEW bad, memory' = Loaded(Known(bad))
        PROVE  /\ MemoryOK'
               /\ memory'.live = memory.live /\ memory'.containers = memory.containers
               /\ \A c \in DOMAIN memory'.initial :
                      /\ c \in DOMAIN memory.initial /\ memory'.initial[c] = memory.initial[c]
                      /\ memory'.known[VpaOf[c]] = memory.known[VpaOf[c]]
    <3> DEFINE kept == {v \in Vpas : Known(bad)[v] = memory.known[v]}
    <3>1. memory' = [memory EXCEPT
             !.known   = Known(bad),
             !.written = [v \in Vpas |-> IF v \in kept THEN @[v] ELSE 0],
             !.initial = [c \in {d \in DOMAIN @ : VpaOf[d] \in kept} |-> @[c]]]
      BY <2>2 DEF Loaded
    <3>2. /\ memory' = [known |-> memory'.known, written |-> memory'.written,
                        initial |-> memory'.initial, live |-> memory'.live,
                        containers |-> memory'.containers]
          /\ memory'.known = Known(bad)
          /\ memory'.written = [v \in Vpas |-> IF v \in kept THEN memory.written[v] ELSE 0]
          /\ memory'.initial = [c \in {d \in DOMAIN memory.initial : VpaOf[d] \in kept} |->
                                   memory.initial[c]]
          /\ memory'.live = memory.live /\ memory'.containers = memory.containers
      BY <1>1, <3>1 DEF MemoryOK
    <3>3. Known(bad) \in [Vpas -> {"no", "nothing", "selects"}]
      BY DEF Known
    <3>4. \A c \in DOMAIN memory'.initial :
             /\ c \in DOMAIN memory.initial /\ memory'.initial[c] = memory.initial[c]
             /\ memory'.known[VpaOf[c]] = memory.known[VpaOf[c]]
      BY <3>2
    <3>5. memory'.written \in [Vpas -> Nat]
      BY <1>1, <3>2 DEF MemoryOK
    <3> HIDE DEF kept
    <3> QED
      BY <1>1, <3>2, <3>3, <3>4, <3>5 DEF MemoryOK
  <2>3. memory' = memory \/ \E bad : memory' = Loaded(Known(bad))
    BY DEF LoadVPAs
  <2> QED
    BY <2>1, <2>2, <2>3
<1>5. TypeOK'
  <2>1. ApiOK'
    BY <1>0, <1>1 DEF ApiOK, Infos
  <2>2. Infos' = Infos
    BY <1>0 DEF Infos
  <2>3. forgotten' \subseteq Containers
    BY <1>0, <1>1 DEF TypeOK
  <2> QED
    BY <1>0, <1>1, <1>2, <1>4, <2>1, <2>2, <2>3 DEF TypeOK
<1>6. StagesOK'
  BY <1>0, <1>2, <1>3, <1>4 DEF Inv, StagesOK, Running, At
<1>7. WindowsOK'
  BY <1>0, <1>3, <1>4 DEF Inv, WindowsOK, WindowOK, At
<1>8. OOMsOK'
  BY <1>0, <1>4 DEF Inv, OOMsOK, OOMCounted
<1>9. KnownOK'
  <2>1. \A c \in DOMAIN memory'.initial : memory'.known[VpaOf[c]] # "no"
    BY <1>4 DEF Inv, KnownOK
  <2>2. ASSUME Running', NEW c \in DOMAIN api'.saved \ forgotten'
        PROVE  memory'.known[VpaOf[c]] # "no"
    <3>1. Running
      BY <1>0, <1>3, <2>2 DEF Running
    <3>2. c \in Containers /\ c \in DOMAIN api.saved \ forgotten
      BY <1>0, <1>1 DEF ApiOK
    <3> QED
      BY <1>0, <3>1, <3>2 DEF Inv, KnownOK
  <2> QED
    BY <2>1, <2>2 DEF KnownOK
<1>10. HistoryOK'
  <2> SUFFICES ASSUME Running', NEW c \in DOMAIN api'.saved \ forgotten',
                      NEW p \in DOMAIN api'.saved[c]
               PROVE  \E q \in Peaks : Held(c, q)' /\ q[1] = p[1] /\ q[2] >= p[2]
    BY DEF HistoryOK
  <2>1. Running /\ c \in DOMAIN api.saved \ forgotten /\ p \in DOMAIN api.saved[c]
    BY <1>0, <1>3 DEF Running
  <2>2. PICK q \in Peaks : Held(c, q) /\ q[1] = p[1] /\ q[2] >= p[2]
    BY <2>1 DEF Inv, HistoryOK
  <2>3. InAWindow(c)' = InAWindow(c)
    BY <1>4 DEF InAWindow
  <2>4. Entries(memory.live, c)' = Entries(memory.live, c)
    BY <1>4 DEF Entries
  <2>5. CASE c \in DOMAIN memory.initial
    <3>1. /\ c \in DOMAIN memory'.initial /\ memory'.initial[c] = memory.initial[c]
          /\ memory'.known[VpaOf[c]] = memory.known[VpaOf[c]]
      BY <1>0, <1>4, <2>5
    <3>2. Entries(memory.initial, c)' = Entries(memory.initial, c)
      BY <2>5, <3>1 DEF Entries
    <3>3. Held(c, q)'
      BY <1>0, <1>4, <2>2, <2>3, <2>4, <2>5, <3>1, <3>2 DEF Held
    <3> QED
      BY <2>2, <3>3
  <2>6. CASE c \notin DOMAIN memory.initial
    <3>1. c \notin DOMAIN memory'.initial
      BY <1>4, <2>6
    <3>2. Entries(memory.initial, c)' = Entries(memory.initial, c)
      BY <2>6, <3>1 DEF Entries
    <3>3. Held(c, q)'
      BY <1>0, <1>4, <2>2, <2>3, <2>4, <2>6, <3>1, <3>2 DEF Held
    <3> QED
      BY <2>2, <3>3
  <2> QED
    BY <2>5, <2>6
<1>11. SpreadOK'
  <2> SUFFICES ASSUME NEW c \in Containers \ disturbed PROVE SpreadAt(c)'
    BY <1>0 DEF SpreadOK
  <2>1. SpreadAt(c)
    BY DEF Inv, SpreadOK
  <2>2. /\ Entries(memory.live, c)' = Entries(memory.live, c)
        /\ Entries(api.saved, c)' = Entries(api.saved, c)
        /\ \/ Entries(memory.initial, c)' = Entries(memory.initial, c)
           \/ Entries(memory.initial, c)' = EmptyBag
    BY <1>0, <1>4 DEF Entries
  <2>3. InAWindow(c)' = InAWindow(c)
    BY <1>4 DEF InAWindow
  <2>4. CASE Entries(memory.initial, c)' = Entries(memory.initial, c)
    BY <1>0, <1>4, <2>1, <2>2, <2>3, <2>4 DEF SpreadAt
  <2>5. CASE Entries(memory.initial, c)' = EmptyBag
    <3> DEFINE live == Entries(memory.live, c)
               initial == Entries(memory.initial, c)
    <3>1. IsHistogram(live) /\ IsHistogram(initial)
      BY <1>1, HistogramTypes
    <3> HIDE DEF live, initial
    <3>2. IsHistogram(EmptyBag) /\ \A p : Copies(p, EmptyBag) = 0
      BY CopiesInEmpty
    <3>3. /\ IsHistogram(live (+) EmptyBag) /\ IsHistogram(live (+) initial)
          /\ \A p : Copies(p, live (+) EmptyBag) = Copies(p, live) + Copies(p, EmptyBag)
          /\ \A p : Copies(p, live (+) initial) = Copies(p, live) + Copies(p, initial)
      BY <3>1, <3>2, CopiesInMerge
    <3>4. \A p : Copies(p, live (+) EmptyBag) <= Copies(p, live (+) initial)
      BY <3>1, <3>2, <3>3, CopiesType
    <3>5. Spread(live (+) EmptyBag)
      BY <2>1, <3>3, <3>4, PartSpread DEF SpreadAt, live, initial
    <3> QED
      BY <1>0, <1>4, <2>1, <2>2, <2>3, <2>5, <3>5, NothingSpread
         DEF SpreadAt, Before, live
  <2> QED
    BY <2>2, <2>4, <2>5
<1> QED
  BY <1>5, <1>6, <1>7, <1>8, <1>9, <1>10, <1>11 DEF Inv

\* A peak that was restored stays when nothing is in a window.
LEMMA RestoredStays ==
    ASSUME NEW s, NEW live, IsHistogram(live), NEW initial, IsHistogram(initial),
           NEW at, NEW q, q \in DOMAIN initial
    PROVE  Stays(FALSE, s, live, initial, at, q)
<1>1. Copies(q, live) \in Nat /\ Copies(q, initial) \in Nat /\ Copies(q, initial) >= 1
  BY CopiesType
<1>2. Copies(q, live) + Copies(q, initial) > 0
  BY <1>1
<1>3. q \in DOMAIN Gathered(FALSE, s, live, initial)
  BY <1>2, GatheredCopies
<1> QED
  BY <1>3 DEF Stays

\* InitFromCheckpoints keeps the invariant: it restores what was saved, and what it
\* does not restore is forgotten.
LEMMA InitFromCheckpointsInv == Inv /\ InitFromCheckpoints => Inv'
<1> SUFFICES ASSUME Inv, InitFromCheckpoints PROVE Inv'
  OBVIOUS
<1>0. /\ UNCHANGED <<now, api, streams, channel, disturbed, recorded>>
      /\ loop.pc = "restore"
      /\ forgotten' = DOMAIN api.saved \ DOMAIN memory'.initial
  BY DEF InitFromCheckpoints, At
<1>1. /\ TypeOK /\ LoopOK /\ ApiOK /\ MemoryOK
      /\ DOMAIN api.saved \subseteq Containers
  BY DEF Inv, TypeOK, ApiOK
<1>2. LoopOK' /\ loop'.pc = "vpas" /\ loop'.pending = loop.pending
  BY <1>1, GotoType DEF InitFromCheckpoints, PCs
<1>3. /\ DOMAIN memory.initial = {} /\ DOMAIN memory.live = {}
      /\ DOMAIN memory.containers = {}
      /\ loop.pending = {}
  BY <1>0, <1>1 DEF Inv, StagesOK, Running, At, MemoryOK
<1>4. /\ MemoryOK'
      /\ memory'.live = memory.live /\ memory'.containers = memory.containers
      /\ memory'.known = memory.known
      /\ \A c \in DOMAIN memory'.initial :
             /\ c \in DOMAIN api.saved /\ memory'.initial[c] = api.saved[c]
             /\ memory.known[VpaOf[c]] # "no"
  <2>1. CASE memory' = memory
    BY <1>1, <1>3, <2>1 DEF MemoryOK
  <2>2. CASE memory' = [memory EXCEPT !.initial =
                [c \in {d \in DOMAIN api.saved : memory.known[VpaOf[d]] # "no"} |->
                    api.saved[c]]]
    <3>1. /\ memory' = [known |-> memory.known, written |-> memory.written,
                        initial |-> memory'.initial, live |-> memory.live,
                        containers |-> memory.containers]
          /\ memory'.initial =
                [c \in {d \in DOMAIN api.saved : memory.known[VpaOf[d]] # "no"} |->
                    api.saved[c]]
      BY <1>1, <2>2 DEF MemoryOK
    <3>2. /\ memory'.known = memory.known /\ memory'.written = memory.written
          /\ memory'.live = memory.live /\ memory'.containers = memory.containers
      BY <3>1
    <3>3. \A c \in DOMAIN memory'.initial :
             /\ c \in DOMAIN api.saved /\ memory'.initial[c] = api.saved[c]
             /\ memory.known[VpaOf[c]] # "no"
      BY <3>1
    <3>4. \A c \in DOMAIN memory'.initial : c \in Containers /\ IsHistogram(memory'.initial[c])
      BY <1>1, <3>3 DEF ApiOK
    <3> QED
      BY <1>1, <3>1, <3>2, <3>3, <3>4 DEF MemoryOK
  <2> QED
    BY <2>1, <2>2 DEF InitFromCheckpoints
<1>5. TypeOK'
  <2>1. ApiOK'
    BY <1>0, <1>1 DEF ApiOK, Infos
  <2>2. Infos' = Infos
    BY <1>0 DEF Infos
  <2> QED
    BY <1>0, <1>1, <1>2, <1>4, <2>1, <2>2 DEF TypeOK
<1>6. StagesOK'
  BY <1>0, <1>2, <1>3, <1>4 DEF Inv, StagesOK, Running, At
<1>7. WindowsOK'
  BY <1>3, <1>4 DEF WindowsOK
<1>8. OOMsOK'
  BY <1>0, <1>4 DEF Inv, OOMsOK, OOMCounted
<1>9. KnownOK'
  BY <1>0, <1>4 DEF KnownOK
<1>10. HistoryOK'
  <2> SUFFICES ASSUME NEW c \in DOMAIN api.saved \ forgotten',
                      NEW p \in DOMAIN api.saved[c]
               PROVE  \E q \in Peaks : Held(c, q)' /\ q[1] = p[1] /\ q[2] >= p[2]
    BY <1>0 DEF HistoryOK
  <2>1. c \in DOMAIN memory'.initial /\ memory'.initial[c] = api.saved[c]
    BY <1>0, <1>4
  <2>2. IsHistogram(api.saved[c]) /\ p \in Peaks /\ p[2] \in Nat
    BY <1>1 DEF ApiOK, IsHistogram, Peaks
  <2>3. InAWindow(c)' = FALSE
    BY <1>3, <1>4 DEF InAWindow
  <2>4. /\ Entries(memory.live, c)' = EmptyBag /\ IsHistogram(EmptyBag)
        /\ Entries(memory.initial, c)' = api.saved[c]
    BY <1>3, <1>4, <2>1, CopiesInEmpty DEF Entries
  <2>5. Stays(FALSE, memory'.containers[c], EmptyBag, api.saved[c], api'.savedAt[c], p)
    BY <2>2, <2>4, RestoredStays
  <2>6. Held(c, p)'
    BY <2>1, <2>3, <2>4, <2>5 DEF Held
  <2> QED
    BY <2>2, <2>6
<1>11. SpreadOK'
  <2> SUFFICES ASSUME NEW c \in Containers \ disturbed PROVE SpreadAt(c)'
    BY <1>0 DEF SpreadOK
  <2>1. SpreadAt(c)
    BY DEF Inv, SpreadOK
  <2> DEFINE saved == Entries(api.saved, c)
  <2>2. /\ Entries(memory.live, c)' = EmptyBag
        /\ Entries(api.saved, c)' = saved
        /\ \/ Entries(memory.initial, c)' = saved
           \/ Entries(memory.initial, c)' = EmptyBag
    BY <1>0, <1>3, <1>4 DEF Entries
  <2>3. ~ InAWindow(c)'
    BY <1>3, <1>4 DEF InAWindow
  <2>4. IsHistogram(saved) /\ Spread(saved)
    BY <1>1, <2>1, HistogramTypes DEF SpreadAt
  <2>5. \A p \in DOMAIN saved : p[1] <= api.savedAt[c]
    BY <2>1 DEF SpreadAt
  <2> HIDE DEF saved
  <2>6. Spread(EmptyBag (+) saved)
    <3>1. IsHistogram(EmptyBag) /\ \A p : Copies(p, EmptyBag) = 0
      BY CopiesInEmpty
    <3>2. /\ IsHistogram(EmptyBag (+) saved)
          /\ \A p : Copies(p, EmptyBag (+) saved) = Copies(p, EmptyBag) + Copies(p, saved)
      BY <2>4, <3>1, CopiesInMerge
    <3>3. \A p : Copies(p, EmptyBag (+) saved) <= Copies(p, saved)
      BY <2>4, <3>1, <3>2, CopiesType
    <3> QED
      BY <2>4, <3>2, <3>3, PartSpread
  <2> QED
    BY <1>0, <2>2, <2>3, <2>4, <2>5, <2>6, NothingSpread DEF SpreadAt
<1> QED
  BY <1>5, <1>6, <1>7, <1>8, <1>9, <1>10, <1>11 DEF Inv

\* A peak stays when the pod it was gathered from is removed.
LEMMA RemovedStays ==
    ASSUME NEW s \in ContainerStates, NEW live, IsHistogram(live),
           NEW initial, IsHistogram(initial), NEW at, NEW q, Current(s) \in DOMAIN live,
           Stays(TRUE, s, live, initial, at, q), NEW s2
    PROVE  Stays(FALSE, s2, live, initial, at, q)
<1>1. Copies(q, live) \in Nat /\ Copies(q, initial) \in Nat
      /\ (q \in DOMAIN live => Copies(q, live) >= 1)
  BY CopiesType
<1>2. \/ Copies(q, live) + Copies(q, initial) > One(q, Current(s))
      \/ q = Current(s)
  BY GatheredCopies DEF Stays
<1>3. Copies(q, live) + Copies(q, initial) > 0
  BY <1>1, <1>2 DEF One
<1>4. q \in DOMAIN Gathered(FALSE, s2, live, initial)
  BY <1>3, GatheredCopies
<1> QED
  BY <1>4 DEF Stays

\* LoadPods keeps the invariant: what was gathered stays when pods come or go.
LEMMA LoadPodsInv == Inv /\ LoadPods => Inv'
<1> SUFFICES ASSUME Inv, LoadPods PROVE Inv'
  OBVIOUS
<1> DEFINE new == {c \in Containers \ DOMAIN memory.containers :
                       MemorySaveMode => MatchesVPA(c)}
<1>0. /\ UNCHANGED <<now, api, streams, channel, forgotten, recorded>>
      /\ loop.pc = "pods" /\ Goto("metrics")
  BY DEF LoadPods, At
<1>1. /\ TypeOK /\ LoopOK /\ ApiOK /\ MemoryOK
      /\ DOMAIN memory.live \subseteq Containers
      /\ DOMAIN memory.containers \subseteq DOMAIN memory.live
  BY DEF Inv, TypeOK, MemoryOK
<1>2. LoopOK' /\ loop'.pc = "metrics" /\ loop'.pending = loop.pending
  BY <1>0, <1>1, GotoType DEF PCs
<1>3. /\ MemoryOK'
      /\ memory'.initial = memory.initial /\ memory'.known = memory.known
      /\ DOMAIN memory.live \subseteq DOMAIN memory'.live
      /\ \A c : Entries(memory'.live, c) = Entries(memory.live, c)
      /\ \A c \in DOMAIN memory'.containers :
             \/ c \in DOMAIN memory.containers /\ memory'.containers[c] = memory.containers[c]
             \/ memory'.containers[c].windowEnd = 0
      /\ disturbed \subseteq disturbed' /\ disturbed' \subseteq Containers
      /\ \A c : InAWindow(c) /\ ~ InAWindow(c)' => c \in disturbed'
  <2>1. CASE /\ memory' = [memory EXCEPT
                    !.containers = [c \in DOMAIN @ \cup new |->
                        IF c \in new THEN NewContainerState ELSE @[c]],
                    !.live = [c \in DOMAIN @ \cup new |-> Entries(@, c)]]
             /\ disturbed' = disturbed
    <3>1. /\ memory' = [known |-> memory.known, written |-> memory.written,
                        initial |-> memory.initial, live |-> memory'.live,
                        containers |-> memory'.containers]
          /\ memory'.containers = [c \in DOMAIN memory.containers \cup new |->
                                      IF c \in new THEN NewContainerState
                                      ELSE memory.containers[c]]
          /\ memory'.live = [c \in DOMAIN memory.live \cup new |-> Entries(memory.live, c)]
      BY <1>1, <2>1 DEF MemoryOK
    <3>2. /\ memory'.known = memory.known /\ memory'.written = memory.written
          /\ memory'.initial = memory.initial
      BY <3>1
    <3>3. new \subseteq Containers /\ new \cap DOMAIN memory.containers = {}
      OBVIOUS
    <3> HIDE DEF new
    <3>4. \A c : Entries(memory'.live, c) = Entries(memory.live, c)
      BY <3>1 DEF Entries
    <3>5. \A c \in DOMAIN memory'.live : IsHistogram(memory'.live[c])
      BY <1>1, <3>1, HistogramTypes
    <3>6. NewContainerState \in ContainerStates /\ NewContainerState.windowEnd = 0
      BY DEF NewContainerState, ContainerStates
    <3>7. \A c \in DOMAIN memory'.containers :
             \/ c \in DOMAIN memory.containers /\ memory'.containers[c] = memory.containers[c]
             \/ memory'.containers[c] = NewContainerState
      BY <3>1
    <3>8. \A c \in DOMAIN memory.containers :
              c \in DOMAIN memory'.containers /\ memory'.containers[c] = memory.containers[c]
      BY <3>1, <3>3
    <3>9. \A c : InAWindow(c) => InAWindow(c)'
      BY <3>8 DEF InAWindow
    <3>10. /\ DOMAIN memory'.live \subseteq Containers
           /\ DOMAIN memory.live \subseteq DOMAIN memory'.live
           /\ DOMAIN memory'.containers \subseteq DOMAIN memory'.live
      BY <1>1, <3>1, <3>3
    <3>11. \A c \in DOMAIN memory'.containers : memory'.containers[c] \in ContainerStates
      BY <1>1, <3>6, <3>7 DEF MemoryOK
    <3>12. MemoryOK'
      BY <1>1, <3>1, <3>2, <3>5, <3>10, <3>11 DEF MemoryOK
    <3> QED
      BY <1>1, <2>1, <3>2, <3>4, <3>6, <3>7, <3>9, <3>10, <3>12 DEF TypeOK
  <2>2. CASE /\ memory' = [memory EXCEPT !.containers = EmptyMap]
             /\ disturbed' = disturbed \cup
                    {c \in DOMAIN memory.containers : memory.containers[c].windowEnd # 0}
    <3>1. /\ memory' = [known |-> memory.known, written |-> memory.written,
                        initial |-> memory.initial, live |-> memory.live,
                        containers |-> EmptyMap]
      BY <1>1, <2>2 DEF MemoryOK
    <3>2. /\ memory'.known = memory.known /\ memory'.written = memory.written
          /\ memory'.initial = memory.initial /\ memory'.live = memory.live
          /\ memory'.containers = EmptyMap
      BY <3>1
    <3>3. DOMAIN memory'.containers = {}
      BY <3>2 DEF EmptyMap
    <3>4. MemoryOK'
      BY <1>1, <3>1, <3>2, <3>3 DEF MemoryOK
    <3>5. disturbed \subseteq disturbed' /\ disturbed' \subseteq Containers
      BY <1>1, <2>2 DEF TypeOK
    <3>6. \A c : InAWindow(c) => c \in disturbed'
      BY <2>2 DEF InAWindow
    <3> QED
      BY <3>2, <3>3, <3>4, <3>5, <3>6
  <2> QED
    BY <2>1, <2>2 DEF LoadPods
<1>4. TypeOK'
  <2>1. ApiOK'
    BY <1>0, <1>1 DEF ApiOK, Infos
  <2>2. Infos' = Infos
    BY <1>0 DEF Infos
  <2> QED
    BY <1>0, <1>1, <1>2, <1>3, <2>1, <2>2 DEF TypeOK
<1>5. \A c \in DOMAIN memory.live : memory'.live[c] = memory.live[c]
  BY <1>3 DEF Entries
<1>6. StagesOK'
  BY <1>0, <1>2, <1>3 DEF Inv, StagesOK, Running, At
<1>7. WindowsOK'
  <2> SUFFICES ASSUME NEW c \in DOMAIN memory'.containers
               PROVE  WindowOK(memory.containers[c], memory.live[c])'
    BY DEF WindowsOK
  <2>1. CASE c \in DOMAIN memory.containers /\ memory'.containers[c] = memory.containers[c]
    <3>1. memory'.live[c] = memory.live[c]
      BY <1>1, <1>5, <2>1
    <3>2. WindowOK(memory.containers[c], memory.live[c])
      BY <2>1 DEF Inv, WindowsOK
    <3> QED
      BY <1>0, <1>2, <2>1, <3>1, <3>2 DEF WindowOK, At
  <2>2. CASE memory'.containers[c].windowEnd = 0
    BY <1>0, <1>1, <1>2, <2>2, Numbers DEF WindowOK, At, TypeOK
  <2> QED
    BY <1>3, <2>1, <2>2
<1>8. OOMsOK'
  <2> SUFFICES ASSUME NEW info \in recorded
               PROVE  /\ info.container \in DOMAIN memory'.live
                      /\ \E p \in DOMAIN memory'.live[info.container] : Counts(info.time, p)
    BY <1>0 DEF OOMsOK, OOMCounted
  <2> QED
    BY <1>3, <1>5 DEF Inv, OOMsOK, OOMCounted
<1>9. KnownOK'
  BY <1>0, <1>3 DEF Inv, KnownOK, Running
<1>10. HistoryOK'
  <2> SUFFICES ASSUME NEW c \in DOMAIN api.saved \ forgotten, NEW p \in DOMAIN api.saved[c]
               PROVE  \E q \in Peaks : Held(c, q)' /\ q[1] = p[1] /\ q[2] >= p[2]
    BY <1>0 DEF HistoryOK
  <2>1. PICK q \in Peaks : Held(c, q) /\ q[1] = p[1] /\ q[2] >= p[2]
    BY <1>0 DEF Inv, HistoryOK, Running
  <2> DEFINE live == Entries(memory.live, c)
             initial == Entries(memory.initial, c)
  <2>2. Entries(memory.live, c)' = live /\ Entries(memory.initial, c)' = initial
    BY <1>3 DEF Entries
  <2>3. IsHistogram(live) /\ IsHistogram(initial)
    BY <1>1, HistogramTypes
  <2>4. ASSUME Stays(InAWindow(c), memory.containers[c], live, initial, api.savedAt[c], q)
        PROVE  Stays(InAWindow(c)', memory'.containers[c], live, initial, api'.savedAt[c], q)
    <3>1. CASE InAWindow(c) /\ InAWindow(c)'
      <4>1. memory'.containers[c] = memory.containers[c]
        BY <1>3, <3>1 DEF InAWindow
      <4>2. InAWindow(c)' = InAWindow(c)
        BY <3>1 DEF InAWindow
      <4> QED
        BY <1>0, <2>4, <4>1, <4>2
    <3>2. CASE InAWindow(c) /\ ~ InAWindow(c)'
      <4>1. InAWindow(c) = TRUE /\ InAWindow(c)' = FALSE
        BY <3>2 DEF InAWindow
      <4>2. /\ memory.containers[c] \in ContainerStates
            /\ Current(memory.containers[c]) \in DOMAIN live
        BY <1>1, <3>2 DEF InAWindow, Inv, WindowsOK, WindowOK, MemoryOK, Entries
      <4>3. Stays(TRUE, memory.containers[c], live, initial, api.savedAt[c], q)
        BY <2>4, <4>1
      <4> HIDE DEF live, initial
      <4>4. Stays(FALSE, memory'.containers[c], live, initial, api.savedAt[c], q)
        BY <2>3, <4>2, <4>3, RemovedStays
      <4> QED
        BY <1>0, <4>1, <4>4
    <3>3. CASE ~ InAWindow(c)
      <4>1. InAWindow(c) = FALSE /\ InAWindow(c)' = FALSE
        BY <1>3, <3>3 DEF InAWindow
      <4> QED
        BY <1>0, <2>4, <4>1 DEF Stays, Gathered
    <3> QED
      BY <3>1, <3>2, <3>3
  <2> HIDE DEF live, initial
  <2>5. Held(c, q)'
    <3>1. CASE c \in DOMAIN memory.initial /\ memory.known[VpaOf[c]] = "nothing"
      BY <1>3, <2>1, <3>1 DEF Held
    <3>2. CASE ~ (c \in DOMAIN memory.initial /\ memory.known[VpaOf[c]] = "nothing")
      <4>1. Stays(InAWindow(c), memory.containers[c], live, initial, api.savedAt[c], q)
        BY <2>1, <3>2 DEF Held, live, initial
      <4>2. Stays(InAWindow(c)', memory'.containers[c], live, initial, api'.savedAt[c], q)
        BY <2>4, <4>1
      <4> QED
        BY <1>3, <2>2, <3>2, <4>2 DEF Held
    <3> QED
      BY <3>1, <3>2
  <2> QED
    BY <2>1, <2>5
<1>11. SpreadOK'
  <2> SUFFICES ASSUME NEW c \in Containers \ disturbed' PROVE SpreadAt(c)'
    BY DEF SpreadOK
  <2>1. SpreadAt(c)
    BY <1>3 DEF Inv, SpreadOK
  <2>2. /\ Entries(memory.live, c)' = Entries(memory.live, c)
        /\ Entries(memory.initial, c)' = Entries(memory.initial, c)
        /\ Entries(api.saved, c)' = Entries(api.saved, c)
    BY <1>0, <1>3 DEF Entries
  <2>3. InAWindow(c) = InAWindow(c)'
    BY <1>3 DEF InAWindow
  <2>4. InAWindow(c) => memory'.containers[c] = memory.containers[c]
    BY <1>3, <2>3 DEF InAWindow
  <2> QED
    BY <1>0, <2>1, <2>2, <2>3, <2>4 DEF SpreadAt
<1> QED
  BY <1>4, <1>6, <1>7, <1>8, <1>9, <1>10, <1>11 DEF Inv

-----------------------------------------------------------------------------
(* Samples and OOMs.                                                       *)

\* Container c gets a sample, or none.
Metering(c) ==
    \/ /\ memory'.live[c] = memory.live[c]
       /\ c \in DOMAIN memory.containers => memory'.containers[c] = memory.containers[c]
    \/ /\ c \in DOMAIN memory.containers
       /\ memory'.containers[c] \in ContainerStates
       /\ \E time \in 1 .. now, usage \in Nat :
              /\ Effect(memory.containers[c], memory.live[c],
                        memory'.containers[c], memory'.live[c], time, usage)
              /\ c \in DOMAIN memory.initial /\ time < api.savedAt[c] => c \in disturbed'

\* What LoadRealTimeMetrics does with its samples and with each OOM.
MeterStep ==
    /\ UNCHANGED <<now, api, forgotten>>
    /\ memory' = [known |-> memory.known, written |-> memory.written,
                  initial |-> memory.initial, live |-> memory'.live,
                  containers |-> memory'.containers]
    /\ DOMAIN memory'.live = DOMAIN memory.live
    /\ DOMAIN memory'.containers = DOMAIN memory.containers
    /\ \A c \in DOMAIN memory.live : Metering(c)
    /\ disturbed \subseteq disturbed' /\ disturbed' \subseteq Containers
    /\ loop.pc \in {"metrics", "ooms"} /\ loop'.pc = "ooms"
    /\ loop'.pending = loop.pending

\* A sample leaves the memory well-formed, covers what was gathered, and leaves a
\* window whose peak is gathered.
LEMMA MeterWindows ==
    ASSUME Inv, MeterStep
    PROVE  /\ MemoryOK' /\ WindowsOK'
           /\ \A c \in DOMAIN memory.live :
                  /\ IsHistogram(memory.live[c]) /\ IsHistogram(memory'.live[c])
                  /\ Covers(memory'.live[c], memory.live[c])
                  /\ ZerosKept(memory'.live[c], memory.live[c])
<1>1. /\ MemoryOK /\ now \in Nat
      /\ DOMAIN memory.live \subseteq Containers
      /\ DOMAIN memory.containers \subseteq DOMAIN memory.live
      /\ \A c \in DOMAIN memory.live : IsHistogram(memory.live[c])
      /\ \A c \in DOMAIN memory.containers : memory.containers[c] \in ContainerStates
  BY Numbers DEF Inv, TypeOK, MemoryOK
<1>2. /\ memory'.known = memory.known /\ memory'.written = memory.written
      /\ memory'.initial = memory.initial
  BY DEF MeterStep
<1>3. ASSUME NEW c \in DOMAIN memory.live
      PROVE  /\ IsHistogram(memory'.live[c])
             /\ Covers(memory'.live[c], memory.live[c])
             /\ ZerosKept(memory'.live[c], memory.live[c])
             /\ c \in DOMAIN memory.containers =>
                    /\ memory'.containers[c] \in ContainerStates
                    /\ WindowOK(memory.containers[c], memory.live[c])'
  <2>1. CASE /\ memory'.live[c] = memory.live[c]
             /\ c \in DOMAIN memory.containers => memory'.containers[c] = memory.containers[c]
    <3>1. Covers(memory.live[c], memory.live[c]) /\ ZerosKept(memory.live[c], memory.live[c])
      BY <1>1 DEF Covers, ZerosKept, IsHistogram, Peaks
    <3>2. c \in DOMAIN memory.containers => WindowOK(memory.containers[c], memory.live[c])'
      BY <2>1 DEF Inv, WindowsOK, WindowOK, MeterStep, At
    <3> QED
      BY <1>1, <2>1, <3>1, <3>2
  <2>2. CASE ~ (/\ memory'.live[c] = memory.live[c]
                /\ c \in DOMAIN memory.containers =>
                       memory'.containers[c] = memory.containers[c])
    <3> DEFINE s == memory.containers[c]
               h == memory.live[c]
               s2 == memory'.containers[c]
               h2 == memory'.live[c]
    <3>1. PICK time \in 1 .. now, usage \in Nat : Effect(s, h, s2, h2, time, usage)
      BY <2>2 DEF MeterStep, Metering
    <3>2. /\ c \in DOMAIN memory.containers
          /\ s \in ContainerStates /\ s2 \in ContainerStates /\ IsHistogram(h)
      BY <1>1, <2>2 DEF MeterStep, Metering
    <3>3. /\ s.windowEnd - Interval <= now
          /\ s.windowEnd # 0 => Current(s) \in DOMAIN h
      BY <3>2 DEF Inv, WindowsOK, WindowOK
    <3> HIDE DEF s, h, s2, h2
    <3>4. /\ IsHistogram(h2) /\ Covers(h2, h) /\ ZerosKept(h2, h)
          /\ s2.windowEnd # 0 => Current(s2) \in DOMAIN h2
      BY <3>1, <3>2, <3>3, EffectCovers
    <3>5. s2.windowEnd - Interval <= now
      <4>1. CASE Unmoved(s, h, s2, h2, time, usage)
        BY <3>3, <4>1 DEF Unmoved
      <4>2. CASE Raised(s, h, s2, h2, time, usage)
        BY <3>3, <4>2 DEF Raised
      <4>3. CASE Opened(s, h, s2, h2, time, usage)
        <5>1. s2.windowEnd - Interval <= time
          BY <4>3 DEF Opened, InWindow
        <5>2. s2.windowEnd \in Nat /\ Interval \in Nat
          BY <3>2, CurrentType, Numbers
        <5> QED
          BY <1>1, <3>1, <5>1, <5>2
      <4> QED
        BY <3>1, <4>1, <4>2, <4>3 DEF Effect
    <3>6. WindowOK(memory.containers[c], memory.live[c])'
      <4>1. now' = now /\ ~ At("store")'
        BY DEF MeterStep, At
      <4> QED
        BY <3>4, <3>5, <4>1 DEF WindowOK, s2, h2
    <3> QED
      BY <3>2, <3>4, <3>6 DEF s, h, s2, h2
  <2> QED
    BY <2>1, <2>2
<1>4. MemoryOK'
  BY <1>1, <1>2, <1>3 DEF MeterStep, MemoryOK
<1>5. WindowsOK'
  BY <1>1, <1>3 DEF WindowsOK, MeterStep
<1> QED
  BY <1>1, <1>3, <1>4, <1>5

\* What c has in a sampled step, in the words of the lemmas about one container.
LEMMA MeterCase ==
    ASSUME Inv, MeterStep, NEW c,
           ~ (/\ Entries(memory'.live, c) = Entries(memory.live, c)
              /\ InAWindow(c)' = InAWindow(c)
              /\ InAWindow(c) => memory'.containers[c] = memory.containers[c])
    PROVE  /\ c \in DOMAIN memory.containers
           /\ Entries(memory.live, c) = memory.live[c]
           /\ Entries(memory'.live, c) = memory'.live[c]
           /\ IsHistogram(memory.live[c])
           /\ memory.containers[c] \in ContainerStates
           /\ memory'.containers[c] \in ContainerStates
           /\ InAWindow(c) = (memory.containers[c].windowEnd # 0)
           /\ InAWindow(c)' = (memory'.containers[c].windowEnd # 0)
           /\ memory.containers[c].windowEnd # 0 =>
                  Current(memory.containers[c]) \in DOMAIN memory.live[c]
           /\ \E time \in 1 .. now, usage \in Nat :
                  /\ Effect(memory.containers[c], memory.live[c],
                            memory'.containers[c], memory'.live[c], time, usage)
                  /\ c \in DOMAIN memory.initial /\ time < api.savedAt[c] => c \in disturbed'
<1>1. /\ DOMAIN memory.containers \subseteq DOMAIN memory.live
      /\ \A d \in DOMAIN memory.live : IsHistogram(memory.live[d])
      /\ \A d \in DOMAIN memory.containers : memory.containers[d] \in ContainerStates
      /\ DOMAIN memory'.live = DOMAIN memory.live
      /\ DOMAIN memory'.containers = DOMAIN memory.containers
  BY DEF Inv, TypeOK, MemoryOK, MeterStep
<1>2. c \in DOMAIN memory.live
  BY <1>1 DEF Entries, InAWindow
<1>3. ~ (/\ memory'.live[c] = memory.live[c]
         /\ c \in DOMAIN memory.containers => memory'.containers[c] = memory.containers[c])
  BY <1>1, <1>2 DEF Entries, InAWindow
<1>4. /\ c \in DOMAIN memory.containers
      /\ memory'.containers[c] \in ContainerStates
      /\ \E time \in 1 .. now, usage \in Nat :
             /\ Effect(memory.containers[c], memory.live[c],
                       memory'.containers[c], memory'.live[c], time, usage)
             /\ c \in DOMAIN memory.initial /\ time < api.savedAt[c] => c \in disturbed'
  BY <1>2, <1>3 DEF MeterStep, Metering
<1>5. /\ InAWindow(c) = (memory.containers[c].windowEnd # 0)
      /\ InAWindow(c)' = (memory'.containers[c].windowEnd # 0)
  BY <1>1, <1>4 DEF InAWindow
<1>6. memory.containers[c].windowEnd # 0 =>
          Current(memory.containers[c]) \in DOMAIN memory.live[c]
  BY <1>4 DEF Inv, WindowsOK, WindowOK
<1> QED
  BY <1>1, <1>2, <1>4, <1>5, <1>6 DEF Entries

\* Samples and OOMs keep what the checkpoints hold.
LEMMA MeterHistory ==
    ASSUME Inv, MeterStep
    PROVE  HistoryOK'
<1>0. /\ UNCHANGED <<now, api, forgotten>> /\ Running
      /\ memory'.initial = memory.initial /\ memory'.known = memory.known
  BY DEF MeterStep, Running
<1> SUFFICES ASSUME NEW c \in DOMAIN api.saved \ forgotten, NEW p \in DOMAIN api.saved[c]
             PROVE  \E q \in Peaks : Held(c, q)' /\ q[1] = p[1] /\ q[2] >= p[2]
  BY <1>0 DEF HistoryOK
<1>1. PICK q \in Peaks : Held(c, q) /\ q[1] = p[1] /\ q[2] >= p[2]
  BY <1>0 DEF Inv, HistoryOK
<1>2. p \in Peaks /\ p[2] \in Nat /\ q[2] \in Nat
  BY DEF Inv, TypeOK, ApiOK, IsHistogram, Peaks
<1> DEFINE initial == Entries(memory.initial, c)
<1>3. Entries(memory.initial, c)' = initial /\ IsHistogram(initial)
  BY <1>0, HistogramTypes DEF Inv, Entries
<1>4. CASE c \in DOMAIN memory.initial /\ memory.known[VpaOf[c]] = "nothing"
  <2>1. Held(c, q)'
    BY <1>0, <1>1, <1>4 DEF Held
  <2> QED
    BY <1>1, <2>1
<1>5. CASE ~ (c \in DOMAIN memory.initial /\ memory.known[VpaOf[c]] = "nothing")
  <2>1. Stays(InAWindow(c), memory.containers[c], Entries(memory.live, c), initial,
              api.savedAt[c], q)
    BY <1>1, <1>5 DEF Held
  <2>2. \A r : Held(c, r)' <=> Stays(InAWindow(c)', memory'.containers[c],
                                     Entries(memory'.live, c), initial, api.savedAt[c], r)
    BY <1>0, <1>3, <1>5 DEF Held
  <2> HIDE DEF initial
  <2>3. CASE /\ Entries(memory'.live, c) = Entries(memory.live, c)
             /\ InAWindow(c)' = InAWindow(c)
             /\ InAWindow(c) => memory'.containers[c] = memory.containers[c]
    <3>1. CASE InAWindow(c)
      BY <1>1, <2>1, <2>2, <2>3, <3>1
    <3>2. CASE ~ InAWindow(c)
      <4>1. InAWindow(c) = FALSE /\ InAWindow(c)' = FALSE
        BY <2>3, <3>2 DEF InAWindow
      <4>2. Held(c, q)'
        BY <2>1, <2>2, <2>3, <4>1 DEF Stays, Gathered
      <4> QED
        BY <1>1, <4>2
    <3> QED
      BY <3>1, <3>2
  <2>4. CASE ~ (/\ Entries(memory'.live, c) = Entries(memory.live, c)
                /\ InAWindow(c)' = InAWindow(c)
                /\ InAWindow(c) => memory'.containers[c] = memory.containers[c])
    <3> DEFINE s == memory.containers[c]
               h == memory.live[c]
               s2 == memory'.containers[c]
               h2 == memory'.live[c]
    <3>1. /\ Entries(memory.live, c) = h /\ Entries(memory'.live, c) = h2
          /\ IsHistogram(h) /\ s \in ContainerStates /\ s2 \in ContainerStates
          /\ InAWindow(c) = (s.windowEnd # 0) /\ InAWindow(c)' = (s2.windowEnd # 0)
          /\ s.windowEnd # 0 => Current(s) \in DOMAIN h
          /\ \E time \in 1 .. now, usage \in Nat : Effect(s, h, s2, h2, time, usage)
      BY <2>4, MeterCase
    <3>2. Stays(s.windowEnd # 0, s, h, initial, api.savedAt[c], q)
      BY <2>1, <3>1
    <3>3. \A r : Held(c, r)' <=> Stays(s2.windowEnd # 0, s2, h2, initial, api.savedAt[c], r)
      BY <2>2, <3>1
    <3>4. api.savedAt[c] \in Nat
      BY DEF Inv, TypeOK, ApiOK
    <3> HIDE DEF s, h, s2, h2
    <3>5. PICK r \in Peaks : /\ Stays(s2.windowEnd # 0, s2, h2, initial, api.savedAt[c], r)
                             /\ r[1] = q[1] /\ r[2] >= q[2]
      BY <1>3, <3>1, <3>2, <3>4, EffectStays
    <3>6. r[2] >= p[2]
      BY <1>1, <1>2, <3>5 DEF Peaks
    <3> QED
      BY <1>1, <3>3, <3>5, <3>6
  <2> QED
    BY <2>3, <2>4
<1> QED
  BY <1>4, <1>5

\* Samples and OOMs keep the peaks apart.
LEMMA MeterSpread ==
    ASSUME Inv, MeterStep
    PROVE  SpreadOK'
<1>0. /\ UNCHANGED <<now, api, forgotten>> /\ disturbed \subseteq disturbed'
      /\ memory'.initial = memory.initial
  BY DEF MeterStep
<1> SUFFICES ASSUME NEW c \in Containers \ disturbed' PROVE SpreadAt(c)'
  BY DEF SpreadOK
<1>1. SpreadAt(c)
  BY <1>0 DEF Inv, SpreadOK
<1> DEFINE initial == Entries(memory.initial, c)
<1>2. Entries(memory.initial, c)' = initial /\ Entries(api.saved, c)' = Entries(api.saved, c)
  BY <1>0 DEF Entries
<1>3. IsHistogram(initial)
  BY HistogramTypes DEF Inv
<1>4. CASE /\ Entries(memory'.live, c) = Entries(memory.live, c)
           /\ InAWindow(c)' = InAWindow(c)
           /\ InAWindow(c) => memory'.containers[c] = memory.containers[c]
  <2>1. Entries(memory.live, c)' = Entries(memory.live, c)
    BY <1>4 DEF Entries
  <2> QED
    BY <1>0, <1>1, <1>2, <1>4, <2>1 DEF SpreadAt
<1>5. CASE ~ (/\ Entries(memory'.live, c) = Entries(memory.live, c)
              /\ InAWindow(c)' = InAWindow(c)
              /\ InAWindow(c) => memory'.containers[c] = memory.containers[c])
  <2> DEFINE s == memory.containers[c]
             h == memory.live[c]
             s2 == memory'.containers[c]
             h2 == memory'.live[c]
  <2>1. /\ Entries(memory.live, c) = h /\ Entries(memory'.live, c) = h2
        /\ IsHistogram(h) /\ s \in ContainerStates /\ s2 \in ContainerStates
        /\ InAWindow(c) = (s.windowEnd # 0) /\ InAWindow(c)' = (s2.windowEnd # 0)
        /\ s.windowEnd # 0 => Current(s) \in DOMAIN h
    BY <1>5, MeterCase
  <2>2. PICK time \in 1 .. now, usage \in Nat :
            /\ Effect(s, h, s2, h2, time, usage)
            /\ c \in DOMAIN memory.initial /\ time < api.savedAt[c] => c \in disturbed'
    BY <1>5, MeterCase
  <2>3. /\ Spread(h (+) initial)
        /\ s.windowEnd = 0 => DOMAIN h = {}
        /\ s.windowEnd # 0 => Before(s, DOMAIN h \cup DOMAIN initial)
        /\ \A p \in DOMAIN initial : p[1] <= api.savedAt[c]
    BY <1>1, <2>1 DEF SpreadAt
  <2>4. time \in Nat /\ api.savedAt[c] \in Nat
    BY Numbers DEF Inv, TypeOK, ApiOK
  <2>5. \A p \in DOMAIN initial : p[1] <= time
    <3>1. CASE c \in DOMAIN memory.initial
      <4>1. api.savedAt[c] <= time
        BY <2>2, <2>4, <3>1
      <4>2. \A p \in DOMAIN initial : p[1] \in Nat
        BY <1>3 DEF IsHistogram, Peaks
      <4> HIDE DEF initial
      <4> QED
        BY <2>3, <2>4, <4>1, <4>2
    <3>2. CASE c \notin DOMAIN memory.initial
      BY <3>2, CopiesInEmpty DEF Entries
    <3> QED
      BY <3>1, <3>2
  <2> HIDE DEF s, h, s2, h2, initial
  <2>6. /\ Spread(h2 (+) initial)
        /\ s2.windowEnd = 0 => DOMAIN h2 = {}
        /\ s2.windowEnd # 0 => Before(s2, DOMAIN h2 \cup DOMAIN initial)
    <3>1. /\ s \in ContainerStates /\ IsHistogram(h) /\ s2 \in ContainerStates
          /\ s.windowEnd # 0 => Current(s) \in DOMAIN h
      BY <2>1
    <3>2. Effect(s, h, s2, h2, time, usage)
      BY <2>2
    <3>3. s.windowEnd = 0 => \A p \in DOMAIN initial : p[1] <= time
      BY <2>5
    <3>4. /\ Spread(h (+) initial)
          /\ s.windowEnd = 0 => DOMAIN h = {}
          /\ s.windowEnd # 0 => Before(s, DOMAIN h \cup DOMAIN initial)
      BY <2>3
    <3> QED
      BY <1>3, <2>4, <3>1, <3>2, <3>3, <3>4, EffectSpread
  <2>7. Entries(memory.live, c)' = h2
    BY <2>1 DEF Entries
  <2>8. \A p \in DOMAIN Entries(api.saved, c) \cup DOMAIN initial : p[1] <= api.savedAt[c]
    BY <1>1 DEF SpreadAt, initial
  <2> QED
    BY <1>0, <1>1, <1>2, <2>1, <2>6, <2>7, <2>8 DEF SpreadAt, s2
<1> QED
  BY <1>4, <1>5

\* All of the invariant but what the OOMs are counted in.
LEMMA MeterInv ==
    ASSUME Inv, MeterStep, LoopOK', streams' \in [Sources -> Seq(Infos)],
           channel' \in Seq(Infos), recorded' \subseteq Infos, OOMsOK'
    PROVE  Inv'
<1>0. /\ UNCHANGED <<now, api, forgotten>>
      /\ memory'.initial = memory.initial /\ memory'.known = memory.known
      /\ DOMAIN memory'.live = DOMAIN memory.live
      /\ disturbed' \subseteq Containers
      /\ loop.pc \in {"metrics", "ooms"} /\ loop'.pc = "ooms"
      /\ loop'.pending = loop.pending
  BY DEF MeterStep
<1>1. TypeOK'
  <2>1. ApiOK'
    BY <1>0 DEF Inv, TypeOK, ApiOK, Infos
  <2>2. Infos' = Infos
    BY <1>0 DEF Infos
  <2>3. MemoryOK'
    BY MeterWindows
  <2> QED
    BY <1>0, <2>1, <2>2, <2>3 DEF Inv, TypeOK
<1>2. StagesOK'
  BY <1>0 DEF Inv, StagesOK, Running, At
<1>3. KnownOK'
  BY <1>0 DEF Inv, KnownOK, Running
<1> QED
  BY <1>1, <1>2, <1>3, MeterWindows, MeterHistory, MeterSpread DEF Inv

\* OOMs that were recorded count in what covers and keeps what they were counted in.
LEMMA MeterOOMs ==
    ASSUME Inv, MeterStep, NEW info \in recorded
    PROVE  /\ info.container \in DOMAIN memory'.live
           /\ \E p \in DOMAIN memory'.live[info.container] : Counts(info.time, p)
<1> DEFINE c == info.container
<1>1. c \in DOMAIN memory.live /\ DOMAIN memory'.live = DOMAIN memory.live
  BY DEF Inv, OOMsOK, MeterStep
<1>2. PICK p \in DOMAIN memory.live[c] : Counts(info.time, p)
  BY DEF Inv, OOMsOK, OOMCounted
<1>3. /\ IsHistogram(memory.live[c]) /\ IsHistogram(memory'.live[c])
      /\ Covers(memory'.live[c], memory.live[c])
      /\ ZerosKept(memory'.live[c], memory.live[c])
  BY <1>1, MeterWindows
<1>4. CASE p[2] = 0
  BY <1>1, <1>2, <1>3, <1>4 DEF ZerosKept
<1>5. CASE p[2] >= Request + OOMBumpUp
  <2>1. PICK q \in DOMAIN memory'.live[c] : q[1] = p[1] /\ q[2] >= p[2]
    BY <1>3 DEF Covers
  <2>2. p[2] \in Nat /\ q[2] \in Nat /\ Request + OOMBumpUp \in Nat
    BY <1>3, Numbers DEF IsHistogram, Peaks
  <2>3. Counts(info.time, q)
    BY <1>2, <1>5, <2>1, <2>2 DEF Counts, InWindow
  <2> QED
    BY <1>1, <2>3
<1> QED
  BY <1>2, <1>4, <1>5 DEF Counts

\* LoadRealTimeMetrics keeps the invariant.
LEMMA LoadRealTimeMetricsInv == Inv /\ LoadRealTimeMetrics => Inv'
<1> SUFFICES ASSUME Inv, LoadRealTimeMetrics PROVE Inv'
  OBVIOUS
<1>0. /\ UNCHANGED <<now, api, streams, channel, forgotten, recorded>>
      /\ loop.pc = "metrics" /\ Goto("ooms")
  BY DEF LoadRealTimeMetrics, At
<1>1. /\ TypeOK /\ LoopOK /\ MemoryOK /\ now \in Nat
      /\ streams \in [Sources -> Seq(Infos)] /\ channel \in Seq(Infos)
      /\ recorded \subseteq Infos
      /\ DOMAIN memory.containers \subseteq DOMAIN memory.live
      /\ DOMAIN memory.initial \subseteq Containers /\ disturbed \subseteq Containers
      /\ \A c \in DOMAIN memory.containers : memory.containers[c] \in ContainerStates
  BY Numbers DEF Inv, TypeOK, MemoryOK
<1>2. LoopOK' /\ loop'.pc = "ooms" /\ loop'.pending = loop.pending
  BY <1>0, <1>1, GotoType DEF PCs
<1> DEFINE after(c, usage, time) == addMemorySample(memory.containers[c], memory.live[c],
                                                    time, usage[c], FALSE)
           step(Sampled, usage, time) ==
               /\ disturbed' = disturbed \cup Outdated(Sampled, time)
               /\ memory' = [memory EXCEPT
                     !.containers = [c \in DOMAIN @ |->
                         IF c \in Sampled THEN after(c, usage, time).state ELSE @[c]],
                     !.live = [c \in DOMAIN @ |->
                         IF c \in Sampled THEN after(c, usage, time).live ELSE @[c]]]
<1>3. PICK Sampled \in SUBSET (Metered \cap DOMAIN memory.containers) :
          \E usage \in [Sampled -> 0 .. MaxUsage], time \in 1 .. now :
              step(Sampled, usage, time)
  BY DEF LoadRealTimeMetrics
<1>4. PICK usage \in [Sampled -> 0 .. MaxUsage], time \in 1 .. now :
          step(Sampled, usage, time)
  BY <1>3
<1> HIDE DEF after
<1>5. /\ memory' = [known |-> memory.known, written |-> memory.written,
                    initial |-> memory.initial, live |-> memory'.live,
                    containers |-> memory'.containers]
      /\ memory'.containers = [c \in DOMAIN memory.containers |->
             IF c \in Sampled THEN after(c, usage, time).state ELSE memory.containers[c]]
      /\ memory'.live = [c \in DOMAIN memory.live |->
             IF c \in Sampled THEN after(c, usage, time).live ELSE memory.live[c]]
  BY <1>1, <1>4 DEF MemoryOK
<1>6. ASSUME NEW c \in DOMAIN memory.live PROVE Metering(c)
  <2>1. CASE c \notin Sampled
    BY <1>5, <2>1 DEF Metering
  <2>2. CASE c \in Sampled
    <3>1. c \in DOMAIN memory.containers
      BY <2>2
    <3>2. usage[c] \in Nat /\ time \in Nat \ {0}
      BY <1>1, <2>2, Numbers
    <3>3. memory.containers[c] \in ContainerStates
      BY <1>1, <3>1
    <3>4. /\ after(c, usage, time).state \in ContainerStates
          /\ Effect(memory.containers[c], memory.live[c], after(c, usage, time).state,
                    after(c, usage, time).live, time, usage[c])
      BY <3>2, <3>3, SampleEffect DEF after
    <3>5. /\ memory'.containers[c] = after(c, usage, time).state
          /\ memory'.live[c] = after(c, usage, time).live
      BY <1>5, <2>2, <3>1
    <3>6. c \in DOMAIN memory.initial /\ time < api.savedAt[c] => c \in disturbed'
      BY <1>4, <2>2 DEF Outdated
    <3> QED
      BY <3>1, <3>2, <3>4, <3>5, <3>6 DEF Metering
  <2> QED
    BY <2>1, <2>2
<1>7. disturbed \subseteq disturbed' /\ disturbed' \subseteq Containers
  BY <1>1, <1>4 DEF Outdated
<1>8. MeterStep
  BY <1>0, <1>2, <1>5, <1>6, <1>7 DEF MeterStep
<1>9. OOMsOK'
  BY <1>0, <1>8, MeterOOMs DEF OOMsOK, OOMCounted
<1> QED
  BY <1>0, <1>1, <1>2, <1>8, <1>9, MeterInv

\* The memory that an OOM asks for.
LEMMA MemoryNeededType ==
    ASSUME NEW s \in ContainerStates
    PROVE  MemoryNeeded(s) \in Nat /\ MemoryNeeded(s) >= Request + OOMBumpUp
  BY Numbers DEF MemoryNeeded, Larger, ContainerStates

\* An OOM that is not too old is counted in the window that it happened in.
LEMMA OOMEffect ==
    ASSUME NEW s \in ContainerStates, NEW h, IsHistogram(h), NEW time \in Nat \ {0},
           s.windowEnd # 0 => Current(s) \in DOMAIN h,
           ~ TooOld(s, time)
    PROVE  LET after == addMemorySample(s, h, time, MemoryNeeded(s), TRUE)
           IN  \E p \in DOMAIN after.live : Counts(time, p)
<1> DEFINE after == addMemorySample(s, h, time, MemoryNeeded(s), TRUE)
           s2 == after.state
           h2 == after.live
           usage == MemoryNeeded(s)
<1>1. usage \in Nat /\ usage >= Request + OOMBumpUp
  BY MemoryNeededType
<1> HIDE DEF usage
<1>2. /\ s2 \in ContainerStates
      /\ Effect(s, h, s2, h2, time, usage)
      /\ Unmoved(s, h, s2, h2, time, usage)
            => \/ ~ (time < s.windowEnd)
               \/ GetMaxMemoryPeak(s) = 0
               \/ usage <= GetMaxMemoryPeak(s)
      /\ s.windowEnd = 0 => Opened(s, h, s2, h2, time, usage)
      /\ time >= s.windowEnd => Opened(s, h, s2, h2, time, usage)
  BY <1>1, SampleEffect DEF usage
<1>3. IsHistogram(h2) /\ (s2.windowEnd # 0 => Current(s2) \in DOMAIN h2)
  <2> HIDE DEF s2, h2
  <2> QED
    BY <1>1, <1>2, EffectCovers
<1>4. /\ s.windowEnd \in Nat /\ GetMaxMemoryPeak(s) \in Nat
      /\ Interval \in Nat /\ Request + OOMBumpUp \in Nat
      /\ Current(s2)[1] = s2.windowEnd /\ Current(s2)[2] = GetMaxMemoryPeak(s2)
  <2> HIDE DEF s2, h2
  <2> QED
    BY <1>2, CurrentType, Numbers
<1> SUFFICES \E p \in DOMAIN h2 : Counts(time, p)
  BY DEF usage
<1> HIDE DEF s2, h2
<1>5. CASE Opened(s, h, s2, h2, time, usage)
  <2>1. /\ s2.windowEnd # 0 /\ GetMaxMemoryPeak(s2) = usage
        /\ s2.windowEnd - Interval <= time /\ time < s2.windowEnd
    BY <1>5 DEF Opened, InWindow
  <2> QED
    BY <1>1, <1>3, <1>4, <2>1 DEF InWindow, Counts
<1>6. CASE ~ Opened(s, h, s2, h2, time, usage)
  <2>1. s.windowEnd # 0 /\ time < s.windowEnd
    BY <1>2, <1>4, <1>6
  <2>2. s.windowEnd - Interval <= time
    BY <1>4 DEF TooOld
  <2>3. CASE Raised(s, h, s2, h2, time, usage)
    <3>1. s2.windowEnd = s.windowEnd /\ GetMaxMemoryPeak(s2) = usage
      BY <2>3 DEF Raised
    <3> QED
      BY <1>1, <1>3, <1>4, <2>1, <2>2, <3>1 DEF InWindow, Counts
  <2>4. CASE Unmoved(s, h, s2, h2, time, usage)
    <3>1. s2.windowEnd = s.windowEnd /\ GetMaxMemoryPeak(s2) = GetMaxMemoryPeak(s)
      BY <2>4 DEF Unmoved
    <3>2. GetMaxMemoryPeak(s) = 0 \/ GetMaxMemoryPeak(s) >= Request + OOMBumpUp
      BY <1>1, <1>2, <1>4, <2>1, <2>4
    <3> QED
      BY <1>3, <1>4, <2>1, <2>2, <3>1, <3>2 DEF InWindow, Counts
  <2> QED
    BY <1>2, <1>6, <2>3, <2>4 DEF Effect
<1> QED
  BY <1>5, <1>6

\* RecordOOM keeps the invariant, and counts the OOM unless it is too old.
LEMMA RecordOOMInv == Inv /\ RecordOOM => Inv'
<1> SUFFICES ASSUME Inv, RecordOOM PROVE Inv'
  OBVIOUS
<1> DEFINE info  == Head(channel)
           c     == info.container
           state == memory.containers[c]
           after == addMemorySample(state, memory.live[c], info.time,
                                    MemoryNeeded(state), TRUE)
<1>0. /\ UNCHANGED <<now, api, streams, loop, forgotten>>
      /\ loop.pc = "ooms" /\ channel # <<>> /\ channel' = Tail(channel)
  BY DEF RecordOOM, At
<1>1. /\ TypeOK /\ LoopOK /\ MemoryOK /\ now \in Nat
      /\ streams \in [Sources -> Seq(Infos)] /\ channel \in Seq(Infos)
      /\ recorded \subseteq Infos
      /\ DOMAIN memory.containers \subseteq DOMAIN memory.live
      /\ DOMAIN memory.live \subseteq Containers
      /\ DOMAIN memory.initial \subseteq Containers /\ disturbed \subseteq Containers
      /\ \A d \in DOMAIN memory.containers : memory.containers[d] \in ContainerStates
      /\ \A d \in DOMAIN memory.live : IsHistogram(memory.live[d])
  BY Numbers DEF Inv, TypeOK, MemoryOK
<1>2. LoopOK' /\ loop'.pc = "ooms" /\ loop'.pending = loop.pending
  BY <1>0, <1>1 DEF LoopOK
<1>3. info \in Infos /\ channel' \in Seq(Infos)
  BY <1>0, <1>1
<1>4. c \in Containers /\ info.time \in 1 .. now /\ info.time \in Nat \ {0}
  BY <1>1, <1>3 DEF Infos
<1>5. CASE c \notin DOMAIN memory.containers \/ TooOld(state, info.time)
  <2>1. UNCHANGED <<memory, disturbed, recorded>>
    BY <1>5 DEF RecordOOM
  <2>2. MeterStep
    <3>1. memory' = [known |-> memory.known, written |-> memory.written,
                     initial |-> memory.initial, live |-> memory'.live,
                     containers |-> memory'.containers]
      BY <1>1, <2>1 DEF MemoryOK
    <3>2. \A d \in DOMAIN memory.live : Metering(d)
      BY <2>1 DEF Metering
    <3> QED
      BY <1>0, <1>1, <1>2, <2>1, <3>1, <3>2 DEF MeterStep
  <2>3. OOMsOK'
    BY <2>1 DEF Inv, OOMsOK, OOMCounted
  <2> QED
    BY <1>0, <1>1, <1>2, <1>3, <2>1, <2>2, <2>3, MeterInv
<1>6. CASE c \in DOMAIN memory.containers /\ ~ TooOld(state, info.time)
  <2>1. /\ memory' = [memory EXCEPT !.containers[c] = after.state, !.live[c] = after.live]
        /\ disturbed' = disturbed \cup Outdated({c}, info.time)
        /\ recorded' = recorded \cup {info}
    BY <1>6 DEF RecordOOM
  <2>2. state \in ContainerStates /\ IsHistogram(memory.live[c])
    BY <1>1, <1>6
  <2>3. MemoryNeeded(state) \in Nat /\ MemoryNeeded(state) >= Request + OOMBumpUp
    BY <2>2, MemoryNeededType
  <2>4. /\ after.state \in ContainerStates
        /\ Effect(state, memory.live[c], after.state, after.live, info.time,
                  MemoryNeeded(state))
    <3> HIDE DEF state
    <3> QED
      BY <1>4, <2>2, <2>3, SampleEffect
  <2>5. state.windowEnd # 0 => Current(state) \in DOMAIN memory.live[c]
    BY <1>6 DEF Inv, WindowsOK, WindowOK
  <2>6. \E p \in DOMAIN after.live : Counts(info.time, p)
    <3> HIDE DEF state
    <3> QED
      BY <1>4, <1>6, <2>2, <2>5, OOMEffect
  <2> DEFINE s2 == after.state
             h2 == after.live
  <2>7. memory' = [memory EXCEPT !.containers[c] = s2, !.live[c] = h2]
    BY <2>1
  <2>8. /\ s2 \in ContainerStates
        /\ Effect(state, memory.live[c], s2, h2, info.time, MemoryNeeded(state))
        /\ \E p \in DOMAIN h2 : Counts(info.time, p)
    <3> HIDE DEF after, state, c, info
    <3> QED
      BY <2>4, <2>6
  <2> HIDE DEF s2, h2
  <2>9. /\ memory' = [known |-> memory.known, written |-> memory.written,
                      initial |-> memory.initial, live |-> memory'.live,
                      containers |-> memory'.containers]
        /\ memory'.containers = [memory.containers EXCEPT ![c] = s2]
        /\ memory'.live = [memory.live EXCEPT ![c] = h2]
    <3>1. memory = [known |-> memory.known, written |-> memory.written,
                    initial |-> memory.initial, live |-> memory.live,
                    containers |-> memory.containers]
      BY <1>1 DEF MemoryOK
    <3> HIDE DEF c
    <3> QED
      BY <2>7, <3>1
  <2>10. /\ DOMAIN memory'.live = DOMAIN memory.live
         /\ DOMAIN memory'.containers = DOMAIN memory.containers
         /\ memory'.containers[c] = s2 /\ memory'.live[c] = h2
         /\ \A d \in DOMAIN memory.live : d # c => memory'.live[d] = memory.live[d]
         /\ \A d \in DOMAIN memory.containers :
                d # c => memory'.containers[d] = memory.containers[d]
    <3> HIDE DEF c
    <3> QED
      BY <1>1, <1>6, <2>9
  <2>11. ASSUME NEW d \in DOMAIN memory.live PROVE Metering(d)
    <3>1. CASE d # c
      BY <2>10, <3>1 DEF Metering
    <3>2. CASE d = c
      <4>1. c \in DOMAIN memory.initial /\ info.time < api.savedAt[c] => c \in disturbed'
        BY <2>1 DEF Outdated
      <4>2. /\ memory'.containers[c] \in ContainerStates
            /\ Effect(memory.containers[c], memory.live[c], memory'.containers[c],
                      memory'.live[c], info.time, MemoryNeeded(state))
        <5> HIDE DEF c, info
        <5> QED
          BY <2>10, <2>8
      <4> HIDE DEF c, state, info
      <4>3. Metering(c)
        BY <1>4, <1>6, <2>3, <4>1, <4>2 DEF Metering
      <4> QED
        BY <3>2, <4>3
    <3> QED
      BY <3>1, <3>2
  <2>12. disturbed \subseteq disturbed' /\ disturbed' \subseteq Containers
    BY <1>1, <1>4, <2>1 DEF Outdated
  <2>13. MeterStep
    <3> HIDE DEF c
    <3> QED
      BY <1>0, <1>2, <2>9, <2>10, <2>11, <2>12 DEF MeterStep
  <2>14. OOMsOK'
    <3>1. ASSUME NEW other \in recorded'
          PROVE  /\ other.container \in DOMAIN memory'.live
                 /\ \E p \in DOMAIN memory'.live[other.container] : Counts(other.time, p)
      <4>1. CASE other \in recorded
        BY <2>13, <4>1, MeterOOMs
      <4>2. CASE other = info
        <5>1. c \in DOMAIN memory'.live
          BY <1>1, <1>6, <2>10
        <5>2. \E p \in DOMAIN memory'.live[c] : Counts(info.time, p)
          <6> HIDE DEF c, info
          <6> QED
            BY <2>10, <2>8
        <5> HIDE DEF info
        <5> QED
          BY <4>2, <5>1, <5>2
      <4> QED
        BY <2>1, <4>1, <4>2
    <3> QED
      BY <3>1 DEF OOMsOK, OOMCounted
  <2>15. recorded' \subseteq Infos
    BY <1>1, <1>3, <2>1
  <2> QED
    BY <1>0, <1>1, <1>2, <1>3, <2>13, <2>14, <2>15, MeterInv
<1> QED
  BY <1>5, <1>6

-----------------------------------------------------------------------------
(* Checkpoints.                                                            *)

\* What follows from the parts of the memory that a step leaves alone.
LEMMA FrameStep ==
    ASSUME Inv, UNCHANGED <<now, api, forgotten, disturbed, recorded>>,
           memory'.known = memory.known, memory'.initial = memory.initial,
           memory'.live = memory.live, memory'.containers = memory.containers,
           Running, Running'
    PROVE  OOMsOK' /\ KnownOK' /\ HistoryOK' /\ SpreadOK'
<1>1. OOMsOK'
  BY DEF Inv, OOMsOK, OOMCounted
<1>2. KnownOK'
  BY DEF Inv, KnownOK
<1>3. HistoryOK'
  BY DEF Inv, HistoryOK, Held, InAWindow
<1>4. SpreadOK'
  BY DEF Inv, SpreadOK, SpreadAt, InAWindow
<1> QED
  BY <1>1, <1>2, <1>3, <1>4

\* MaintainCheckpoints keeps the invariant.
LEMMA MaintainCheckpointsInv == Inv /\ MaintainCheckpoints => Inv'
<1> SUFFICES ASSUME Inv, MaintainCheckpoints PROVE Inv'
  OBVIOUS
<1>0. /\ UNCHANGED <<now, api, streams, channel, memory, forgotten, disturbed, recorded>>
      /\ loop.pc = "ooms"
  BY DEF MaintainCheckpoints, StoreCheckpoints, At
<1>1. PICK q \in VpasToCheckpoint :
          loop' = [loop EXCEPT !.pc = "store", !.todo = q, !.budget = MinCheckpoints,
                               !.start = now]
  BY DEF MaintainCheckpoints, StoreCheckpoints
<1>2. TypeOK /\ LoopOK /\ ApiOK /\ MemoryOK /\ now \in Nat
  BY Numbers DEF Inv, TypeOK
<1>3. q \in Seq(Vpas)
  <2> DEFINE V == {v \in Vpas : memory.known[v] # "no"}
  <2>1. Cardinality(V) \in Nat /\ V \subseteq Vpas
    <3>1. V \subseteq Vpas
      OBVIOUS
    <3> HIDE DEF V
    <3> QED
      BY <3>1, VpasAssumption, FS_Subset, FS_CardinalityType
  <2>2. q \in [1 .. Cardinality(V) -> V]
    BY DEF VpasToCheckpoint
  <2> HIDE DEF V
  <2>3. q \in Seq(V)
    BY <2>1, <2>2
  <2> QED
    BY <2>1, <2>3, SeqGrows
<1>4. /\ LoopOK' /\ loop'.pc = "store" /\ loop'.start = now
      /\ loop'.pending = loop.pending
  BY <1>1, <1>2, <1>3, Numbers DEF LoopOK, PCs
<1>5. TypeOK'
  <2>1. ApiOK' /\ MemoryOK'
    BY <1>0, <1>2 DEF ApiOK, MemoryOK, Infos
  <2>2. Infos' = Infos
    BY <1>0 DEF Infos
  <2> QED
    BY <1>0, <1>2, <1>4, <2>1, <2>2 DEF TypeOK
<1>6. StagesOK'
  BY <1>0, <1>2, <1>4 DEF Inv, StagesOK, Running, At
<1>7. WindowsOK'
  BY <1>0, <1>4 DEF Inv, WindowsOK, WindowOK
<1>8. OOMsOK' /\ KnownOK' /\ HistoryOK' /\ SpreadOK'
  BY <1>0, <1>4, FrameStep DEF Running
<1> QED
  BY <1>5, <1>6, <1>7, <1>8 DEF Inv

\* Ranks are numbers.
LEMMA RankedType ==
    ASSUME NEW written \in [Vpas -> Nat]
    PROVE  Ranked(written) \in [Vpas -> Nat]
<1> SUFFICES ASSUME NEW v \in Vpas, NEW W,
                    W = {w \in Vpas : written[w] > 0 /\ written[w] < written[v]}
             PROVE  1 + Cardinality({written[u] : u \in W}) \in Nat
  BY DEF Ranked
<1>1. IsFiniteSet(W)
  BY VpasAssumption, FS_Subset
<1>2. IsFiniteSet({written[u] : u \in W})
  <2> DEFINE T == {written[u] : u \in W}
             f == [u \in W |-> written[u]]
  <2>1. f \in Surjection(W, T)
    BY DEF Surjection
  <2> HIDE DEF T, f
  <2>2. IsFiniteSet(T)
    BY <1>1, <2>1, FS_Surjection
  <2> QED
    BY <2>2 DEF T
<1> QED
  BY <1>2, FS_CardinalityType

\* The memory when only the times of the checkpoints have changed.
LEMMA WrittenType ==
    ASSUME MemoryOK, NEW written \in [Vpas -> Nat],
           memory' = [memory EXCEPT !.written = written]
    PROVE  /\ MemoryOK'
           /\ memory'.known = memory.known /\ memory'.initial = memory.initial
           /\ memory'.live = memory.live /\ memory'.containers = memory.containers
<1>1. memory = [known |-> memory.known, written |-> memory.written,
                initial |-> memory.initial, live |-> memory.live,
                containers |-> memory.containers]
  BY DEF MemoryOK
<1>2. memory' = [known |-> memory.known, written |-> written,
                 initial |-> memory.initial, live |-> memory.live,
                 containers |-> memory.containers]
  BY <1>1
<1>3. /\ memory'.known = memory.known /\ memory'.initial = memory.initial
      /\ memory'.live = memory.live /\ memory'.containers = memory.containers
      /\ memory'.written = written
  BY <1>2
<1> QED
  BY <1>2, <1>3 DEF MemoryOK

\* NextVpa keeps the invariant.
LEMMA NextVpaInv == Inv /\ NextVpa => Inv'
<1> SUFFICES ASSUME Inv, NextVpa PROVE Inv'
  OBVIOUS
<1>0. /\ UNCHANGED <<now, api, streams, channel, forgotten, disturbed, recorded>>
      /\ loop.pc = "store" /\ loop.pending = {}
  BY DEF NextVpa, At
<1>1. TypeOK /\ LoopOK /\ ApiOK /\ MemoryOK /\ memory.written \in [Vpas -> Nat]
  BY DEF Inv, TypeOK, MemoryOK
<1>2. ApiOK' /\ Infos' = Infos
  BY <1>0, <1>1 DEF ApiOK, Infos
<1>3. CASE \E pc \in {"gc", "vpas"} :
              /\ loop' = [NewLoop EXCEPT !.pc = pc]
              /\ memory' = [memory EXCEPT !.written = Ranked(@)]
  <2>1. PICK pc \in {"gc", "vpas"} :
            /\ loop' = [NewLoop EXCEPT !.pc = pc]
            /\ memory' = [memory EXCEPT !.written = Ranked(memory.written)]
    BY <1>3
  <2>2. loop' = [pc |-> pc, todo |-> <<>>, pending |-> {}, budget |-> 0,
                 start |-> 0, expired |-> FALSE]
    BY <2>1 DEF NewLoop
  <2>3. LoopOK' /\ loop'.pc = pc /\ loop'.pending = {}
    BY <2>2 DEF LoopOK, PCs
  <2>4. /\ MemoryOK'
        /\ memory'.known = memory.known /\ memory'.initial = memory.initial
        /\ memory'.live = memory.live /\ memory'.containers = memory.containers
    <3> DEFINE r == Ranked(memory.written)
    <3>1. r \in [Vpas -> Nat] /\ memory' = [memory EXCEPT !.written = r]
      BY <1>1, <2>1, RankedType
    <3> HIDE DEF r
    <3> QED
      BY <1>1, <3>1, WrittenType
  <2>5. TypeOK'
    BY <1>0, <1>1, <1>2, <2>3, <2>4 DEF TypeOK
  <2>6. StagesOK'
    BY <1>0, <2>3, <2>4 DEF Inv, StagesOK, Running, At
  <2>7. WindowsOK'
    BY <1>0, <2>3, <2>4 DEF Inv, WindowsOK, WindowOK, At
  <2>8. OOMsOK' /\ KnownOK' /\ HistoryOK' /\ SpreadOK'
    BY <1>0, <2>3, <2>4, FrameStep DEF Running
  <2> QED
    BY <2>5, <2>6, <2>7, <2>8 DEF Inv
<1>4. CASE \E expired \in BOOLEAN :
              /\ loop.todo # <<>>
              /\ loop' = [loop EXCEPT !.expired = expired, !.todo = Tail(@),
                                      !.pending = Aggregated(Head(loop.todo))]
              /\ UNCHANGED memory
  <2> DEFINE v == Head(loop.todo)
             P == Aggregated(v)
  <2>1. PICK expired \in BOOLEAN :
            loop' = [loop EXCEPT !.expired = expired, !.todo = Tail(@), !.pending = P]
    BY <1>4
  <2>2. P \subseteq Containers /\ \A c \in P : c \in Aggregated(VpaOf[c])
    BY DEF Aggregated
  <2> HIDE DEF P, v
  <2>4. Tail(loop.todo) \in Seq(Vpas)
    BY <1>1, <1>4 DEF LoopOK
  <2>5. /\ LoopOK' /\ loop'.pc = "store" /\ loop'.start = loop.start
        /\ loop'.pending = P
    BY <1>0, <1>1, <2>1, <2>2, <2>4 DEF LoopOK
  <2>6. memory' = memory /\ MemoryOK'
    BY <1>1, <1>4 DEF MemoryOK
  <2>7. TypeOK'
    BY <1>0, <1>1, <1>2, <2>5, <2>6 DEF TypeOK
  <2>8. \A c \in loop'.pending : c \in Aggregated(VpaOf[c])'
    BY <2>2, <2>5, <2>6 DEF Aggregated, MatchesVPA
  <2>9. StagesOK'
    BY <1>0, <2>5, <2>6, <2>8 DEF Inv, StagesOK, Running, At
  <2>10. WindowsOK'
    BY <1>0, <2>5, <2>6 DEF Inv, WindowsOK, WindowOK, At
  <2>11. OOMsOK' /\ KnownOK' /\ HistoryOK' /\ SpreadOK'
    BY <1>0, <2>5, <2>6, FrameStep DEF Running
  <2> QED
    BY <2>7, <2>9, <2>10, <2>11 DEF Inv
<1> QED
  BY <1>3, <1>4 DEF NextVpa

\* A checkpoint is what is gathered of the live part that the VPA selects, without
\* the peak of a window that is open when the writing begins.
LEMMA CheckpointIs ==
    ASSUME NEW c
    PROVE  Checkpoint(c) =
               Gathered(/\ MatchesVPA(c) /\ c \in DOMAIN memory.containers
                        /\ loop.start < memory.containers[c].windowEnd,
                        memory.containers[c],
                        IF MatchesVPA(c) THEN Entries(memory.live, c) ELSE EmptyBag,
                        Entries(memory.initial, c))
  BY DEF Checkpoint, AggregateState, Gathered

\* The peaks of a checkpoint.
LEMMA CheckpointPeaks ==
    ASSUME TypeOK, NEW c
    PROVE  LET live == IF MatchesVPA(c) THEN Entries(memory.live, c) ELSE EmptyBag
               initial == Entries(memory.initial, c)
               open == /\ MatchesVPA(c) /\ c \in DOMAIN memory.containers
                       /\ loop.start < memory.containers[c].windowEnd
           IN  /\ IsHistogram(Checkpoint(c))
               /\ \A p : p \in DOMAIN Checkpoint(c) <=>
                      Copies(p, live) + Copies(p, initial) >
                          IF open THEN One(p, Current(memory.containers[c])) ELSE 0
               /\ \A p : Copies(p, Checkpoint(c)) <= Copies(p, live) + Copies(p, initial)
<1> DEFINE live == IF MatchesVPA(c) THEN Entries(memory.live, c) ELSE EmptyBag
           initial == Entries(memory.initial, c)
           open == /\ MatchesVPA(c) /\ c \in DOMAIN memory.containers
                   /\ loop.start < memory.containers[c].windowEnd
           state == memory.containers[c]
<1>1. IsHistogram(live) /\ IsHistogram(initial)
  BY HistogramTypes, CopiesInEmpty
<1>2. open \in BOOLEAN /\ (open => state \in ContainerStates)
  BY DEF TypeOK, MemoryOK
<1>3. Checkpoint(c) = Gathered(open, state, live, initial)
  BY CheckpointIs
<1> HIDE DEF live, initial, open, state
<1>4. /\ IsHistogram(Gathered(open, state, live, initial))
      /\ \A p : p \in DOMAIN Gathered(open, state, live, initial) <=>
             Copies(p, live) + Copies(p, initial) > IF open THEN One(p, Current(state)) ELSE 0
      /\ \A p : Copies(p, Gathered(open, state, live, initial))
                  <= Copies(p, live) + Copies(p, initial)
  BY <1>1, <1>2, GatheredCopies
<1> QED
  BY <1>3, <1>4 DEF live, initial, open, state

\* A container whose checkpoint is to be written is under a VPA in the model, which
\* selects it unless something was restored.
LEMMA PendingKnown ==
    ASSUME Inv, NEW c \in loop.pending
    PROVE  /\ c \in Containers /\ VpaOf[c] \in Vpas
           /\ memory.known[VpaOf[c]] \in {"nothing", "selects"}
           /\ MatchesVPA(c) <=> memory.known[VpaOf[c]] = "selects"
           /\ memory.known[VpaOf[c]] = "nothing" => c \in DOMAIN memory.initial
<1>1. c \in Containers /\ VpaOf[c] \in Vpas
  BY VpaOfAssumption DEF Inv, TypeOK, LoopOK
<1>2. memory.known[VpaOf[c]] \in {"no", "nothing", "selects"}
  BY <1>1 DEF Inv, TypeOK, MemoryOK
<1>3. (c \in DOMAIN memory.live /\ MatchesVPA(c)) \/ c \in DOMAIN memory.initial
  BY DEF Inv, StagesOK, Aggregated
<1>4. c \in DOMAIN memory.initial => memory.known[VpaOf[c]] # "no"
  BY DEF Inv, KnownOK
<1> QED
  BY <1>1, <1>2, <1>3, <1>4 DEF MatchesVPA

\* What is held for the next checkpoint is in it.
LEMMA HeldIsSaved ==
    ASSUME Inv, At("store"), NEW c \in loop.pending, NEW q, Held(c, q)
    PROVE  q \in DOMAIN Checkpoint(c)
<1> DEFINE live == Entries(memory.live, c)
           initial == Entries(memory.initial, c)
           state == memory.containers[c]
<1>1. IsHistogram(live) /\ IsHistogram(initial) /\ TypeOK
  BY HistogramTypes DEF Inv
<1>2. /\ Copies(q, live) \in Nat /\ Copies(q, initial) \in Nat
      /\ q \in DOMAIN live <=> Copies(q, live) >= 1
      /\ q \in DOMAIN initial <=> Copies(q, initial) >= 1
      /\ One(q, Current(state)) \in {0, 1}
  BY <1>1, CopiesType DEF One
<1>3. CASE memory.known[VpaOf[c]] = "nothing"
  <2>1. ~ MatchesVPA(c) /\ c \in DOMAIN memory.initial
    BY <1>3, PendingKnown
  <2>2. q \in DOMAIN initial
    BY <1>3, <2>1 DEF Held, Entries
  <2>3. \A p : Copies(p, EmptyBag) = 0
    BY CopiesInEmpty
  <2>4. q \in DOMAIN Checkpoint(c) <=> Copies(q, EmptyBag) + Copies(q, initial) > 0
    BY <1>1, <2>1, CheckpointPeaks
  <2> HIDE DEF initial
  <2> QED
    BY <1>2, <2>2, <2>3, <2>4
<1>4. CASE memory.known[VpaOf[c]] = "selects"
  <2>1. MatchesVPA(c)
    BY <1>4, PendingKnown
  <2>2. Stays(InAWindow(c), state, live, initial, api.savedAt[c], q)
    BY <1>4 DEF Held
  <2> DEFINE open == c \in DOMAIN memory.containers /\ loop.start < state.windowEnd
  <2>3. q \in DOMAIN Checkpoint(c) <=>
            Copies(q, live) + Copies(q, initial) > IF open THEN One(q, Current(state)) ELSE 0
    BY <1>1, <2>1, CheckpointPeaks
  <2>4. InAWindow(c) \in BOOLEAN /\ (InAWindow(c) => state \in ContainerStates)
    BY <1>1 DEF InAWindow, TypeOK, MemoryOK
  <2>5. open => InAWindow(c)
    <3>1. c \in DOMAIN memory.containers => state.windowEnd \in Nat
      BY <1>1 DEF TypeOK, MemoryOK, ContainerStates
    <3>2. loop.start \in Nat
      BY <1>1 DEF TypeOK, LoopOK
    <3> QED
      BY <3>1, <3>2 DEF InAWindow
  <2>6. q \in DOMAIN Gathered(InAWindow(c), state, live, initial) <=>
            Copies(q, live) + Copies(q, initial) >
                IF InAWindow(c) THEN One(q, Current(state)) ELSE 0
    <3> HIDE DEF live, initial, state
    <3> QED
      BY <1>1, <2>4, GatheredCopies
  <2>7. CASE q \in DOMAIN Gathered(InAWindow(c), state, live, initial)
    <3> HIDE DEF live, initial, state, open
    <3> QED
      BY <1>2, <2>3, <2>5, <2>6, <2>7
  <2>8. CASE InAWindow(c) /\ q = Current(state) /\ q[1] <= api.savedAt[c]
    <3>1. q \in DOMAIN live
      BY <2>8 DEF Inv, WindowsOK, WindowOK, InAWindow, TypeOK, MemoryOK, Entries
    <3>2. api.savedAt[c] <= loop.start /\ api.savedAt[c] \in Nat /\ loop.start \in Nat
      BY <1>1, PendingKnown DEF Inv, StagesOK, TypeOK, ApiOK, LoopOK
    <3>3. state.windowEnd <= api.savedAt[c] /\ state.windowEnd \in Nat
      BY <2>4, <2>8, CurrentType
    <3>4. ~ open
      BY <3>2, <3>3
    <3> HIDE DEF live, initial, state, open
    <3> QED
      BY <1>2, <2>3, <3>1, <3>4
  <2> QED
    BY <2>2, <2>7, <2>8 DEF Stays
<1> QED
  BY <1>3, <1>4, PendingKnown

\* What a checkpoint holds is held for the one after it.
LEMMA SavedIsHeld ==
    ASSUME Inv, NEW c \in loop.pending, NEW p \in DOMAIN Checkpoint(c),
           api'.savedAt[c] = loop.start,
           memory'.known = memory.known, memory'.initial = memory.initial,
           memory'.live = memory.live, memory'.containers = memory.containers
    PROVE  Held(c, p)'
<1> DEFINE live == Entries(memory.live, c)
           initial == Entries(memory.initial, c)
           state == memory.containers[c]
<1>1. IsHistogram(live) /\ IsHistogram(initial) /\ TypeOK
  BY HistogramTypes DEF Inv
<1>2. /\ Copies(p, live) \in Nat /\ Copies(p, initial) \in Nat
      /\ p \in DOMAIN initial <=> Copies(p, initial) >= 1
      /\ One(p, Current(state)) = 0 \/ p = Current(state)
  BY <1>1, CopiesType DEF One
<1>3. CASE memory.known[VpaOf[c]] = "nothing"
  <2>1. ~ MatchesVPA(c) /\ c \in DOMAIN memory.initial
    BY <1>3, PendingKnown
  <2>2. \A q : Copies(q, EmptyBag) = 0
    BY CopiesInEmpty
  <2>3. Copies(p, EmptyBag) + Copies(p, initial) > 0
    BY <1>1, <2>1, CheckpointPeaks
  <2>4. p \in DOMAIN initial
    <3> HIDE DEF initial
    <3> QED
      BY <1>2, <2>2, <2>3
  <2>5. p \in DOMAIN memory.initial[c]
    BY <2>1, <2>4 DEF Entries
  <2> QED
    BY <1>3, <2>1, <2>5 DEF Held
<1>4. CASE memory.known[VpaOf[c]] = "selects"
  <2>1. MatchesVPA(c)
    BY <1>4, PendingKnown
  <2> DEFINE open == c \in DOMAIN memory.containers /\ loop.start < state.windowEnd
  <2>2. Copies(p, live) + Copies(p, initial) > IF open THEN One(p, Current(state)) ELSE 0
    BY <1>1, <2>1, CheckpointPeaks
  <2>3. /\ InAWindow(c) \in BOOLEAN /\ (InAWindow(c) => state \in ContainerStates)
        /\ loop.start \in Nat
    BY <1>1 DEF InAWindow, TypeOK, MemoryOK, LoopOK
  <2>4. p \in DOMAIN Gathered(InAWindow(c), state, live, initial) <=>
            Copies(p, live) + Copies(p, initial) >
                IF InAWindow(c) THEN One(p, Current(state)) ELSE 0
    <3> HIDE DEF live, initial, state
    <3> QED
      BY <1>1, <2>3, GatheredCopies
  <2>5. Stays(InAWindow(c), state, live, initial, loop.start, p)
    <3>1. CASE ~ InAWindow(c) \/ open \/ One(p, Current(state)) = 0
      <4>1. Copies(p, live) + Copies(p, initial) >
                IF InAWindow(c) THEN One(p, Current(state)) ELSE 0
        <5>1. ~ InAWindow(c) => Copies(p, live) + Copies(p, initial) > 0
          BY <1>2, <2>2 DEF One
        <5> HIDE DEF live, initial, state, open
        <5> QED
          BY <1>2, <2>2, <2>3, <3>1, <5>1
      <4> QED
        BY <2>4, <4>1 DEF Stays
    <3>2. CASE InAWindow(c) /\ ~ open /\ One(p, Current(state)) # 0
      <4>1. p = Current(state)
        BY <1>2, <3>2
      <4>2. state.windowEnd <= loop.start
        BY <2>3, <3>2, CurrentType DEF InAWindow
      <4>3. p[1] <= loop.start
        BY <2>3, <3>2, <4>1, <4>2, CurrentType
      <4> QED
        BY <3>2, <4>1, <4>3 DEF Stays
    <3> QED
      BY <3>1, <3>2
  <2>6. /\ InAWindow(c)' = InAWindow(c) /\ Entries(memory.live, c)' = live
        /\ Entries(memory.initial, c)' = initial
    BY DEF InAWindow, Entries
  <2> HIDE DEF live, initial
  <2> QED
    BY <1>4, <2>5, <2>6 DEF Held
<1> QED
  BY <1>3, <1>4, PendingKnown

\* A checkpoint is spread, and ends before its writing began.
LEMMA SavedIsSpread ==
    ASSUME Inv, At("store"), NEW c \in loop.pending, c \notin disturbed
    PROVE  /\ IsHistogram(Checkpoint(c)) /\ Spread(Checkpoint(c))
           /\ \A p \in DOMAIN Checkpoint(c) : p[1] <= loop.start
<1> DEFINE live == Entries(memory.live, c)
           initial == Entries(memory.initial, c)
           all == live (+) initial
           state == memory.containers[c]
           part == IF MatchesVPA(c) THEN live ELSE EmptyBag
           open == c \in DOMAIN memory.containers /\ loop.start < state.windowEnd
<1>1. IsHistogram(live) /\ IsHistogram(initial) /\ TypeOK /\ SpreadAt(c) /\ c \in Containers
  BY HistogramTypes, PendingKnown DEF Inv, SpreadOK
<1>2. /\ \A p : Copies(p, live) \in Nat /\ Copies(p, initial) \in Nat
             /\ (p \in DOMAIN live <=> Copies(p, live) >= 1)
             /\ (p \in DOMAIN initial <=> Copies(p, initial) >= 1)
      /\ \A p : Copies(p, EmptyBag) = 0
  BY <1>1, CopiesType, CopiesInEmpty
<1>3. /\ IsHistogram(all) /\ DOMAIN all = DOMAIN live \cup DOMAIN initial
      /\ \A p : Copies(p, all) = Copies(p, live) + Copies(p, initial)
  BY <1>1, CopiesInMerge
<1>4. Spread(all)
  BY <1>1 DEF SpreadAt
<1>5. /\ IsHistogram(Checkpoint(c))
      /\ \A p : p \in DOMAIN Checkpoint(c) <=>
             Copies(p, part) + Copies(p, initial) >
                 IF MatchesVPA(c) /\ open THEN One(p, Current(state)) ELSE 0
      /\ \A p : Copies(p, Checkpoint(c)) <= Copies(p, part) + Copies(p, initial)
  BY <1>1, CheckpointPeaks
<1>6. \A p : Copies(p, part) \in Nat /\ Copies(p, part) <= Copies(p, live)
  BY <1>2
<1>7. /\ loop.start \in Nat /\ api.savedAt[c] \in Nat /\ api.savedAt[c] <= loop.start
      /\ Interval \in Nat
  BY <1>1, Numbers DEF Inv, StagesOK, TypeOK, LoopOK, ApiOK
<1>8. /\ \A p \in DOMAIN initial : p[1] <= api.savedAt[c]
      /\ ~ InAWindow(c) => DOMAIN live = {}
      /\ InAWindow(c) => Before(state, DOMAIN live \cup DOMAIN initial)
  BY <1>1 DEF SpreadAt
<1>9. InAWindow(c) => /\ c \in DOMAIN memory.containers /\ state \in ContainerStates
                      /\ state.windowEnd - Interval <= loop.start
  BY <1>1 DEF InAWindow, TypeOK, MemoryOK, Inv, WindowsOK, WindowOK
<1>10. \A p : p \in DOMAIN all => p[1] \in Nat /\ all[p] = 1 /\ Copies(p, all) = 1
  BY <1>3, <1>4 DEF Spread, Copies, IsHistogram, Peaks
<1>11. MatchesVPA(c) => part = live
  OBVIOUS
<1>12. ~ MatchesVPA(c) => part = EmptyBag
  OBVIOUS
<1> HIDE DEF live, initial, all, part
<1>13. Spread(Checkpoint(c)) /\ DOMAIN Checkpoint(c) \subseteq DOMAIN all
  <2>1. ASSUME NEW p PROVE Copies(p, Checkpoint(c)) <= Copies(p, all)
    <3>1. Copies(p, Checkpoint(c)) \in Nat
      BY <1>5, CopiesType
    <3> QED
      BY <1>2, <1>3, <1>5, <1>6, <3>1
  <2> QED
    BY <1>3, <1>4, <1>5, <2>1, PartSpread
<1>14. ASSUME NEW p \in DOMAIN Checkpoint(c) PROVE p[1] <= loop.start
  <2>1. p \in DOMAIN all /\ p[1] \in Nat /\ Copies(p, all) = 1
    BY <1>10, <1>13
  <2>2. CASE p \in DOMAIN initial
    BY <1>7, <1>8, <2>1, <2>2
  <2>3. CASE p \notin DOMAIN initial
    <3>1. p \in DOMAIN live /\ InAWindow(c) /\ Copies(p, initial) = 0
      BY <1>2, <1>3, <1>8, <2>1, <2>3
    <3>2. p = Current(state) \/ p[1] <= state.windowEnd - Interval
      BY <1>8, <3>1 DEF Before
    <3>3. state.windowEnd \in Nat /\ Current(state)[1] = state.windowEnd
      BY <1>9, <3>1, CurrentType
    <3>4. MatchesVPA(c)
      BY <1>2, <1>5, <1>12, <3>1
    <3>5. p = Current(state) => ~ open
      <4>1. SUFFICES ASSUME p = Current(state), open PROVE FALSE
        OBVIOUS
      <4>2. Copies(p, live) + Copies(p, initial) > 1
        BY <1>5, <1>11, <3>4, <4>1 DEF One
      <4> QED
        BY <1>3, <2>1, <4>2
    <3> HIDE DEF state
    <3>6. ~ open => state.windowEnd <= loop.start
      BY <1>7, <1>9, <3>1, <3>3
    <3> HIDE DEF open
    <3> QED
      BY <1>7, <1>9, <2>1, <3>1, <3>2, <3>3, <3>5, <3>6
  <2> QED
    BY <2>2, <2>3
<1> QED
  BY <1>5, <1>13, <1>14

\* The loop after a checkpoint was tried.
LEMMA AttemptedType ==
    ASSUME LoopOK, NEW c, Attempted(c)
    PROVE  /\ LoopOK' /\ loop'.pc = loop.pc /\ loop'.start = loop.start
           /\ loop'.pending = loop.pending \ {c}
<1> DEFINE b == IF loop.budget > 0 THEN loop.budget - 1 ELSE 0
           P == loop.pending \ {c}
<1>1. loop' = [loop EXCEPT !.pending = P, !.budget = b]
  BY DEF Attempted
<1>2. b \in Nat /\ P \in SUBSET Containers
  BY DEF LoopOK
<1> HIDE DEF b, P
<1>3. LoopOK' /\ loop'.pc = loop.pc /\ loop'.start = loop.start /\ loop'.pending = P
  BY <1>1, <1>2 DEF LoopOK
<1> QED
  BY <1>3 DEF P

\* FailToSaveCheckpoint keeps the invariant.
LEMMA FailToSaveCheckpointInv ==
    ASSUME Inv, NEW c \in Containers, FailToSaveCheckpoint(c)
    PROVE  Inv'
<1>0. /\ UNCHANGED <<now, api, streams, channel, memory, forgotten, disturbed, recorded>>
      /\ loop.pc = "store" /\ Attempted(c)
  BY DEF FailToSaveCheckpoint, At
<1>1. TypeOK /\ LoopOK /\ ApiOK /\ MemoryOK
  BY DEF Inv, TypeOK
<1>2. /\ LoopOK' /\ loop'.pc = "store" /\ loop'.start = loop.start
      /\ loop'.pending = loop.pending \ {c}
  BY <1>0, <1>1, AttemptedType
<1>3. TypeOK'
  <2>1. ApiOK' /\ MemoryOK' /\ Infos' = Infos
    BY <1>0, <1>1 DEF ApiOK, MemoryOK, Infos
  <2> QED
    BY <1>0, <1>1, <1>2, <2>1 DEF TypeOK
<1>4. StagesOK'
  <2>1. \A d \in loop'.pending : d \in Aggregated(VpaOf[d])'
    BY <1>0, <1>2 DEF Inv, StagesOK, Aggregated, MatchesVPA
  <2> QED
    BY <1>0, <1>2, <2>1 DEF Inv, StagesOK, Running, At
<1>5. WindowsOK'
  BY <1>0, <1>2 DEF Inv, WindowsOK, WindowOK, At
<1>6. OOMsOK' /\ KnownOK' /\ HistoryOK' /\ SpreadOK'
  BY <1>0, <1>2, FrameStep DEF Running
<1> QED
  BY <1>3, <1>4, <1>5, <1>6 DEF Inv

\* What SaveCheckpoint changes.
LEMMA SaveCheckpointStep ==
    ASSUME Inv, NEW c \in Containers, SaveCheckpoint(c)
    PROVE  /\ UNCHANGED <<now, streams, channel, forgotten, disturbed, recorded>>
           /\ At("store") /\ c \in loop.pending
           /\ LoopOK' /\ loop'.pc = "store" /\ loop'.start = loop.start
           /\ loop'.pending = loop.pending \ {c}
           /\ MemoryOK'
           /\ memory'.known = memory.known /\ memory'.initial = memory.initial
           /\ memory'.live = memory.live /\ memory'.containers = memory.containers
           /\ api' = [vpas |-> api.vpas, saved |-> api'.saved, savedAt |-> api'.savedAt,
                      events |-> api.events]
           /\ DOMAIN api'.saved = DOMAIN api.saved \cup {c}
           /\ api'.saved[c] = Checkpoint(c)
           /\ \A d \in DOMAIN api.saved : d # c => api'.saved[d] = api.saved[d]
           /\ api'.savedAt = [api.savedAt EXCEPT ![c] = loop.start]
<1>0. /\ UNCHANGED <<now, streams, channel, forgotten, disturbed, recorded>>
      /\ At("store") /\ c \in loop.pending /\ Attempted(c)
      /\ memory' = [memory EXCEPT !.written[VpaOf[c]] = Cardinality(Vpas) + 1]
      /\ api' = [api EXCEPT !.saved = [d \in DOMAIN @ \cup {c} |->
                                          IF d = c THEN Checkpoint(c) ELSE @[d]],
                            !.savedAt[c] = loop.start]
  BY DEF SaveCheckpoint, Written
<1>1. LoopOK /\ ApiOK /\ MemoryOK
  BY DEF Inv, TypeOK
<1>2. /\ LoopOK' /\ loop'.pc = "store" /\ loop'.start = loop.start
      /\ loop'.pending = loop.pending \ {c}
  BY <1>0, <1>1, AttemptedType DEF At
<1>3. /\ MemoryOK'
      /\ memory'.known = memory.known /\ memory'.initial = memory.initial
      /\ memory'.live = memory.live /\ memory'.containers = memory.containers
  <2> DEFINE n == Cardinality(Vpas) + 1
             w == [memory.written EXCEPT ![VpaOf[c]] = n]
  <2>1. n \in Nat
    BY VpasAssumption, FS_CardinalityType
  <2> HIDE DEF n
  <2>2. w \in [Vpas -> Nat]
    BY <1>1, <2>1 DEF MemoryOK
  <2>3. memory' = [memory EXCEPT !.written = w]
    BY <1>0, <1>1 DEF MemoryOK, n
  <2> HIDE DEF w
  <2> QED
    BY <1>1, <2>2, <2>3, WrittenType
<1>4. api = [vpas |-> api.vpas, saved |-> api.saved, savedAt |-> api.savedAt,
             events |-> api.events]
  BY <1>1 DEF ApiOK
<1> DEFINE new == Checkpoint(c)
<1>5. api' = [api EXCEPT !.saved = [d \in DOMAIN @ \cup {c} |-> IF d = c THEN new ELSE @[d]],
                         !.savedAt[c] = loop.start]
  BY <1>0
<1> HIDE DEF new
<1>6. /\ api' = [vpas |-> api.vpas, saved |-> api'.saved, savedAt |-> api'.savedAt,
                 events |-> api.events]
      /\ api'.saved = [d \in DOMAIN api.saved \cup {c} |-> IF d = c THEN new ELSE api.saved[d]]
      /\ api'.savedAt = [api.savedAt EXCEPT ![c] = loop.start]
  BY <1>4, <1>5
<1>7. /\ DOMAIN api'.saved = DOMAIN api.saved \cup {c}
      /\ api'.saved[c] = new
      /\ \A d \in DOMAIN api.saved : d # c => api'.saved[d] = api.saved[d]
  BY <1>6
<1> QED
  BY <1>0, <1>2, <1>3, <1>6, <1>7 DEF new

\* SaveCheckpoint keeps the invariant: what it saves is spread, and held.
LEMMA SaveCheckpointInv ==
    ASSUME Inv, NEW c \in Containers, SaveCheckpoint(c)
    PROVE  Inv'
<1>0. /\ UNCHANGED <<now, streams, channel, forgotten, disturbed, recorded>>
      /\ At("store") /\ c \in loop.pending
      /\ LoopOK' /\ loop'.pc = "store" /\ loop'.start = loop.start
      /\ loop'.pending = loop.pending \ {c}
      /\ MemoryOK'
      /\ memory'.known = memory.known /\ memory'.initial = memory.initial
      /\ memory'.live = memory.live /\ memory'.containers = memory.containers
  BY SaveCheckpointStep
<1>1. /\ api' = [vpas |-> api.vpas, saved |-> api'.saved, savedAt |-> api'.savedAt,
                 events |-> api.events]
      /\ DOMAIN api'.saved = DOMAIN api.saved \cup {c}
      /\ api'.saved[c] = Checkpoint(c)
      /\ \A d \in DOMAIN api.saved : d # c => api'.saved[d] = api.saved[d]
      /\ api'.savedAt = [api.savedAt EXCEPT ![c] = loop.start]
  BY SaveCheckpointStep
<1>2. /\ TypeOK /\ ApiOK /\ LoopOK /\ loop.start \in Nat /\ now \in Nat /\ loop.start <= now
      /\ \A d \in Containers : api.savedAt[d] \in Nat /\ api.savedAt[d] <= loop.start
  BY <1>0, Numbers DEF Inv, TypeOK, LoopOK, ApiOK, StagesOK
<1>3. /\ api'.savedAt \in [Containers -> Nat] /\ api'.savedAt[c] = loop.start
      /\ \A d \in Containers : d # c => api'.savedAt[d] = api.savedAt[d]
  BY <1>1, <1>2 DEF ApiOK
<1>4. IsHistogram(Checkpoint(c))
  BY <1>2, CheckpointPeaks
<1>5. ApiOK'
  <2>1. api'.vpas = api.vpas /\ api'.events = api.events
    BY <1>1
  <2>2. \A d \in DOMAIN api'.saved : d \in Containers /\ IsHistogram(api'.saved[d])
    BY <1>1, <1>2, <1>4 DEF ApiOK
  <2>3. Infos' = Infos
    BY <1>0 DEF Infos
  <2> QED
    BY <1>1, <1>2, <1>3, <2>1, <2>2, <2>3 DEF ApiOK
<1>6. TypeOK'
  <2>1. Infos' = Infos
    BY <1>0 DEF Infos
  <2> QED
    BY <1>0, <1>2, <1>5, <2>1 DEF TypeOK
<1>7. StagesOK'
  <2>1. \A d \in loop'.pending : d \in Aggregated(VpaOf[d])'
    BY <1>0 DEF Inv, StagesOK, Aggregated, MatchesVPA
  <2>2. \A d \in Containers : api'.savedAt[d] <= now' /\ api'.savedAt[d] <= loop'.start
    BY <1>0, <1>2, <1>3
  <2> QED
    BY <1>0, <1>2, <2>1, <2>2 DEF StagesOK, Running, At
<1>8. WindowsOK'
  BY <1>0 DEF Inv, WindowsOK, WindowOK, At
<1>9. OOMsOK'
  BY <1>0 DEF Inv, OOMsOK, OOMCounted
<1>10. Running
  BY <1>0 DEF Running, At
<1>11. KnownOK'
  <2>1. memory.known[VpaOf[c]] # "no"
    BY <1>0, PendingKnown
  <2> QED
    BY <1>0, <1>1, <1>10, <2>1 DEF Inv, KnownOK
<1>12. HistoryOK'
  <2> SUFFICES ASSUME NEW d \in DOMAIN api'.saved \ forgotten, NEW p \in DOMAIN api'.saved[d]
               PROVE  \E q \in Peaks : Held(d, q)' /\ q[1] = p[1] /\ q[2] >= p[2]
    BY <1>0 DEF HistoryOK
  <2>1. CASE d = c
    <3>1. Held(c, p)'
      BY <1>0, <1>1, <1>3, <2>1, SavedIsHeld
    <3>2. p \in Peaks /\ p[2] \in Nat
      BY <1>1, <1>4, <2>1 DEF IsHistogram, Peaks
    <3> QED
      BY <2>1, <3>1, <3>2
  <2>2. CASE d # c
    <3>1. d \in DOMAIN api.saved \ forgotten /\ p \in DOMAIN api.saved[d] /\ d \in Containers
      BY <1>1, <1>2, <2>2 DEF ApiOK
    <3>2. PICK q \in Peaks : Held(d, q) /\ q[1] = p[1] /\ q[2] >= p[2]
      BY <1>10, <3>1 DEF Inv, HistoryOK
    <3>3. api'.savedAt[d] = api.savedAt[d]
      BY <1>3, <2>2, <3>1
    <3>4. Held(d, q)'
      BY <1>0, <3>2, <3>3 DEF Held, InAWindow
    <3> QED
      BY <3>2, <3>4
  <2> QED
    BY <2>1, <2>2
<1>13. SpreadOK'
  <2> SUFFICES ASSUME NEW d \in Containers \ disturbed PROVE SpreadAt(d)'
    BY <1>0 DEF SpreadOK
  <2>1. SpreadAt(d)
    BY DEF Inv, SpreadOK
  <2>2. /\ Entries(memory.live, d)' = Entries(memory.live, d)
        /\ Entries(memory.initial, d)' = Entries(memory.initial, d)
        /\ InAWindow(d)' = InAWindow(d) /\ memory'.containers[d] = memory.containers[d]
    BY <1>0 DEF Entries, InAWindow
  <2>3. CASE d # c
    <3>1. api'.savedAt[d] = api.savedAt[d] /\ Entries(api.saved, d)' = Entries(api.saved, d)
      BY <1>1, <1>3, <2>3 DEF Entries
    <3> QED
      BY <2>1, <2>2, <3>1 DEF SpreadAt
  <2>4. CASE d = c
    <3>1. Entries(api.saved, c)' = Checkpoint(c)
      BY <1>1 DEF Entries
    <3>2. Spread(Checkpoint(c)) /\ \A p \in DOMAIN Checkpoint(c) : p[1] <= loop.start
      BY <1>0, <2>4, SavedIsSpread
    <3>3. \A p \in DOMAIN Entries(memory.initial, c) : p[1] <= loop.start
      <4>1. \A p \in DOMAIN Entries(memory.initial, c) : p[1] <= api.savedAt[c]
        BY <2>1, <2>4 DEF SpreadAt
      <4>2. \A p \in DOMAIN Entries(memory.initial, c) : p[1] \in Nat
        BY <1>2, HistogramTypes DEF IsHistogram, Peaks
      <4> QED
        BY <1>2, <4>1, <4>2
    <3> QED
      BY <1>3, <2>1, <2>2, <2>4, <3>1, <3>2, <3>3 DEF SpreadAt
  <2> QED
    BY <2>3, <2>4
<1> QED
  BY <1>6, <1>7, <1>8, <1>9, <1>11, <1>12, <1>13 DEF Inv

\* What GarbageCollectCheckpoints changes: only checkpoints of VPAs that are gone.
LEMMA GarbageCollectStep ==
    ASSUME Inv, GarbageCollectCheckpoints
    PROVE  /\ UNCHANGED <<now, streams, channel, memory, forgotten, disturbed, recorded>>
           /\ loop.pc = "collect" /\ LoopOK' /\ loop'.pc = "vpas"
           /\ loop'.pending = loop.pending
           /\ api' = [vpas |-> api.vpas, saved |-> api'.saved, savedAt |-> api.savedAt,
                      events |-> api.events]
           /\ \A c \in DOMAIN api'.saved :
                  c \in DOMAIN api.saved /\ api'.saved[c] = api.saved[c]
           /\ \A c \in DOMAIN api.saved \ DOMAIN api'.saved : memory.known[VpaOf[c]] = "no"
<1>0. /\ UNCHANGED <<now, streams, channel, memory, forgotten, disturbed, recorded>>
      /\ loop.pc = "collect" /\ Goto("vpas")
  BY DEF GarbageCollectCheckpoints, At
<1>1. LoopOK /\ ApiOK
  BY DEF Inv, TypeOK
<1>2. LoopOK' /\ loop'.pc = "vpas" /\ loop'.pending = loop.pending
  BY <1>0, <1>1, GotoType DEF PCs
<1>3. PICK C \in SUBSET {c \in Containers : memory.known[VpaOf[c]] = "no"} :
          api' = [api EXCEPT !.saved = [c \in DOMAIN @ \ C |-> @[c]]]
  BY DEF GarbageCollectCheckpoints
<1>4. /\ api' = [vpas |-> api.vpas, saved |-> api'.saved, savedAt |-> api.savedAt,
                 events |-> api.events]
      /\ api'.saved = [c \in DOMAIN api.saved \ C |-> api.saved[c]]
  BY <1>1, <1>3 DEF ApiOK
<1> QED
  BY <1>0, <1>2, <1>3, <1>4

\* GarbageCollectCheckpoints keeps the invariant.
LEMMA GarbageCollectCheckpointsInv == Inv /\ GarbageCollectCheckpoints => Inv'
<1> SUFFICES ASSUME Inv, GarbageCollectCheckpoints PROVE Inv'
  OBVIOUS
<1>0. /\ UNCHANGED <<now, streams, channel, memory, forgotten, disturbed, recorded>>
      /\ loop.pc = "collect" /\ LoopOK' /\ loop'.pc = "vpas"
      /\ loop'.pending = loop.pending
      /\ api' = [vpas |-> api.vpas, saved |-> api'.saved, savedAt |-> api.savedAt,
                 events |-> api.events]
      /\ \A c \in DOMAIN api'.saved :
             c \in DOMAIN api.saved /\ api'.saved[c] = api.saved[c]
  BY GarbageCollectStep
<1>1. TypeOK /\ ApiOK /\ MemoryOK
  BY DEF Inv, TypeOK
<1>2. api'.vpas = api.vpas /\ api'.savedAt = api.savedAt /\ api'.events = api.events
  BY <1>0
<1>3. Infos' = Infos
  BY <1>0 DEF Infos
<1>4. ApiOK'
  BY <1>0, <1>1, <1>2, <1>3 DEF ApiOK
<1>5. TypeOK'
  <2>1. MemoryOK'
    BY <1>0, <1>1 DEF MemoryOK
  <2> QED
    BY <1>0, <1>1, <1>3, <1>4, <2>1 DEF TypeOK
<1>6. StagesOK'
  BY <1>0, <1>2 DEF Inv, StagesOK, Running, At
<1>7. WindowsOK'
  BY <1>0 DEF Inv, WindowsOK, WindowOK, At
<1>8. OOMsOK'
  BY <1>0 DEF Inv, OOMsOK, OOMCounted
<1>9. KnownOK'
  BY <1>0 DEF Inv, KnownOK, Running
<1>10. HistoryOK'
  <2> SUFFICES ASSUME NEW c \in DOMAIN api'.saved \ forgotten, NEW p \in DOMAIN api'.saved[c]
               PROVE  \E q \in Peaks : Held(c, q)' /\ q[1] = p[1] /\ q[2] >= p[2]
    BY <1>0 DEF HistoryOK
  <2>1. c \in DOMAIN api.saved \ forgotten /\ p \in DOMAIN api.saved[c]
    BY <1>0
  <2>2. PICK q \in Peaks : Held(c, q) /\ q[1] = p[1] /\ q[2] >= p[2]
    BY <1>0, <2>1 DEF Inv, HistoryOK, Running
  <2>3. Held(c, q)'
    BY <1>0, <1>2, <2>2 DEF Held, InAWindow
  <2> QED
    BY <2>2, <2>3
<1>11. SpreadOK'
  <2> SUFFICES ASSUME NEW c \in Containers \ disturbed PROVE SpreadAt(c)'
    BY <1>0 DEF SpreadOK
  <2>1. SpreadAt(c)
    BY DEF Inv, SpreadOK
  <2>2. /\ Entries(memory.live, c)' = Entries(memory.live, c)
        /\ Entries(memory.initial, c)' = Entries(memory.initial, c)
        /\ InAWindow(c)' = InAWindow(c) /\ memory'.containers[c] = memory.containers[c]
    BY <1>0 DEF Entries, InAWindow
  <2>3. \/ Entries(api.saved, c)' = Entries(api.saved, c)
        \/ Entries(api.saved, c)' = EmptyBag
    BY <1>0 DEF Entries
  <2>4. Spread(EmptyBag) /\ DOMAIN EmptyBag = {}
    BY CopiesInEmpty DEF Spread
  <2> QED
    BY <1>2, <2>1, <2>2, <2>3, <2>4 DEF SpreadAt
<1> QED
  BY <1>5, <1>6, <1>7, <1>8, <1>9, <1>10, <1>11 DEF Inv
-----------------------------------------------------------------------------
(* The theorems.                                                           *)

\* Every step keeps the invariant.
LEMMA NextInv == Inv /\ [Next]_vars => Inv'
<1> SUFFICES ASSUME Inv, [Next]_vars PROVE Inv'
  OBVIOUS
<1>1. CASE RunOnce
  BY <1>1, LoadVPAsInv, InitFromCheckpointsInv, LoadPodsInv, LoadRealTimeMetricsInv,
     RecordOOMInv, MaintainCheckpointsInv, NextVpaInv, SaveCheckpointInv,
     FailToSaveCheckpointInv, GarbageCollectCheckpointsInv DEF RunOnce
<1>2. CASE Crash
  BY <1>2, CrashInv
<1>3. CASE ~ RunOnce /\ ~ Crash
  BY <1>3, EnvironmentInv DEF Next
<1> QED
  BY <1>1, <1>2, <1>3

\* The inductive invariant of the recommender holds in every state: of the process
\* with its feeder, observer and checkpoint writer, over crashes and restarts.
THEOREM RecommenderInvariant == Spec => []Inv
<1>1. Init => Inv
  BY InitInv
<1>2. Inv /\ [Next]_vars => Inv'
  BY NextInv
<1> QED
  BY <1>1, <1>2, PTL DEF Spec

\* In what the recommendations are made from, the windows of a container's peaks do
\* not overlap, over any number of crashes and restores: the checkpoint writer leaves
\* out the peak of the open window, and the window after a restart begins later.
THEOREM PeaksDoNotOverlap == Spec => []OnePeakPerInterval
<1>1. Inv => OnePeakPerInterval
  BY DEF Inv, SpreadOK, SpreadAt, Spread, OnePeakPerInterval
<1> QED
  BY <1>1, RecommenderInvariant, PTL

\* Every OOM that RecordOOM has accepted counts: the peak of the window around its time
\* is above the request, and stays there, over all later samples, failed listings and
\* new pods; unless a sample of no memory began that window, whose peak stays zero
\* (Disagreement 10).
THEOREM OOMsCount == Spec => []OOMCounted
<1>1. Inv => OOMCounted
  BY DEF Inv, OOMsOK
<1> QED
  BY <1>1, RecommenderInvariant, PTL

\* What SaveCheckpoint writes covers what it overwrites.
LEMMA SaveCovers ==
    ASSUME Inv, NEW c \in Containers, SaveCheckpoint(c), c \in DOMAIN api.saved \ forgotten
    PROVE  Covers(Checkpoint(c), api.saved[c])
<1>1. At("store") /\ c \in loop.pending
  BY SaveCheckpointStep
<1>2. Running
  BY <1>1 DEF Running, At
<1>3. ASSUME NEW p \in DOMAIN api.saved[c]
      PROVE  \E q \in DOMAIN Checkpoint(c) : q[1] = p[1] /\ q[2] >= p[2]
  <2>1. PICK q \in Peaks : Held(c, q) /\ q[1] = p[1] /\ q[2] >= p[2]
    BY <1>2 DEF Inv, HistoryOK
  <2>2. q \in DOMAIN Checkpoint(c)
    BY <1>1, <2>1, HeldIsSaved
  <2> QED
    BY <2>1, <2>2
<1> QED
  BY <1>3 DEF Covers

\* The checkpoints that a step may overwrite or delete.
LEMMA SavedChanges ==
    ASSUME Inv, [Next]_vars
    PROVE  \/ api'.saved = api.saved
           \/ GarbageCollectCheckpoints
           \/ \E c \in Containers : SaveCheckpoint(c)
<1>1. api = [vpas |-> api.vpas, saved |-> api.saved, savedAt |-> api.savedAt,
             events |-> api.events]
  BY DEF Inv, TypeOK, ApiOK
<1>2. ASSUME NEW v \in Vpas, CreateVpa(v) \/ DeleteVpa(v) PROVE api'.saved = api.saved
  BY <1>1, <1>2 DEF CreateVpa, DeleteVpa
<1>3. ASSUME NEW c \in Killed, OOMKill(c) \/ Evict(c) PROVE api'.saved = api.saved
  BY <1>1, <1>3 DEF OOMKill, Evict
<1>4. CASE Tick \/ Crash \/ Restart \/ Rewatch \/ UNCHANGED vars
  BY <1>4 DEF Tick, Crash, Restart, Rewatch, vars
<1>5. ASSUME NEW s \in Sources, Observe(s) PROVE api'.saved = api.saved
  BY <1>5 DEF Observe
<1>6. CASE LoadVPAs \/ InitFromCheckpoints \/ LoadPods \/ LoadRealTimeMetrics
  BY <1>6 DEF LoadVPAs, InitFromCheckpoints, LoadPods, LoadRealTimeMetrics
<1>7. CASE RecordOOM \/ MaintainCheckpoints \/ NextVpa
  BY <1>7 DEF RecordOOM, MaintainCheckpoints, StoreCheckpoints, NextVpa
<1>8. ASSUME NEW c \in Containers, FailToSaveCheckpoint(c) PROVE api'.saved = api.saved
  BY <1>8 DEF FailToSaveCheckpoint
<1> QED
  BY <1>2, <1>3, <1>4, <1>5, <1>6, <1>7, <1>8 DEF Next, RunOnce

\* A step keeps or covers every checkpoint that is not forgotten.
LEMMA HistoryStep ==
    ASSUME Inv, [Next]_vars, NEW c \in DOMAIN api.saved \ forgotten
    PROVE  /\ c \in DOMAIN api'.saved
           /\ Covers(api'.saved[c], api.saved[c])
<1>1. c \in Containers /\ IsHistogram(api.saved[c])
  BY DEF Inv, TypeOK, ApiOK
<1>2. Covers(api.saved[c], api.saved[c])
  BY <1>1 DEF Covers, IsHistogram, Peaks
<1>3. CASE api'.saved = api.saved
  BY <1>2, <1>3
<1>4. CASE GarbageCollectCheckpoints
  <2>1. Running
    BY <1>4, GarbageCollectStep DEF Running
  <2>2. memory.known[VpaOf[c]] # "no"
    BY <2>1 DEF Inv, KnownOK
  <2>3. c \in DOMAIN api'.saved
    BY <1>4, <2>2, GarbageCollectStep
  <2>4. api'.saved[c] = api.saved[c]
    BY <1>4, <2>3, GarbageCollectStep
  <2> QED
    BY <1>2, <2>3, <2>4
<1>5. ASSUME NEW d \in Containers, SaveCheckpoint(d)
      PROVE  c \in DOMAIN api'.saved /\ Covers(api'.saved[c], api.saved[c])
  <2>1. /\ DOMAIN api'.saved = DOMAIN api.saved \cup {d}
        /\ api'.saved[d] = Checkpoint(d)
        /\ \A e \in DOMAIN api.saved : e # d => api'.saved[e] = api.saved[e]
    BY <1>5, SaveCheckpointStep
  <2>2. CASE c = d
    <3>1. Covers(Checkpoint(c), api.saved[c])
      BY <1>1, <1>5, <2>2, SaveCovers
    <3> QED
      BY <2>1, <2>2, <3>1
  <2>3. CASE c # d
    BY <1>2, <2>1, <2>3
  <2> QED
    BY <2>2, <2>3
<1> QED
  BY <1>3, <1>4, <1>5, SavedChanges

\* A peak that a checkpoint holds is in the checkpoints that replace it, over any
\* number of crashes, restores, retries and changes of the VPAs; unless the process
\* has not restored the checkpoint, or has dropped the VPA that it restored it into.
THEOREM CheckpointsKeepHistory == Spec => HistoryKept
<1>1. Inv /\ [Next]_vars =>
          [\A c \in DOMAIN api.saved \ forgotten :
              /\ c \in DOMAIN api'.saved
              /\ Covers(api'.saved[c], api.saved[c])]_vars
  BY HistoryStep
<1> QED
  BY <1>1, RecommenderInvariant, PTL DEF Spec, HistoryKept
=============================================================================
