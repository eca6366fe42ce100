-------------------------- MODULE BlockCheckProofs --------------------------
(***************************************************************************)
(* The device checker for every number of blocks, versions, refused writes *)
(* and requests: the few version numbers it keeps per LBA decide exactly   *)
(* what the whole history of requests decides, its dirty list is exact,    *)
(* and it never accuses a target whose fault has not occurred.             *)
(***************************************************************************)
EXTENDS BlockCheck, SequenceTheorems, TLAPS

-----------------------------------------------------------------------------
(* The inductive invariant *)

Request == [zero: BOOLEAN, result: {"Ok", "Refused", "Other", "Retired"}]

\* u is the one uncertain write, or the one uncertain zero request, of a history; 0 if there is none.
UncertainWrite(h, u) ==
  /\ u # 0 => u \in 1 .. Len(h) /\ h[u].result = "Other" /\ ~h[u].zero
  /\ \A v \in 1 .. Len(h) : h[v].result = "Other" /\ ~h[v].zero => v = u

UncertainZero(h, u) ==
  /\ u # 0 => u \in 1 .. Len(h) /\ h[u].result = "Other" /\ h[u].zero
  /\ \A v \in 1 .. Len(h) : h[v].result = "Other" /\ h[v].zero => v = u

LastZeroed(h, z) ==
  /\ z \in 0 .. Len(h)
  /\ z # 0 => h[z].result = "Ok" /\ h[z].zero
  /\ \A v \in z + 1 .. Len(h) : ~(h[v].result = "Ok" /\ h[v].zero)

\* gone are the payloads that may never be seen again: refused, or uncertain at a crash.
Rejects(h, gone) ==
  /\ gone \subseteq 1 .. Len(h)
  /\ \A v \in 1 .. Len(h) :
       v \in gone <=> ~h[v].zero /\ (h[v].result = "Refused" \/ h[v].result = "Retired")

\* What the checker's state s of an LBA has to do with the LBA's history h, of which the last
\* flush followed the first f requests.
Tracks(s, h, f, gone) ==
  /\ s.issued = Len(h)
  /\ f \in 0 .. Len(h)
  /\ LastAcked(h, Len(h), s.latest)
  /\ LastAcked(h, f, s.durable)
  /\ LastZeroed(h, s.last_zero)
  /\ s.durable_is_payload <=> s.durable # 0 /\ ~h[s.durable].zero
  /\ UncertainWrite(h, s.uncertain_write)
  /\ UncertainZero(h, s.uncertain_zero)
  /\ Rejects(h, gone)

Gone(l) == {v \in Versions : <<l, v>> \in rejected}

\* What the checker knows of l is true to the history: its versions and its dirty entry.
DirtyExact(l) ==
  dirty[l] = IF \E v \in flushed[l] + 1 .. Len(hist[l]) : hist[l][v].result = "Ok" THEN 1 ELSE 0

Known(l) == Tracks(lbas[l], hist[l], flushed[l], Gone(l)) /\ DirtyExact(l)

KnownInv == pc.at # "incomplete" => \A l \in Blocks : Known(l)

\* What a read returns, the stale-read fault aside.
Shown(l) ==
  CASE pending[l] = "Discard" -> ZeroBlock
    [] pending[l] = "Write" -> cached[l]
    [] OTHER -> durable[l]

LiveContents(l) == Allowed(hist[l], Len(hist[l]), {"Other"})

CrashContents(l) == Allowed(hist[l], flushed[l], {"Ok", "Other"})

\* The durable block of l is one that a crash may leave: not so between the verification of l,
\* which forgets its uncertain requests, and the flush that ends the recovery.
Faithful(l) == pc.at \in {"idle", "crashed"} \/ (pc.at = "verify" /\ pc.lba <= l)

\* A read of l returns a live content: not so between a crash and the repair of l.
Current(l) ==
  \/ pc.at \in {"idle", "flush"}
  \/ pc.at = "verify" /\ l < pc.lba /\ ~lbas[l].needs_repair
  \/ pc.at = "repair" /\ (l < pc.lba \/ ~lbas[l].needs_repair)

Held(l) ==
  /\ pc.at \in {"crashed", "verify"} => pending[l] = "None"
  /\ Faithful(l) => Decode(durable[l], l) \in CrashContents(l)
  /\ Current(l) => Decode(Shown(l), l) \in LiveContents(l)

MediumInv == ~occurred /\ pc.at # "incomplete" => \A l \in Blocks : Held(l)

CheckerInductive == TypeOK /\ KnownInv /\ NoFalseAlarm /\ MediumInv

-----------------------------------------------------------------------------
(* The history of one LBA *)

LEMMA AckedUnique ==
  ASSUME NEW h, NEW f \in Nat, NEW d, LastAcked(h, f, d), NEW e, LastAcked(h, f, e)
  PROVE  d = e
<1>1. d \in 0 .. f /\ e \in 0 .. f
  BY DEF LastAcked
<1>2. ~(d < e) /\ ~(e < d)
  BY <1>1 DEF LastAcked
<1> QED
  BY <1>1, <1>2

LEMMA AllowedIs ==
  ASSUME NEW h, NEW f \in Nat, NEW d, LastAcked(h, f, d), NEW results, NEW c
  PROVE  c \in Allowed(h, f, results) <=>
           \/ c = ContentOf(h, d)
           \/ \E w \in d + 1 .. Len(h) : h[w].result \in results /\ c = ContentOf(h, w)
<1>1. {e \in 0 .. f : LastAcked(h, f, e)} = {d}
  <2>1. d \in 0 .. f
    BY DEF LastAcked
  <2> QED
    BY <2>1, AckedUnique
<1>2. Allowed(h, f, results) =
        {ContentOf(h, v) : v \in {d} \cup {w \in d + 1 .. Len(h) : h[w].result \in results}}
  BY <1>1 DEF Allowed
<1> QED
  BY <1>2

LEMMA TrackedTypes ==
  ASSUME NEW s \in LbaState, NEW h \in Seq(Request), NEW f, NEW gone, Tracks(s, h, f, gone)
  PROVE  /\ Len(h) \in Nat /\ Len(h) <= MaxVersion /\ f \in Nat /\ f <= Len(h)
         /\ s.latest \in 0 .. Len(h) /\ s.durable \in 0 .. f /\ s.durable <= s.latest
         /\ s.last_zero \in 0 .. s.latest
         /\ s.uncertain_write \in 0 .. Len(h) /\ s.uncertain_zero \in 0 .. Len(h)
         /\ MaxVersion \in Nat
         /\ \A v \in 1 .. Len(h) : h[v] \in Request /\ h[v].zero \in BOOLEAN
<1>1. Len(h) \in Nat /\ MaxVersion \in Nat
  BY BlockCheckAssumption
<1>2. Len(h) <= MaxVersion /\ f \in 0 .. Len(h)
  BY <1>1 DEF Tracks, LbaState, Versions
<1>3. s.latest \in 0 .. Len(h) /\ s.durable \in 0 .. f /\ s.last_zero \in 0 .. Len(h)
  BY <1>1, <1>2 DEF Tracks, LastAcked, LastZeroed
<1>4. s.durable <= s.latest
  <2> SUFFICES ASSUME s.latest < s.durable
               PROVE  FALSE
    BY <1>1, <1>2, <1>3
  <2>1. s.durable \in s.latest + 1 .. Len(h) /\ s.durable # 0
    BY <1>1, <1>2, <1>3
  <2> QED
    BY <2>1 DEF Tracks, LastAcked
<1>5. s.last_zero <= s.latest
  <2> SUFFICES ASSUME s.latest < s.last_zero
               PROVE  FALSE
    BY <1>1, <1>3
  <2>1. s.last_zero \in s.latest + 1 .. Len(h) /\ s.last_zero # 0
    BY <1>1, <1>3
  <2> QED
    BY <2>1 DEF Tracks, LastAcked, LastZeroed
<1>6. s.uncertain_write \in 0 .. Len(h) /\ s.uncertain_zero \in 0 .. Len(h)
  BY <1>1 DEF Tracks, UncertainWrite, UncertainZero
<1>7. \A v \in 1 .. Len(h) : h[v] \in Request /\ h[v].zero \in BOOLEAN
  <2>1. \A v \in 1 .. Len(h) : h[v] \in Request
    BY ElementOfSeq
  <2> QED
    BY <2>1 DEF Request
<1> QED
  BY <1>1, <1>2, <1>3, <1>4, <1>5, <1>6, <1>7

\* The content that is expected is that of the last acknowledged request.
LEMMA ExpectedContent ==
  ASSUME NEW s \in LbaState, NEW h \in Seq(Request), NEW f, NEW gone, Tracks(s, h, f, gone)
  PROVE  Expected(s) = ContentOf(h, s.latest)
<1>1. /\ Len(h) \in Nat /\ s.latest \in 0 .. Len(h) /\ s.last_zero \in 0 .. s.latest
      /\ LastAcked(h, Len(h), s.latest) /\ LastZeroed(h, s.last_zero)
  BY TrackedTypes DEF Tracks
<1>2. CASE s.latest = 0
  BY <1>1, <1>2 DEF Expected, ContentOf, Zero
<1>3. CASE s.latest # 0 /\ s.latest = s.last_zero
  BY <1>1, <1>3 DEF Expected, ContentOf, LastZeroed
<1>4. CASE s.latest # 0 /\ s.latest # s.last_zero
  <2>1. s.latest \in s.last_zero + 1 .. Len(h) /\ h[s.latest].result = "Ok"
    BY <1>1, <1>4 DEF LastAcked
  <2>2. ~h[s.latest].zero
    BY <1>1, <2>1 DEF LastZeroed
  <2> QED
    BY <1>4, <2>2 DEF Expected, ContentOf
<1> QED
  BY <1>2, <1>3, <1>4

LEMMA LiveExactFor ==
  ASSUME NEW s \in LbaState, NEW h \in Seq(Request), NEW f, NEW gone, Tracks(s, h, f, gone), NEW found
  PROVE  LiveOk(s, found) <=> found \in Allowed(h, Len(h), {"Other"})
<1>1. /\ Len(h) \in Nat /\ s.latest \in 0 .. Len(h)
      /\ s.uncertain_write \in 0 .. Len(h) /\ s.uncertain_zero \in 0 .. Len(h)
      /\ LastAcked(h, Len(h), s.latest)
      /\ UncertainWrite(h, s.uncertain_write) /\ UncertainZero(h, s.uncertain_zero)
      /\ \A v \in 1 .. Len(h) : h[v] \in Request /\ h[v].zero \in BOOLEAN
  BY TrackedTypes DEF Tracks
<1>2. found \in Allowed(h, Len(h), {"Other"}) <=>
        \/ found = Expected(s)
        \/ \E w \in s.latest + 1 .. Len(h) : h[w].result = "Other" /\ found = ContentOf(h, w)
  <2>1. Expected(s) = ContentOf(h, s.latest)
    BY ExpectedContent
  <2>2. found \in Allowed(h, Len(h), {"Other"}) <=>
          \/ found = ContentOf(h, s.latest)
          \/ \E w \in s.latest + 1 .. Len(h) : h[w].result \in {"Other"} /\ found = ContentOf(h, w)
    BY <1>1, AllowedIs
  <2> QED
    BY <2>1, <2>2
<1>3. ASSUME NEW w \in s.latest + 1 .. Len(h), h[w].result = "Other", found = ContentOf(h, w)
      PROVE  \/ found = Zero /\ s.uncertain_zero > s.latest
             \/ found > 0 /\ found = s.uncertain_write /\ found > s.latest
  <2>1. w \in 1 .. Len(h) /\ w > s.latest /\ w # 0 /\ w > 0
    BY <1>1
  <2>2. CASE h[w].zero
    <3>1. w = s.uncertain_zero
      BY <1>1, <1>3, <2>1, <2>2 DEF UncertainZero
    <3> QED
      BY <1>3, <2>1, <2>2, <3>1 DEF ContentOf
  <2>3. CASE ~h[w].zero
    <3>1. w = s.uncertain_write
      BY <1>1, <1>3, <2>1, <2>3 DEF UncertainWrite
    <3> QED
      BY <1>3, <2>1, <2>3, <3>1 DEF ContentOf
  <2> QED
    BY <2>2, <2>3
<1>4. ASSUME found = Zero, s.uncertain_zero > s.latest
      PROVE  \E w \in s.latest + 1 .. Len(h) : h[w].result = "Other" /\ found = ContentOf(h, w)
  <2>1. s.uncertain_zero \in s.latest + 1 .. Len(h) /\ s.uncertain_zero # 0
    BY <1>1, <1>4
  <2> QED
    BY <1>1, <1>4, <2>1 DEF UncertainZero, ContentOf
<1>5. ASSUME found = s.uncertain_write, found > s.latest
      PROVE  \E w \in s.latest + 1 .. Len(h) : h[w].result = "Other" /\ found = ContentOf(h, w)
  <2>1. found \in s.latest + 1 .. Len(h) /\ found # 0
    BY <1>1, <1>5
  <2> QED
    BY <1>1, <1>5, <2>1 DEF UncertainWrite, ContentOf
<1> QED
  BY <1>2, <1>3, <1>4, <1>5 DEF LiveOk

LEMMA CrashExactFor ==
  ASSUME NEW s \in LbaState, NEW h \in Seq(Request), NEW f, NEW gone, Tracks(s, h, f, gone),
         NEW found \in Returnable(h), NEW wasRejected \in BOOLEAN,
         found > 0 => (wasRejected <=> found \in gone)
  PROVE  CrashOk(s, found, wasRejected) <=> found \in Allowed(h, f, {"Ok", "Other"})
<1>1. /\ Len(h) \in Nat /\ s.latest \in 0 .. Len(h) /\ s.durable \in 0 .. f /\ f \in Nat /\ f <= Len(h)
      /\ s.durable <= s.latest /\ s.last_zero \in 0 .. s.latest
      /\ s.uncertain_write \in 0 .. Len(h) /\ s.uncertain_zero \in 0 .. Len(h)
      /\ \A v \in 1 .. Len(h) : h[v] \in Request /\ h[v].zero \in BOOLEAN
  BY TrackedTypes
<1>2. /\ LastAcked(h, Len(h), s.latest) /\ LastAcked(h, f, s.durable) /\ LastZeroed(h, s.last_zero)
      /\ s.durable_is_payload <=> s.durable # 0 /\ ~h[s.durable].zero
      /\ UncertainWrite(h, s.uncertain_write) /\ UncertainZero(h, s.uncertain_zero)
      /\ Rejects(h, gone)
  BY DEF Tracks
<1>3. found \in Int /\ (found \in 1 .. Len(h) => ~h[found].zero)
  <2>1. DOMAIN h = 1 .. Len(h) /\ MaxVersion \in Nat
    BY LenProperties, BlockCheckAssumption
  <2> QED
    BY <2>1 DEF Returnable, Invalid
<1> DEFINE later(w) == w \in s.durable + 1 .. Len(h) /\ (h[w].result = "Ok" \/ h[w].result = "Other")
<1>4. found \in Allowed(h, f, {"Ok", "Other"}) <=>
        found = ContentOf(h, s.durable) \/ \E w \in s.durable + 1 .. Len(h) : later(w) /\ found = ContentOf(h, w)
  BY <1>1, <1>2, AllowedIs
<1>5. CASE found = 0
  <2>1. CrashOk(s, found, wasRejected) <=> ZeroAfterCrash(s)
    BY <1>5 DEF CrashOk, Zero
  <2>2. found = ContentOf(h, s.durable) <=> ~s.durable_is_payload
    BY <1>1, <1>2, <1>5 DEF ContentOf, Zero
  <2>3. ASSUME NEW w \in s.durable + 1 .. Len(h), later(w), found = ContentOf(h, w)
        PROVE  s.last_zero > s.durable \/ s.uncertain_zero > s.durable
    <3>1. w \in 1 .. Len(h) /\ w > s.durable /\ w # 0 /\ h[w].zero
      BY <1>1, <1>5, <2>3 DEF ContentOf
    <3>2. CASE h[w].result = "Ok"
      <4>1. ~(w \in s.last_zero + 1 .. Len(h))
        BY <1>2, <3>1, <3>2 DEF LastZeroed
      <4> QED
        BY <1>1, <3>1, <4>1
    <3>3. CASE h[w].result = "Other"
      <4>1. w = s.uncertain_zero
        BY <1>2, <3>1, <3>3 DEF UncertainZero
      <4> QED
        BY <3>1, <4>1
    <3> QED
      BY <2>3, <3>2, <3>3
  <2>4. ASSUME s.last_zero > s.durable
        PROVE  \E w \in s.durable + 1 .. Len(h) : later(w) /\ found = ContentOf(h, w)
    <3>1. s.last_zero \in s.durable + 1 .. Len(h) /\ s.last_zero # 0
      BY <1>1, <2>4
    <3> QED
      BY <1>2, <1>5, <3>1 DEF LastZeroed, ContentOf, Zero
  <2>5. ASSUME s.uncertain_zero > s.durable
        PROVE  \E w \in s.durable + 1 .. Len(h) : later(w) /\ found = ContentOf(h, w)
    <3>1. s.uncertain_zero \in s.durable + 1 .. Len(h) /\ s.uncertain_zero # 0
      BY <1>1, <2>5
    <3> QED
      BY <1>2, <1>5, <3>1 DEF UncertainZero, ContentOf, Zero
  <2> QED
    BY <1>4, <2>1, <2>2, <2>3, <2>4, <2>5 DEF ZeroAfterCrash
<1>6. CASE found > 0
  <2> DEFINE uncertain == found = s.uncertain_write /\ found > s.durable
             payload == s.durable_is_payload /\ found = s.durable
  <2>1. CrashOk(s, found, wasRejected) <=>
          found \notin gone /\ (found > s.latest => uncertain) /\ (payload \/ uncertain \/ found > s.durable)
    BY <1>6 DEF CrashOk, Zero
  <2>2. found \in Allowed(h, f, {"Ok", "Other"}) <=> payload \/ later(found)
    <3>1. found = ContentOf(h, s.durable) <=> payload
      BY <1>1, <1>2, <1>6 DEF ContentOf, Zero
    <3>2. ASSUME NEW w \in s.durable + 1 .. Len(h), later(w)
          PROVE  found = ContentOf(h, w) <=> found = w
      <4>1. w \in 1 .. Len(h) /\ w # 0
        BY <1>1
      <4> QED
        BY <1>3, <1>6, <4>1 DEF ContentOf, Zero
    <3>3. later(found) => found \in s.durable + 1 .. Len(h)
      OBVIOUS
    <3> HIDE DEF later
    <3> QED
      BY <1>4, <3>1, <3>2, <3>3
  <2>3. uncertain => later(found)
    BY <1>1, <1>2, <1>6 DEF UncertainWrite
  <2>4. ASSUME found \in 1 .. Len(h)
        PROVE  found \in gone <=> ~(h[found].result = "Ok" \/ h[found].result = "Other")
    <3>1. h[found].result \in {"Ok", "Refused", "Other", "Retired"} /\ ~h[found].zero
      BY <1>1, <1>3, <2>4 DEF Request
    <3> QED
      BY <1>2, <2>4, <3>1 DEF Rejects
  <2>5. ASSUME payload \/ later(found)
        PROVE  found \notin gone /\ (found > s.latest => uncertain) /\ (payload \/ uncertain \/ found > s.durable)
    <3>1. found \in 1 .. Len(h) /\ (h[found].result = "Ok" \/ h[found].result = "Other")
      BY <1>1, <1>2, <1>6, <2>5 DEF LastAcked
    <3>2. found > s.latest => uncertain
      <4> SUFFICES ASSUME found > s.latest
                   PROVE  uncertain
        OBVIOUS
      <4>1. found \in s.latest + 1 .. Len(h) /\ found > s.durable
        BY <1>1, <3>1
      <4>2. h[found].result = "Other"
        BY <1>2, <3>1, <4>1 DEF LastAcked
      <4> QED
        BY <1>2, <1>3, <3>1, <4>1, <4>2 DEF UncertainWrite
    <3>3. payload \/ found > s.durable
      BY <1>1, <1>3, <2>5
    <3> QED
      BY <2>4, <3>1, <3>2, <3>3
  <2>6. ASSUME found \notin gone, found > s.latest => uncertain, payload \/ uncertain \/ found > s.durable
        PROVE  payload \/ later(found)
    <3>1. CASE found > s.latest
      BY <2>3, <2>6, <3>1
    <3>2. CASE ~(found > s.latest) /\ found > s.durable
      <4>1. found \in 1 .. Len(h) /\ found \in s.durable + 1 .. Len(h)
        BY <1>1, <1>3, <3>2
      <4> QED
        BY <2>4, <2>6, <4>1
    <3> QED
      BY <2>3, <2>6, <3>1, <3>2
  <2> QED
    BY <2>1, <2>2, <2>5, <2>6
<1>7. CASE found < 0
  <2>1. ~CrashOk(s, found, wasRejected)
    BY <1>3, <1>7 DEF CrashOk, Zero
  <2>2. ContentOf(h, s.durable) >= 0 /\ \A w \in s.durable + 1 .. Len(h) : ContentOf(h, w) >= 0
    BY <1>1 DEF ContentOf, Zero
  <2>3. found # ContentOf(h, s.durable) /\ \A w \in s.durable + 1 .. Len(h) : found # ContentOf(h, w)
    BY <1>3, <1>7, <2>2
  <2> QED
    BY <1>4, <2>1, <2>3
<1> QED
  BY <1>3, <1>5, <1>6, <1>7

\* Only contents that a target can return are allowed.
LEMMA AllowedReturnable ==
  ASSUME NEW s \in LbaState, NEW h \in Seq(Request), NEW f, NEW gone, Tracks(s, h, f, gone),
         NEW c \in Allowed(h, f, {"Ok", "Other"})
  PROVE  c \in Returnable(h)
<1>1. /\ Len(h) \in Nat /\ Len(h) <= MaxVersion /\ MaxVersion \in Nat /\ s.durable \in 0 .. f
      /\ f \in Nat /\ f <= Len(h) /\ LastAcked(h, f, s.durable)
  BY TrackedTypes DEF Tracks
<1>2. \E v \in 0 .. Len(h) : c = ContentOf(h, v)
  <2>1. \/ c = ContentOf(h, s.durable)
        \/ \E w \in s.durable + 1 .. Len(h) : c = ContentOf(h, w)
    BY <1>1, AllowedIs
  <2>2. s.durable \in 0 .. Len(h) /\ \A w \in s.durable + 1 .. Len(h) : w \in 0 .. Len(h)
    BY <1>1
  <2> QED
    BY <2>1, <2>2
<1>3. PICK v \in 0 .. Len(h) : c = ContentOf(h, v)
  BY <1>2
<1>4. DOMAIN h = 1 .. Len(h)
  BY LenProperties
<1> QED
  BY <1>1, <1>3, <1>4 DEF ContentOf, Zero, Returnable, Invalid

\* A live content is one that a crash may leave, and after a flush these are the same.
LEMMA LiveMayRemain ==
  ASSUME NEW s \in LbaState, NEW h \in Seq(Request), NEW f, NEW gone, Tracks(s, h, f, gone),
         NEW c \in Allowed(h, Len(h), {"Other"})
  PROVE  c \in Allowed(h, f, {"Ok", "Other"}) /\ c \in Allowed(h, Len(h), {"Ok", "Other"})
<1>1. /\ Len(h) \in Nat /\ s.durable \in 0 .. f /\ s.durable <= s.latest /\ s.latest \in 0 .. Len(h)
      /\ f \in Nat /\ f <= Len(h)
      /\ LastAcked(h, f, s.durable) /\ LastAcked(h, Len(h), s.latest)
  BY TrackedTypes DEF Tracks
<1>2. \/ c = ContentOf(h, s.latest)
      \/ \E w \in s.latest + 1 .. Len(h) : h[w].result = "Other" /\ c = ContentOf(h, w)
  BY <1>1, AllowedIs
<1>3. \/ c = ContentOf(h, s.durable)
      \/ \E w \in s.durable + 1 .. Len(h) : h[w].result \in {"Ok", "Other"} /\ c = ContentOf(h, w)
  <2>1. CASE s.latest = s.durable
    BY <1>2, <2>1
  <2>2. CASE s.latest # s.durable
    <3>1. s.latest \in s.durable + 1 .. Len(h) /\ h[s.latest].result = "Ok"
      BY <1>1, <2>2 DEF LastAcked
    <3>2. \A w \in s.latest + 1 .. Len(h) : w \in s.durable + 1 .. Len(h)
      BY <1>1
    <3> QED
      BY <1>2, <3>1, <3>2
  <2> QED
    BY <2>1, <2>2
<1>4. c \in Allowed(h, f, {"Ok", "Other"})
  BY <1>1, <1>3, AllowedIs
<1>5. \/ c = ContentOf(h, s.latest)
      \/ \E w \in s.latest + 1 .. Len(h) : h[w].result \in {"Ok", "Other"} /\ c = ContentOf(h, w)
  BY <1>2
<1>6. c \in Allowed(h, Len(h), {"Ok", "Other"})
  BY <1>1, <1>5, AllowedIs
<1> QED
  BY <1>4, <1>6

-----------------------------------------------------------------------------
(* One more request *)

\* The state of an LBA after a request with version n, whatever needs_repair says.
Applied(s, t, n, zero, result) ==
  /\ t.issued = n
  /\ t.latest = IF result = "Ok" THEN n ELSE s.latest
  /\ t.last_zero = IF result = "Ok" /\ zero THEN n ELSE s.last_zero
  /\ t.durable = s.durable
  /\ t.durable_is_payload = s.durable_is_payload
  /\ t.uncertain_write = IF result = "Other" /\ ~zero THEN n ELSE s.uncertain_write
  /\ t.uncertain_zero = IF result = "Other" /\ zero THEN n ELSE s.uncertain_zero

LEMMA ApplyFields ==
  ASSUME NEW s \in LbaState, s.issued < MaxVersion, NEW zero \in BOOLEAN,
         NEW result \in {"Ok", "Refused", "Other"}, result = "Other" => ~UncertainLimit(s, zero),
         NEW t, t = Apply(Issue(s), s.issued + 1, zero, result)
  PROVE  t \in LbaState /\ Applied(s, t, s.issued + 1, zero, result)
<1>1. PICK n \in Versions : n = s.issued + 1
  BY BlockCheckAssumption DEF LbaState, Versions
<1>2. Issue(s) = [s EXCEPT !.issued = n]
  BY <1>1 DEF Issue, LbaState
<1> DEFINE i == [s EXCEPT !.issued = n]
<1>3. /\ i \in LbaState /\ i.issued = n /\ i.latest = s.latest /\ i.last_zero = s.last_zero
      /\ i.durable = s.durable /\ i.durable_is_payload = s.durable_is_payload
      /\ i.uncertain_write = s.uncertain_write /\ i.uncertain_zero = s.uncertain_zero
  BY DEF LbaState
<1>4. t = Apply(i, n, zero, result)
  BY <1>1, <1>2
<1> HIDE DEF i
<1>5. CASE result = "Ok"
  <2>1. t = [i EXCEPT !.latest = n, !.last_zero = IF zero THEN n ELSE i.last_zero]
    BY <1>3, <1>4, <1>5 DEF Apply, Acknowledge, LbaState
  <2>2. CASE zero
    <3>1. t = [i EXCEPT !.latest = n, !.last_zero = n]
      BY <2>1, <2>2
    <3> QED
      BY <1>1, <1>3, <1>5, <2>2, <3>1 DEF LbaState, Applied
  <2>3. CASE ~zero
    <3>1. t = [i EXCEPT !.latest = n, !.last_zero = i.last_zero]
      BY <2>1, <2>3
    <3> QED
      BY <1>1, <1>3, <1>5, <2>3, <3>1 DEF LbaState, Applied
  <2> QED
    BY <2>2, <2>3
<1>6. CASE result = "Other"
  <2>1. ~UncertainLimit(i, zero)
    BY <1>3, <1>6 DEF UncertainLimit
  <2>2. t = IF zero THEN [i EXCEPT !.uncertain_zero = n] ELSE [i EXCEPT !.uncertain_write = n]
    BY <1>4, <1>6, <2>1 DEF Apply, MarkUncertain
  <2>3. CASE zero
    <3>1. t = [i EXCEPT !.uncertain_zero = n]
      BY <2>2, <2>3
    <3> QED
      BY <1>1, <1>3, <1>6, <2>3, <3>1 DEF LbaState, Applied
  <2>4. CASE ~zero
    <3>1. t = [i EXCEPT !.uncertain_write = n]
      BY <2>2, <2>4
    <3> QED
      BY <1>1, <1>3, <1>6, <2>4, <3>1 DEF LbaState, Applied
  <2> QED
    BY <2>3, <2>4
<1>7. CASE result = "Refused"
  <2>1. t = i
    BY <1>4, <1>7 DEF Apply
  <2> QED
    BY <1>1, <1>3, <1>7, <2>1 DEF Applied
<1> QED
  BY <1>5, <1>6, <1>7

\* The history with one more request.
Grown(h, g, zero, result) ==
  /\ g \in Seq(Request) /\ Len(g) = Len(h) + 1
  /\ \A v \in 1 .. Len(h) : g[v] = h[v]
  /\ g[Len(g)].zero = zero /\ g[Len(g)].result = result

LEMMA AppendGrows ==
  ASSUME NEW h \in Seq(Request), NEW zero \in BOOLEAN, NEW result \in {"Ok", "Refused", "Other"}
  PROVE  Grown(h, Append(h, Observed(zero, result)), zero, result)
<1> DEFINE r == Observed(zero, result)
           g == Append(h, r)
<1>1. r \in Request /\ r.zero = zero /\ r.result = result
  BY DEF Request, Observed
<1> HIDE DEF r
<1>2. g \in Seq(Request) /\ Len(g) = Len(h) + 1 /\ g[Len(h) + 1] = r
  BY <1>1, AppendProperties
<1>3. \A v \in 1 .. Len(h) : g[v] = h[v]
  BY <1>1, AppendProperties
<1> HIDE DEF g
<1>4. Grown(h, g, zero, result)
  BY <1>1, <1>2, <1>3 DEF Grown
<1> QED
  BY <1>4 DEF g, r

\* How a target answers a request.
Results == {"Ok", "Refused", "Other"}

\* An uncertain request can be recorded only if none of its kind is recorded yet.
Recordable(s, zero, result) == result = "Other" => ~UncertainLimit(s, zero)

\* The payload of a refused write may never be seen.
Forbidden(gone, more, n, zero, result) ==
  more = IF result = "Refused" /\ ~zero THEN gone \cup {n} ELSE gone

\* A request that can be recorded keeps the state of its LBA true to the history.
LEMMA GrownTracks ==
  ASSUME NEW s \in LbaState, NEW t \in LbaState, NEW h \in Seq(Request), NEW g, NEW f,
         NEW gone, NEW more, NEW zero \in BOOLEAN, NEW result \in Results,
         Tracks(s, h, f, gone), Grown(h, g, zero, result), Applied(s, t, Len(h) + 1, zero, result),
         Recordable(s, zero, result), Forbidden(gone, more, Len(h) + 1, zero, result)
  PROVE  Tracks(t, g, f, more)
<1> DEFINE n == Len(h) + 1
<1>1. /\ Len(h) \in Nat /\ f \in Nat /\ f <= Len(h)
      /\ s.latest \in 0 .. Len(h) /\ s.durable \in 0 .. f /\ s.durable <= s.latest
      /\ s.last_zero \in 0 .. s.latest
      /\ s.uncertain_write \in 0 .. Len(h) /\ s.uncertain_zero \in 0 .. Len(h)
  BY TrackedTypes
<1>2. /\ LastAcked(h, Len(h), s.latest) /\ LastAcked(h, f, s.durable) /\ LastZeroed(h, s.last_zero)
      /\ s.durable_is_payload <=> s.durable # 0 /\ ~h[s.durable].zero
      /\ UncertainWrite(h, s.uncertain_write) /\ UncertainZero(h, s.uncertain_zero)
      /\ Rejects(h, gone)
  BY DEF Tracks
<1>3. /\ Len(g) = n /\ n \in Nat /\ n > Len(h) /\ n # 0
      /\ g[n].zero = zero /\ g[n].result = result
      /\ \A v \in 1 .. Len(h) : g[v] = h[v]
  BY <1>1 DEF Grown
<1>4. /\ t.issued = n
      /\ t.latest = IF result = "Ok" THEN n ELSE s.latest
      /\ t.last_zero = IF result = "Ok" /\ zero THEN n ELSE s.last_zero
      /\ t.durable = s.durable
      /\ t.durable_is_payload = s.durable_is_payload
      /\ t.uncertain_write = IF result = "Other" /\ ~zero THEN n ELSE s.uncertain_write
      /\ t.uncertain_zero = IF result = "Other" /\ zero THEN n ELSE s.uncertain_zero
  BY DEF Applied
<1>5. \A v \in 1 .. n : v = n \/ v \in 1 .. Len(h)
  BY <1>1
<1>6. n \in 1 .. n /\ \A v \in 1 .. Len(h) : v \in 1 .. n /\ v # n
  BY <1>1
<1> HIDE DEF n
<1>7. LastAcked(g, n, t.latest)
  <2>1. CASE result = "Ok"
    BY <1>1, <1>3, <1>4, <2>1 DEF LastAcked
  <2>2. CASE result # "Ok"
    <3>1. t.latest = s.latest /\ s.latest \in 0 .. n
      BY <1>1, <1>3, <1>4, <2>2
    <3>2. s.latest # 0 => g[s.latest].result = "Ok"
      BY <1>1, <1>2, <1>3 DEF LastAcked
    <3>3. ASSUME NEW v \in s.latest + 1 .. n
          PROVE  g[v].result # "Ok"
      <4>1. v = n \/ v \in s.latest + 1 .. Len(h)
        BY <1>1, <1>5
      <4>2. v \in s.latest + 1 .. Len(h) => g[v] = h[v]
        BY <1>1, <1>3
      <4> QED
        BY <1>2, <1>3, <2>2, <4>1, <4>2 DEF LastAcked
    <3> QED
      BY <3>1, <3>2, <3>3 DEF LastAcked
  <2> QED
    BY <2>1, <2>2
<1>8. LastAcked(g, f, t.durable)
  <2>1. \A v \in 1 .. f : g[v] = h[v]
    BY <1>1, <1>3
  <2> QED
    BY <1>1, <1>2, <1>4, <2>1 DEF LastAcked
<1>9. LastZeroed(g, t.last_zero)
  <2>1. CASE result = "Ok" /\ zero
    <3>1. t.last_zero = n
      BY <1>4, <2>1
    <3>2. g[n].result = "Ok" /\ g[n].zero
      BY <1>3, <2>1, Zenon
    <3> QED
      BY <1>3, <3>1, <3>2 DEF LastZeroed
  <2>2. CASE ~(result = "Ok" /\ zero)
    <3>1. t.last_zero = s.last_zero /\ s.last_zero \in 0 .. n /\ s.last_zero \in 0 .. Len(h)
      BY <1>1, <1>3, <1>4, <2>2
    <3>2. s.last_zero # 0 => g[s.last_zero].result = "Ok" /\ g[s.last_zero].zero
      BY <1>1, <1>2, <1>3, <3>1 DEF LastZeroed
    <3>3. ASSUME NEW v \in s.last_zero + 1 .. n
          PROVE  ~(g[v].result = "Ok" /\ g[v].zero)
      <4>1. v = n \/ v \in s.last_zero + 1 .. Len(h)
        BY <1>1, <1>5, <3>1
      <4>2. v \in s.last_zero + 1 .. Len(h) => g[v] = h[v]
        BY <1>1, <1>3, <3>1
      <4> QED
        BY <1>2, <1>3, <2>2, <4>1, <4>2 DEF LastZeroed
    <3> QED
      BY <1>3, <3>1, <3>2, <3>3 DEF LastZeroed
  <2> QED
    BY <2>1, <2>2
<1>10. t.durable_is_payload <=> t.durable # 0 /\ ~g[t.durable].zero
  BY <1>1, <1>2, <1>3, <1>4
<1>11. UncertainWrite(g, t.uncertain_write)
  <2>1. CASE result = "Other" /\ ~zero
    <3>1. s.uncertain_write = 0
      BY <2>1 DEF UncertainLimit, Recordable
    <3>2. ASSUME NEW v \in 1 .. Len(h)
          PROVE  ~(h[v].result = "Other" /\ ~h[v].zero)
      BY <1>1, <1>2, <3>1 DEF UncertainWrite
    <3> QED
      BY <1>3, <1>4, <1>5, <1>6, <2>1, <3>2 DEF UncertainWrite
  <2>2. CASE ~(result = "Other" /\ ~zero)
    BY <1>1, <1>2, <1>3, <1>4, <1>5, <1>6, <2>2 DEF UncertainWrite
  <2> QED
    BY <2>1, <2>2
<1>12. UncertainZero(g, t.uncertain_zero)
  <2>1. CASE result = "Other" /\ zero
    <3>1. s.uncertain_zero = 0
      BY <2>1 DEF UncertainLimit, Recordable
    <3>2. ASSUME NEW v \in 1 .. Len(h)
          PROVE  ~(h[v].result = "Other" /\ h[v].zero)
      BY <1>1, <1>2, <3>1 DEF UncertainZero
    <3> QED
      BY <1>3, <1>4, <1>5, <1>6, <2>1, <3>2 DEF UncertainZero
  <2>2. CASE ~(result = "Other" /\ zero)
    BY <1>1, <1>2, <1>3, <1>4, <1>5, <1>6, <2>2 DEF UncertainZero
  <2> QED
    BY <2>1, <2>2
<1>13. Rejects(g, more)
  <2>1. more \subseteq 1 .. n
    BY <1>2, <1>6 DEF Rejects, Forbidden, n
  <2>2. ASSUME NEW v \in 1 .. n
        PROVE  v \in more <=> ~g[v].zero /\ (g[v].result = "Refused" \/ g[v].result = "Retired")
    <3>1. CASE v = n
      <4>1. n \notin gone
        BY <1>2, <1>6 DEF Rejects
      <4>2. n \in more <=> result = "Refused" /\ ~zero
        BY <4>1 DEF Forbidden, n
      <4> QED
        BY <1>3, <3>1, <4>2 DEF Results
    <3>2. CASE v # n
      <4>1. v \in 1 .. Len(h) /\ g[v] = h[v]
        BY <1>3, <1>5, <3>2
      <4>2. v \in more <=> v \in gone
        BY <3>2 DEF Forbidden, n
      <4> QED
        BY <1>2, <4>1, <4>2 DEF Rejects
    <3> QED
      BY <3>1, <3>2
  <2> QED
    BY <1>3, <2>1, <2>2 DEF Rejects
<1>14. f \in 0 .. n
  BY <1>1, <1>3
<1> QED
  BY <1>3, <1>4, <1>7, <1>8, <1>9, <1>10, <1>11, <1>12, <1>13, <1>14 DEF Tracks

\* The content that a request asks for.
Requests(n, zero) == IF zero THEN 0 ELSE n

\* What a crash may leave only grows with a request, what a read may return only with one that is
\* not acknowledged, and a request that may have taken effect adds its own content to both.
Widens(h, g, f, zero, result) ==
  /\ \A c \in Allowed(h, f, {"Ok", "Other"}) : c \in Allowed(g, f, {"Ok", "Other"})
  /\ result # "Ok" => \A c \in Allowed(h, Len(h), {"Other"}) : c \in Allowed(g, Len(g), {"Other"})
  /\ result # "Refused" =>
       /\ Requests(Len(h) + 1, zero) \in Allowed(g, Len(g), {"Other"})
       /\ Requests(Len(h) + 1, zero) \in Allowed(g, f, {"Ok", "Other"})

LEMMA GrownAllowed ==
  ASSUME NEW s \in LbaState, NEW t \in LbaState, NEW h \in Seq(Request), NEW g \in Seq(Request),
         NEW f, NEW gone, NEW more,
         NEW zero \in BOOLEAN, NEW result \in Results,
         Tracks(s, h, f, gone), Grown(h, g, zero, result), Applied(s, t, Len(h) + 1, zero, result),
         Tracks(t, g, f, more)
  PROVE  Widens(h, g, f, zero, result)
<1> DEFINE n == Len(h) + 1
<1>1. /\ Len(h) \in Nat /\ f \in Nat /\ f <= Len(h)
      /\ s.latest \in 0 .. Len(h) /\ s.durable \in 0 .. f
      /\ LastAcked(h, Len(h), s.latest) /\ LastAcked(h, f, s.durable)
  BY TrackedTypes DEF Tracks
<1>2. /\ Len(g) = n /\ n \in Nat /\ n > Len(h) /\ n # 0
      /\ g[n].zero = zero /\ g[n].result = result
      /\ \A v \in 1 .. Len(h) : g[v] = h[v]
  BY <1>1 DEF Grown
<1>3. /\ t.latest = IF result = "Ok" THEN n ELSE s.latest
      /\ t.durable = s.durable
      /\ LastAcked(g, Len(g), t.latest) /\ LastAcked(g, f, t.durable)
  BY DEF Applied, Tracks
<1>4. ContentOf(g, n) = Requests(n, zero)
  BY <1>2 DEF ContentOf, Zero, Requests
<1>5. \A v \in 0 .. Len(h) : ContentOf(g, v) = ContentOf(h, v)
  BY <1>1, <1>2 DEF ContentOf
<1> HIDE DEF n
<1>6. \A c : c \in Allowed(g, f, {"Ok", "Other"}) <=>
               \/ c = ContentOf(g, s.durable)
               \/ \E w \in s.durable + 1 .. n : g[w].result \in {"Ok", "Other"} /\ c = ContentOf(g, w)
  BY <1>1, <1>2, <1>3, AllowedIs
<1>7. \A c : c \in Allowed(g, n, {"Other"}) <=>
               \/ c = ContentOf(g, t.latest)
               \/ \E w \in t.latest + 1 .. n : g[w].result \in {"Other"} /\ c = ContentOf(g, w)
  BY <1>2, <1>3, AllowedIs
<1>8. ASSUME NEW c \in Allowed(h, f, {"Ok", "Other"})
      PROVE  c \in Allowed(g, f, {"Ok", "Other"})
  <2>1. \/ c = ContentOf(h, s.durable)
        \/ \E w \in s.durable + 1 .. Len(h) : h[w].result \in {"Ok", "Other"} /\ c = ContentOf(h, w)
    BY <1>1, AllowedIs
  <2>2. CASE c = ContentOf(h, s.durable)
    BY <1>1, <1>5, <1>6, <2>2
  <2>3. ASSUME NEW w \in s.durable + 1 .. Len(h), h[w].result \in {"Ok", "Other"}, c = ContentOf(h, w)
        PROVE  c \in Allowed(g, f, {"Ok", "Other"})
    <3>1. w \in s.durable + 1 .. n /\ w \in 1 .. Len(h) /\ w \in 0 .. Len(h)
      BY <1>1, <1>2
    <3> QED
      BY <1>2, <1>5, <1>6, <2>3, <3>1
  <2> QED
    BY <2>1, <2>2, <2>3
<1>9. ASSUME result # "Ok", NEW c \in Allowed(h, Len(h), {"Other"})
      PROVE  c \in Allowed(g, n, {"Other"})
  <2>1. \/ c = ContentOf(h, s.latest)
        \/ \E w \in s.latest + 1 .. Len(h) : h[w].result \in {"Other"} /\ c = ContentOf(h, w)
    BY <1>1, AllowedIs
  <2>2. t.latest = s.latest
    BY <1>3, <1>9
  <2>3. CASE c = ContentOf(h, s.latest)
    BY <1>1, <1>5, <1>7, <2>2, <2>3
  <2>4. ASSUME NEW w \in s.latest + 1 .. Len(h), h[w].result \in {"Other"}, c = ContentOf(h, w)
        PROVE  c \in Allowed(g, n, {"Other"})
    <3>1. w \in t.latest + 1 .. n /\ w \in 1 .. Len(h) /\ w \in 0 .. Len(h)
      BY <1>1, <1>2, <2>2
    <3> QED
      BY <1>2, <1>5, <1>7, <2>4, <3>1
  <2> QED
    BY <2>1, <2>3, <2>4
<1>10. ASSUME result # "Refused"
       PROVE  ContentOf(g, n) \in Allowed(g, n, {"Other"}) /\ ContentOf(g, n) \in Allowed(g, f, {"Ok", "Other"})
  <2>1. n \in s.durable + 1 .. n /\ (result # "Ok" => n \in t.latest + 1 .. n)
    BY <1>1, <1>2, <1>3
  <2>2. ContentOf(g, n) \in Allowed(g, f, {"Ok", "Other"})
    BY <1>2, <1>6, <1>10, <2>1 DEF Results
  <2>3. CASE result = "Ok"
    BY <1>3, <1>7, <2>2, <2>3
  <2>4. CASE result = "Other"
    BY <1>2, <1>7, <2>1, <2>2, <2>4
  <2> QED
    BY <1>10, <2>3, <2>4 DEF Results
<1> QED
  BY <1>2, <1>4, <1>8, <1>9, <1>10 DEF n, Widens

\* A flush: the acknowledged requests become the durable ones.
LEMMA FlushTracks ==
  ASSUME NEW s \in LbaState, NEW h \in Seq(Request), NEW f, NEW gone, Tracks(s, h, f, gone)
  PROVE  /\ MakeDurable(s) \in LbaState
         /\ Tracks(MakeDurable(s), h, Len(h), gone)
         /\ MakeDurable(s).needs_repair = s.needs_repair
         /\ (\A v \in f + 1 .. Len(h) : h[v].result # "Ok") => Tracks(s, h, Len(h), gone)
<1> DEFINE m == MakeDurable(s)
<1>1. /\ m \in LbaState /\ m.issued = s.issued /\ m.latest = s.latest /\ m.last_zero = s.last_zero
      /\ m.durable = s.latest /\ m.durable_is_payload = (s.latest # s.last_zero)
      /\ m.uncertain_write = s.uncertain_write /\ m.uncertain_zero = s.uncertain_zero
      /\ m.needs_repair = s.needs_repair
  BY DEF MakeDurable, LbaState
<1> HIDE DEF m
<1>2. /\ Len(h) \in Nat /\ f \in Nat /\ f <= Len(h)
      /\ s.latest \in 0 .. Len(h) /\ s.durable \in 0 .. f /\ s.last_zero \in 0 .. s.latest
      /\ LastAcked(h, Len(h), s.latest) /\ LastAcked(h, f, s.durable) /\ LastZeroed(h, s.last_zero)
  BY TrackedTypes DEF Tracks
<1>3. s.latest # s.last_zero <=> s.latest # 0 /\ ~h[s.latest].zero
  <2>1. CASE s.latest = 0
    BY <1>2, <2>1
  <2>2. CASE s.latest # 0 /\ s.latest = s.last_zero
    BY <2>2, <1>2 DEF LastZeroed
  <2>3. CASE s.latest # 0 /\ s.latest # s.last_zero
    <3>1. s.latest \in s.last_zero + 1 .. Len(h) /\ h[s.latest].result = "Ok"
      BY <1>2, <2>3 DEF LastAcked
    <3> QED
      BY <1>2, <2>3, <3>1 DEF LastZeroed
  <2> QED
    BY <2>1, <2>2, <2>3
<1>4. Tracks(m, h, Len(h), gone)
  <2>1. m.durable_is_payload <=> m.durable # 0 /\ ~h[m.durable].zero
    BY <1>1, <1>3
  <2> QED
    BY <1>1, <1>2, <2>1 DEF Tracks
<1>5. ASSUME \A v \in f + 1 .. Len(h) : h[v].result # "Ok"
      PROVE  Tracks(s, h, Len(h), gone)
  <2>1. LastAcked(h, Len(h), s.durable)
    <3>1. \A v \in s.durable + 1 .. Len(h) : v \in s.durable + 1 .. f \/ v \in f + 1 .. Len(h)
      BY <1>2
    <3> QED
      BY <1>2, <1>5, <3>1 DEF LastAcked
  <2> QED
    BY <1>2, <2>1 DEF Tracks
<1> QED
  BY <1>1, <1>4, <1>5 DEF m

\* The dirty list's test: a request was acknowledged after the flush.
LEMMA DirtyIs ==
  ASSUME NEW s \in LbaState, NEW h \in Seq(Request), NEW f, NEW gone, Tracks(s, h, f, gone)
  PROVE  NewlyDirty(s) <=> ~\E v \in f + 1 .. Len(h) : h[v].result = "Ok"
<1>1. /\ Len(h) \in Nat /\ f \in Nat /\ f <= Len(h)
      /\ s.latest \in 0 .. Len(h) /\ s.durable \in 0 .. f /\ s.durable <= s.latest
      /\ LastAcked(h, Len(h), s.latest) /\ LastAcked(h, f, s.durable)
  BY TrackedTypes DEF Tracks
<1>2. ASSUME s.latest = s.durable, NEW v \in f + 1 .. Len(h)
      PROVE  h[v].result # "Ok"
  <2>1. v \in s.latest + 1 .. Len(h)
    BY <1>1, <1>2
  <2> QED
    BY <1>1, <2>1 DEF LastAcked
<1>3. ASSUME s.latest # s.durable
      PROVE  s.latest \in f + 1 .. Len(h) /\ h[s.latest].result = "Ok"
  <2>1. s.latest \in s.durable + 1 .. Len(h) /\ s.latest # 0 /\ h[s.latest].result = "Ok"
    BY <1>1, <1>3 DEF LastAcked
  <2>2. ~(s.latest \in s.durable + 1 .. f)
    BY <1>1, <2>1 DEF LastAcked
  <2> QED
    BY <1>1, <2>1, <2>2
<1> QED
  BY <1>2, <1>3 DEF NewlyDirty

LEMMA RetireTypes ==
  ASSUME NEW h \in Seq(Request)
  PROVE  /\ Retire(h) \in Seq(Request) /\ Len(Retire(h)) = Len(h)
         /\ \A v \in 1 .. Len(h) :
              /\ Retire(h)[v].zero = h[v].zero
              /\ Retire(h)[v].result = IF h[v].result = "Other" THEN "Retired" ELSE h[v].result
<1> DEFINE g == Retire(h)
<1>1. DOMAIN h = 1 .. Len(h) /\ Len(h) \in Nat /\ \A v \in 1 .. Len(h) : h[v] \in Request
  BY LenProperties, ElementOfSeq
<1>2. ASSUME NEW v \in 1 .. Len(h)
      PROVE  /\ g[v] \in Request /\ g[v].zero = h[v].zero
             /\ g[v].result = IF h[v].result = "Other" THEN "Retired" ELSE h[v].result
  <2>1. g[v] = IF h[v].result = "Other" THEN [h[v] EXCEPT !.result = "Retired"] ELSE h[v]
    BY <1>1 DEF Retire
  <2> QED
    BY <1>1, <2>1 DEF Request
<1>3. g \in [1 .. Len(h) -> Request]
  <2>1. g = [v \in 1 .. Len(h) |-> g[v]]
    BY <1>1 DEF Retire
  <2> HIDE DEF g
  <2> QED
    BY <1>2, <2>1
<1> HIDE DEF g
<1>4. g \in Seq(Request)
  BY <1>1, <1>3, SeqDef
<1>5. DOMAIN g = 1 .. Len(g) /\ Len(g) \in Nat
  BY <1>4, LenProperties
<1>6. Len(g) = Len(h)
  BY <1>1, <1>3, <1>5
<1> QED
  BY <1>2, <1>4, <1>6 DEF g

\* The verification after a crash: the uncertain requests of the LBA are forgotten, their payloads
\* rejected, and what is expected is the one live content left.
Verified(s, repair) == [s EXCEPT !.needs_repair = repair, !.uncertain_write = 0, !.uncertain_zero = 0]

RejectedToo(s, gone) == IF s.uncertain_write # 0 THEN gone \cup {s.uncertain_write} ELSE gone

LEMMA RetireTracks ==
  ASSUME NEW s \in LbaState, NEW h \in Seq(Request), NEW f, NEW gone, Tracks(s, h, f, gone),
         NEW repair \in BOOLEAN
  PROVE  /\ Verified(s, repair).needs_repair = repair
         /\ Tracks(Verified(s, repair), Retire(h), f, RejectedToo(s, gone))
         /\ Expected(s) \in Allowed(Retire(h), Len(h), {"Other"})
<1> DEFINE t == Verified(s, repair)
           more == RejectedToo(s, gone)
<1> DEFINE g == Retire(h)
<1>1. /\ t \in LbaState /\ t.needs_repair = repair
      /\ t.issued = s.issued /\ t.latest = s.latest /\ t.last_zero = s.last_zero
      /\ t.durable = s.durable /\ t.durable_is_payload = s.durable_is_payload
      /\ t.uncertain_write = 0 /\ t.uncertain_zero = 0
  <2>1. 0 \in Versions
    BY BlockCheckAssumption DEF Versions
  <2>2. t \in LbaState
    BY <2>1 DEF LbaState, Verified
  <2>3. t.needs_repair = repair
    BY Zenon DEF LbaState, Verified
  <2> QED
    BY <2>1, <2>2, <2>3 DEF LbaState, Verified
<1> HIDE DEF t
<1>2. /\ Len(h) \in Nat /\ f \in Nat /\ f <= Len(h)
      /\ s.latest \in 0 .. Len(h) /\ s.durable \in 0 .. f /\ s.last_zero \in 0 .. s.latest
      /\ \A v \in 1 .. Len(h) : h[v] \in Request
  BY TrackedTypes
<1>3. /\ LastAcked(h, Len(h), s.latest) /\ LastAcked(h, f, s.durable) /\ LastZeroed(h, s.last_zero)
      /\ s.durable_is_payload <=> s.durable # 0 /\ ~h[s.durable].zero
      /\ UncertainWrite(h, s.uncertain_write) /\ UncertainZero(h, s.uncertain_zero)
      /\ Rejects(h, gone) /\ s.issued = Len(h)
  BY DEF Tracks
<1>5. ASSUME NEW v \in 1 .. Len(h)
      PROVE  /\ g[v].zero = h[v].zero
             /\ g[v].result = IF h[v].result = "Other" THEN "Retired" ELSE h[v].result
  BY RetireTypes
<1>6. g \in Seq(Request) /\ Len(g) = Len(h)
  BY RetireTypes
<1> HIDE DEF g
<1>7. \A v \in 1 .. Len(h) : (g[v].result = "Ok" <=> h[v].result = "Ok") /\ g[v].result # "Other"
  BY <1>5
<1>8. LastAcked(g, Len(h), s.latest) /\ LastAcked(g, f, s.durable)
  <2>1. LastAcked(g, Len(h), s.latest)
    BY <1>2, <1>3, <1>7 DEF LastAcked
  <2>2. LastAcked(g, f, s.durable)
    <3>1. \A v \in 1 .. f : v \in 1 .. Len(h)
      BY <1>2
    <3> QED
      BY <1>2, <1>3, <1>7, <3>1 DEF LastAcked
  <2> QED
    BY <2>1, <2>2
<1>9. LastZeroed(g, s.last_zero)
  BY <1>2, <1>3, <1>5, <1>6, <1>7 DEF LastZeroed
<1>10. s.durable_is_payload <=> s.durable # 0 /\ ~g[s.durable].zero
  BY <1>2, <1>3, <1>5
<1>11. UncertainWrite(g, 0) /\ UncertainZero(g, 0)
  BY <1>6, <1>7 DEF UncertainWrite, UncertainZero
<1>12. Rejects(g, more)
  <2>1. more \subseteq 1 .. Len(h)
    BY <1>3 DEF Rejects, UncertainWrite, RejectedToo
  <2>2. ASSUME NEW v \in 1 .. Len(h)
        PROVE  v \in more <=> ~g[v].zero /\ (g[v].result = "Refused" \/ g[v].result = "Retired")
    <3>1. v \in gone <=> ~h[v].zero /\ (h[v].result = "Refused" \/ h[v].result = "Retired")
      BY <1>3 DEF Rejects
    <3>2. v # 0
      BY <1>2
    <3>3. v = s.uncertain_write <=> h[v].result = "Other" /\ ~h[v].zero
      BY <1>3, <3>2 DEF UncertainWrite
    <3>4. v \in more <=> v \in gone \/ v = s.uncertain_write
      BY <3>2 DEF RejectedToo
    <3>5. ~g[v].zero /\ (g[v].result = "Refused" \/ g[v].result = "Retired") <=>
            ~h[v].zero /\ (h[v].result = "Refused" \/ h[v].result = "Retired" \/ h[v].result = "Other")
      BY <1>5
    <3> QED
      BY <3>1, <3>3, <3>4, <3>5
  <2> QED
    BY <1>6, <2>1, <2>2 DEF Rejects
<1> HIDE DEF more
<1>13. Tracks(t, g, f, more)
  BY <1>1, <1>2, <1>3, <1>6, <1>8, <1>9, <1>10, <1>11, <1>12 DEF Tracks
<1>14. Expected(s) \in Allowed(g, Len(h), {"Other"})
  <2>1. Expected(t) = ContentOf(g, t.latest)
    BY <1>1, <1>6, <1>13, ExpectedContent
  <2>2. ContentOf(g, s.latest) \in Allowed(g, Len(h), {"Other"})
    BY <1>2, <1>8, AllowedIs
  <2> QED
    BY <1>1, <2>1, <2>2 DEF Expected
<1> QED
  BY <1>1, <1>13, <1>14 DEF g, t, more

-----------------------------------------------------------------------------
(* Types *)

LEMMA ApplyTypes ==
  ASSUME NEW s \in LbaState, s.issued < MaxVersion, NEW zero \in BOOLEAN, NEW result
  PROVE  /\ Issue(s) \in LbaState /\ Issue(s).issued = s.issued + 1
         /\ Apply(Issue(s), Issue(s).issued, zero, result) \in LbaState
<1>1. PICK n \in Versions : n = s.issued + 1
  BY BlockCheckAssumption DEF LbaState, Versions
<1>2. Issue(s) = [s EXCEPT !.issued = n]
  BY <1>1 DEF Issue, LbaState
<1> DEFINE i == Issue(s)
<1>3. i \in LbaState /\ i.issued = n
  BY <1>2 DEF LbaState
<1> HIDE DEF i
<1>4. [i EXCEPT !.uncertain_zero = n] \in LbaState /\ [i EXCEPT !.uncertain_write = n] \in LbaState
  BY <1>3 DEF LbaState
<1>5. Acknowledge(i, n, zero) \in LbaState
  <2>1. /\ [i EXCEPT !.latest = n, !.last_zero = n] \in LbaState
        /\ [i EXCEPT !.latest = n, !.last_zero = i.last_zero] \in LbaState
    BY <1>3 DEF LbaState
  <2>2. Acknowledge(i, n, zero) = [i EXCEPT !.latest = n, !.last_zero = IF zero THEN n ELSE i.last_zero]
    BY <1>3 DEF Acknowledge, LbaState
  <2> QED
    BY <2>1, <2>2
<1>6. MarkUncertain(i, n, zero) \in LbaState
  BY <1>3, <1>4 DEF MarkUncertain
<1>7. Apply(i, n, zero, result) \in LbaState
  BY <1>3, <1>5, <1>6 DEF Apply
<1> QED
  BY <1>1, <1>3, <1>7 DEF i

LEMMA BlocksAre ==
  BlockCount \in Nat /\ 0 \in Blocks /\ Blocks \subseteq Nat /\ ZeroBlock \in Medium /\ 0 \in Versions
  BY BlockCheckAssumption DEF Blocks, Medium, ZeroBlock, Versions

MediumType ==
  /\ durable \in [Blocks -> Medium] /\ cached \in [Blocks -> Medium]
  /\ pending \in [Blocks -> {"None", "Write", "Discard"}]
  /\ first \in [Blocks -> Medium \cup {NoBlock}]
  /\ occurred \in BOOLEAN

LEMMA WriteTypes ==
  ASSUME MediumType, NEW lba \in Blocks, NEW block \in Medium, NEW failure, TargetWrite(lba, block, failure)
  PROVE  MediumType'
<1>1. CASE RejectWrite(lba, block)
  <2>1. [durable EXCEPT ![lba] = block] \in [Blocks -> Medium]
    BY DEF MediumType
  <2> QED
    BY <1>1, <2>1 DEF RejectWrite, MediumType
<1>2. CASE UNCHANGED <<mediumVars, occurred>>
  BY <1>2 DEF MediumType, mediumVars
<1>3. CASE CacheWrite(lba, block)
  <2>1. Landing(lba) \in Blocks
    BY DEF Landing
  <2> QED
    BY <1>3, <2>1 DEF CacheWrite, MediumType
<1> QED
  BY <1>1, <1>2, <1>3 DEF TargetWrite

LEMMA DiscardTypes ==
  ASSUME MediumType, NEW range, NEW failure, TargetDiscard(range, failure)
  PROVE  MediumType'
<1>1. CASE UNCHANGED <<mediumVars, occurred>>
  BY <1>1 DEF MediumType, mediumVars
<1>2. CASE CacheDiscard(range)
  BY <1>2 DEF CacheDiscard, MediumType
<1> QED
  BY <1>1, <1>2 DEF TargetDiscard

LEMMA FlushTypes ==
  ASSUME MediumType, TargetFlush
  PROVE  MediumType'
<1>1. ASSUME NEW stays, Settle(Blocks, stays)
      PROVE  MediumType' \/ occurred' \notin BOOLEAN
  <2>1. durable' \in [Blocks -> Medium]
    <3>1. \A l \in Blocks : durable[l] \in Medium /\ cached[l] \in Medium /\ ZeroBlock \in Medium
      BY BlocksAre DEF MediumType
    <3> QED
      BY <1>1, <3>1 DEF Settle
  <2>2. pending' \in [Blocks -> {"None", "Write", "Discard"}]
    BY <1>1 DEF Settle, MediumType
  <2> QED
    BY <1>1, <2>1, <2>2 DEF Settle, MediumType
<1>2. occurred' \in BOOLEAN
  BY DEF TargetFlush
<1>3. UNCHANGED mediumVars \/ \E stays : Settle(Blocks, stays)
  BY DEF TargetFlush
<1>4. CASE UNCHANGED mediumVars
  BY <1>2, <1>4 DEF MediumType, mediumVars
<1> QED
  BY <1>1, <1>2, <1>3, <1>4

CheckerType ==
  /\ lbas \in [Blocks -> LbaState] /\ dirty \in [Blocks -> Nat]
  /\ rejected \subseteq Blocks \X Versions /\ alarm \in BOOLEAN
  /\ pc \in [at: Phases, lba: Blocks] /\ active \in Faults \cup {"None"}
  /\ hist \in [Blocks -> Seq(Request)] /\ flushed \in [Blocks -> Nat]

LEMMA TypeParts ==
  /\ TypeOK <=> CheckerType /\ MediumType
  /\ TypeOK' <=> CheckerType' /\ MediumType'
  BY DEF TypeOK, CheckerType, MediumType, Request

LEMMA PhaseTypes ==
  /\ Idle \in [at: Phases, lba: Blocks] /\ Incomplete \in [at: Phases, lba: Blocks]
  /\ At("crashed", 0) \in [at: Phases, lba: Blocks] /\ At("verify", 0) \in [at: Phases, lba: Blocks]
  /\ \A l \in Blocks : /\ AfterVerify(l) \in [at: Phases, lba: Blocks]
                       /\ AfterRepair(l) \in [at: Phases, lba: Blocks]
  BY BlocksAre DEF Idle, Incomplete, At, Phases, AfterVerify, AfterRepair

LEMMA SubmitTypes ==
  ASSUME TypeOK, NEW lba \in Blocks, NEW zero \in BOOLEAN, NEW failure \in Injected,
         NEW onOk \in [at: Phases, lba: Blocks], NEW onIo \in [at: Phases, lba: Blocks],
         SubmitWrite(lba, zero, failure, onOk, onIo)
  PROVE  TypeOK'
<1> DEFINE n == lbas[lba].issued + 1
           result == Result(failure)
           t == Apply(Issue(lbas[lba]), Issue(lbas[lba]).issued, zero, result)
           u == [t EXCEPT !.needs_repair = FALSE]
<1>1. CheckerType /\ MediumType
  BY TypeParts
<1>2. lbas[lba] \in LbaState /\ lbas[lba].issued < MaxVersion
  BY <1>1 DEF CheckerType, SubmitWrite
<1>3. Issue(lbas[lba]).issued = n /\ t \in LbaState
  BY <1>2, ApplyTypes
<1>4. n \in Versions /\ n # 0
  BY <1>2, BlockCheckAssumption DEF LbaState, Versions
<1>5. u \in LbaState
  <2> HIDE DEF t
  <2> QED
    BY <1>3 DEF LbaState
<1>6. Fill(lba, n, zero) \in Medium
  BY <1>4, BlocksAre DEF Fill, Medium
<1>7. result \in {"Ok", "Refused", "Other"}
  BY DEF Result
<1>8. MediumType'
  <2>1. TargetWrite(lba, Fill(lba, n, zero), failure)
    BY <1>3 DEF SubmitWrite
  <2> QED
    BY <1>1, <1>6, <2>1, WriteTypes
<1>9. lbas' \in [Blocks -> LbaState]
  <2>1. lbas' = [lbas EXCEPT ![lba] = u]
    BY DEF SubmitWrite
  <2> HIDE DEF u
  <2> QED
    BY <1>1, <1>5, <2>1 DEF CheckerType
<1>10. dirty' \in [Blocks -> Nat]
  <2>1. dirty' = dirty \/ dirty' = [dirty EXCEPT ![lba] = dirty[lba] + 1]
    BY DEF SubmitWrite
  <2>2. dirty \in [Blocks -> Nat] /\ dirty[lba] + 1 \in Nat
    BY <1>1 DEF CheckerType
  <2> QED
    BY <2>1, <2>2
<1>11. rejected' \subseteq Blocks \X Versions
  <2>1. rejected' = rejected \/ rejected' = rejected \cup {<<lba, n>>}
    BY <1>3 DEF SubmitWrite
  <2> QED
    BY <1>1, <1>4, <2>1 DEF CheckerType
<1>12. hist' \in [Blocks -> Seq(Request)]
  <2>1. hist' = [hist EXCEPT ![lba] = Append(@, Observed(zero, result))]
    BY DEF SubmitWrite
  <2>2. Append(hist[lba], Observed(zero, result)) \in Seq(Request)
    <3>1. hist[lba] \in Seq(Request)
      BY <1>1 DEF CheckerType
    <3> QED
      BY <1>7, <3>1, AppendGrows DEF Grown
  <2> HIDE DEF result
  <2> QED
    BY <1>1, <2>1, <2>2 DEF CheckerType
<1>13. pc' \in [at: Phases, lba: Blocks]
  <2>1. pc' \in {Incomplete, onOk, onIo}
    BY DEF SubmitWrite
  <2> QED
    BY <2>1, PhaseTypes
<1>14. CheckerType'
  <2>1. UNCHANGED <<alarm, active, flushed>>
    BY DEF SubmitWrite
  <2> QED
    BY <1>1, <1>9, <1>10, <1>11, <1>12, <1>13, <2>1 DEF CheckerType
<1> QED
  BY <1>8, <1>14, TypeParts

LEMMA DiscardKeepsTypes ==
  ASSUME TypeOK, NEW lo \in Blocks, NEW hi \in lo .. BlockCount - 1,
         NEW failure \in Injected \cup {"Unsupported"}, Discard(lo, hi, failure)
  PROVE  TypeOK'
<1> DEFINE result == Result(failure)
           t(l) == Apply(Issue(lbas[l]), Issue(lbas[l]).issued, TRUE, result)
<1>1. CheckerType /\ MediumType
  BY TypeParts
<1>2. lo .. hi \subseteq Blocks
  BY BlocksAre DEF Blocks
<1>3. ASSUME NEW l \in Blocks
      PROVE  lbas[l] \in LbaState /\ hist[l] \in Seq(Request) /\ dirty[l] \in Nat /\ dirty[l] + 1 \in Nat
  BY <1>1 DEF CheckerType
<1>4. ASSUME NEW l \in lo .. hi
      PROVE  t(l) \in LbaState /\ Issue(lbas[l]) \in LbaState
  <2>1. lbas[l] \in LbaState /\ lbas[l].issued < MaxVersion
    BY <1>2, <1>3 DEF Discard
  <2> QED
    BY <2>1, ApplyTypes
<1>5. result \in {"Ok", "Refused", "Other"}
  BY DEF Result
<1>6. lbas' \in [Blocks -> LbaState]
  <2>1. \E reached \in SUBSET (lo .. hi) :
          lbas' = [l \in Blocks |-> IF l \in reached THEN t(l)
                                    ELSE IF l \in lo .. hi THEN Issue(lbas[l]) ELSE lbas[l]]
    <3>1. PICK reached : /\ reached = {l \in lo .. hi :
                              \A k \in {j \in lo .. hi : result = "Other" /\ UncertainLimit(lbas[j], TRUE)} : l < k}
                         /\ reached \subseteq lo .. hi
      OBVIOUS
    <3>2. lbas' = [l \in Blocks |-> IF l \in reached THEN t(l)
                                    ELSE IF l \in lo .. hi THEN Issue(lbas[l]) ELSE lbas[l]]
      BY <1>2, <3>1 DEF Discard
    <3> QED
      BY <3>1, <3>2
  <2> HIDE DEF t
  <2> QED
    BY <1>3, <1>4, <2>1
<1>7. dirty' \in [Blocks -> Nat]
  <2>1. \A l \in Blocks : dirty'[l] \in {dirty[l], dirty[l] + 1}
    BY DEF Discard
  <2>2. dirty' = [l \in Blocks |-> dirty'[l]]
    BY DEF Discard
  <2> QED
    BY <1>3, <2>1, <2>2
<1>8. hist' \in [Blocks -> Seq(Request)]
  <2>1. hist' = [l \in Blocks |-> IF l \in lo .. hi THEN Append(hist[l], Observed(TRUE, result)) ELSE hist[l]]
    BY DEF Discard
  <2>2. \A l \in Blocks : Append(hist[l], Observed(TRUE, result)) \in Seq(Request)
    BY <1>3, <1>5, AppendGrows DEF Grown
  <2> HIDE DEF result
  <2> QED
    BY <1>3, <2>1, <2>2
<1>9. pc' \in [at: Phases, lba: Blocks] /\ UNCHANGED <<rejected, alarm, active, flushed>>
  BY PhaseTypes DEF Discard
<1>10. MediumType'
  <2>1. TargetDiscard(lo .. hi, failure)
    BY DEF Discard
  <2> QED
    BY <1>1, <2>1, DiscardTypes
<1>11. CheckerType'
  BY <1>1, <1>6, <1>7, <1>8, <1>9 DEF CheckerType
<1> QED
  BY <1>10, <1>11, TypeParts

LEMMA OverflowKeepsTypes ==
  ASSUME TypeOK, NEW lo \in Blocks, NEW hi \in lo .. BlockCount - 1, DiscardOverflow(lo, hi)
  PROVE  TypeOK'
<1>1. CheckerType /\ MediumType
  BY TypeParts
<1>2. PICK full \in lo .. hi :
        /\ \A l \in lo .. full - 1 : lbas[l].issued < MaxVersion
        /\ lbas' = [l \in Blocks |-> IF l \in lo .. full - 1 THEN Issue(lbas[l]) ELSE lbas[l]]
        /\ hist' = [l \in Blocks |->
             IF l \in lo .. full - 1 THEN Append(hist[l], Observed(TRUE, "Refused")) ELSE hist[l]]
  BY DEF DiscardOverflow
<1>3. \A l \in Blocks : lbas[l] \in LbaState /\ hist[l] \in Seq(Request)
  BY <1>1 DEF CheckerType
<1>4. lbas' \in [Blocks -> LbaState]
  <2>1. \A l \in Blocks : l \in lo .. full - 1 => Issue(lbas[l]) \in LbaState
    BY <1>2, <1>3, ApplyTypes
  <2> QED
    BY <1>2, <1>3, <2>1
<1>5. hist' \in [Blocks -> Seq(Request)]
  <2>1. \A l \in Blocks : Append(hist[l], Observed(TRUE, "Refused")) \in Seq(Request)
    BY <1>3, AppendGrows DEF Grown
  <2> QED
    BY <1>2, <1>3, <2>1
<1>6. UNCHANGED <<dirty, rejected, alarm, pc, mediumVars, active, occurred, flushed>>
  BY DEF DiscardOverflow
<1>7. CheckerType'
  BY <1>1, <1>4, <1>5, <1>6 DEF CheckerType
<1>8. MediumType'
  BY <1>1, <1>6 DEF MediumType, mediumVars
<1> QED
  BY <1>7, <1>8, TypeParts

LEMMA FlushKeepsTypes ==
  ASSUME TypeOK, FlushThen(Idle)
  PROVE  TypeOK'
<1>1. CheckerType /\ MediumType
  BY TypeParts
<1>2. \A l \in Blocks : lbas[l] \in LbaState /\ hist[l] \in Seq(Request) /\ Len(hist[l]) \in Nat
  BY <1>1 DEF CheckerType
<1>3. \A s \in LbaState : MakeDurable(s) \in LbaState
  BY DEF MakeDurable, LbaState
<1>4. lbas' \in [Blocks -> LbaState]
  <2>1. lbas' = [l \in Blocks |-> IF dirty[l] > 0 THEN MakeDurable(lbas[l]) ELSE lbas[l]]
    BY DEF FlushThen
  <2> QED
    BY <1>2, <1>3, <2>1
<1>5. dirty' \in [Blocks -> Nat] /\ flushed' \in [Blocks -> Nat]
  BY <1>2 DEF FlushThen
<1>6. UNCHANGED <<rejected, alarm, active, hist>> /\ pc' \in [at: Phases, lba: Blocks]
  BY PhaseTypes DEF FlushThen
<1>7. MediumType'
  BY <1>1, FlushTypes DEF FlushThen
<1>8. CheckerType'
  BY <1>1, <1>4, <1>5, <1>6 DEF CheckerType
<1> QED
  BY <1>7, <1>8, TypeParts

LEMMA CrashKeepsTypes ==
  ASSUME TypeOK, NEW kept \in SUBSET Blocks, Crash(kept)
  PROVE  TypeOK'
<1>1. CheckerType /\ MediumType
  BY TypeParts
<1>2. UNCHANGED <<checkerVars, cached, first, active, observerVars>> /\ pc' \in [at: Phases, lba: Blocks]
  BY PhaseTypes DEF Crash
<1>3. CheckerType'
  BY <1>1, <1>2 DEF CheckerType, checkerVars, observerVars
<1>4. pending' \in [Blocks -> {"None", "Write", "Discard"}] /\ occurred' \in BOOLEAN
  BY DEF Crash
<1>5. durable' \in [Blocks -> Medium]
  <2>1. durable' = [l \in Blocks |-> durable'[l]]
    BY DEF Crash
  <2>2. \A l \in Blocks : \/ durable'[l] \in {durable[l], cached[l], ZeroBlock}
                          \/ durable'[l] = first[l] /\ first[l] # NoBlock
    BY DEF Crash
  <2>3. \A l \in Blocks : durable[l] \in Medium /\ cached[l] \in Medium /\ (first[l] # NoBlock => first[l] \in Medium)
    BY <1>1 DEF MediumType
  <2> QED
    BY <2>1, <2>2, <2>3, BlocksAre
<1>6. MediumType'
  BY <1>1, <1>2, <1>4, <1>5 DEF MediumType
<1> QED
  BY <1>3, <1>6, TypeParts

LEMMA VerifyKeepsTypes ==
  ASSUME TypeOK, NEW lba \in Blocks, VerifyAfterCrash(lba)
  PROVE  TypeOK'
<1>1. CheckerType /\ MediumType
  BY TypeParts
<1> DEFINE s == lbas[lba]
           repair == Decode(Visible(lba), lba) # Expected(s)
           t == [s EXCEPT !.needs_repair = repair, !.uncertain_write = 0, !.uncertain_zero = 0]
<1>2. s \in LbaState /\ hist[lba] \in Seq(Request) /\ s.uncertain_write \in Versions
  BY <1>1 DEF CheckerType, LbaState
<1>3. lbas' \in [Blocks -> LbaState]
  <2>1. repair \in BOOLEAN /\ 0 \in Versions
    BY BlocksAre
  <2>2. t \in LbaState
    <3> HIDE DEF s, repair
    <3> QED
      BY <1>2, <2>1 DEF LbaState
  <2>3. lbas' = [lbas EXCEPT ![lba] = t]
    BY DEF VerifyAfterCrash
  <2> HIDE DEF t
  <2> QED
    BY <1>1, <2>2, <2>3 DEF CheckerType
<1>4. hist' \in [Blocks -> Seq(Request)]
  <2>1. hist' = [hist EXCEPT ![lba] = Retire(hist[lba])]
    BY DEF VerifyAfterCrash
  <2>2. Retire(hist[lba]) \in Seq(Request)
    BY <1>2, RetireTypes
  <2> QED
    BY <1>1, <2>1, <2>2 DEF CheckerType
<1>5. rejected' \subseteq Blocks \X Versions
  <2>1. rejected' = rejected \/ rejected' = rejected \cup {<<lba, s.uncertain_write>>}
    BY DEF VerifyAfterCrash
  <2> QED
    BY <1>1, <1>2, <2>1 DEF CheckerType
<1>6. pc' \in [at: Phases, lba: Blocks]
  BY PhaseTypes DEF VerifyAfterCrash
<1>7. alarm' \in BOOLEAN /\ UNCHANGED <<dirty, active, flushed>>
  BY DEF VerifyAfterCrash
<1>8. MediumType'
  BY <1>1 DEF VerifyAfterCrash, TargetRead, MediumType, mediumVars
<1>9. CheckerType'
  BY <1>1, <1>3, <1>4, <1>5, <1>6, <1>7 DEF CheckerType
<1> QED
  BY <1>8, <1>9, TypeParts

LEMMA TypeKeeps ==
  ASSUME TypeOK, [Next]_vars
  PROVE  TypeOK'
<1>1. CheckerType /\ MediumType
  BY TypeParts
<1>2. ASSUME NEW l \in Blocks, NEW zero \in BOOLEAN, NEW failure \in Injected, Write(l, zero, failure)
      PROVE  TypeOK'
  BY <1>2, SubmitTypes, PhaseTypes DEF Write
<1>3. ASSUME NEW l \in Blocks, Read(l)
      PROVE  TypeOK'
  <2>1. CheckerType'
    BY <1>1, <1>3 DEF Read, CheckerType, observerVars
  <2>2. MediumType'
    BY <1>1, <1>3 DEF Read, TargetRead, MediumType, mediumVars
  <2> QED
    BY <2>1, <2>2, TypeParts
<1>4. CASE Recover
  <2>1. CheckerType'
    BY <1>1, <1>4, PhaseTypes DEF Recover, CheckerType, checkerVars, observerVars
  <2>2. MediumType'
    BY <1>1, <1>4 DEF Recover, MediumType, mediumVars
  <2> QED
    BY <2>1, <2>2, TypeParts
<1>5. ASSUME NEW l \in Blocks, NEW failure \in Injected, Repair(l, failure)
      PROVE  TypeOK'
  <2>1. (Expected(lbas[l]) = Zero) \in BOOLEAN
    OBVIOUS
  <2> QED
    BY <1>5, <2>1, SubmitTypes, PhaseTypes DEF Repair
<1>6. ASSUME NEW l \in Blocks, RepairOverflow(l)
      PROVE  TypeOK'
  <2>1. lbas' \in [Blocks -> LbaState]
    <3>1. [lbas[l] EXCEPT !.needs_repair = FALSE] \in LbaState
      BY <1>1 DEF CheckerType, LbaState
    <3>2. lbas' = [lbas EXCEPT ![l] = [lbas[l] EXCEPT !.needs_repair = FALSE]]
      BY <1>6 DEF RepairOverflow
    <3> QED
      BY <1>1, <3>1, <3>2 DEF CheckerType
  <2>2. CheckerType'
    BY <1>1, <1>6, <2>1, PhaseTypes DEF RepairOverflow, CheckerType, observerVars
  <2>3. MediumType'
    BY <1>1, <1>6 DEF RepairOverflow, MediumType, mediumVars
  <2> QED
    BY <2>2, <2>3, TypeParts
<1>7. ASSUME NEW l \in Blocks, SkipRepair(l)
      PROVE  TypeOK'
  <2>1. CheckerType'
    BY <1>1, <1>7, PhaseTypes DEF SkipRepair, CheckerType, checkerVars, observerVars
  <2>2. MediumType'
    BY <1>1, <1>7 DEF SkipRepair, MediumType, mediumVars
  <2> QED
    BY <2>1, <2>2, TypeParts
<1>8. ASSUME NEW fault \in Faults, Arm(fault)
      PROVE  TypeOK'
  <2>1. CheckerType'
    BY <1>1, <1>8 DEF Arm, CheckerType, checkerVars, observerVars
  <2>2. MediumType'
    BY <1>1, <1>8 DEF Arm, MediumType, mediumVars
  <2> QED
    BY <2>1, <2>2, TypeParts
<1>9. CASE UNCHANGED vars
  <2>1. CheckerType'
    BY <1>1, <1>9 DEF vars, CheckerType, checkerVars, observerVars
  <2>2. MediumType'
    BY <1>1, <1>9 DEF vars, MediumType, mediumVars
  <2> QED
    BY <2>1, <2>2, TypeParts
<1> QED
  BY <1>2, <1>3, <1>4, <1>5, <1>6, <1>7, <1>8, <1>9, DiscardKeepsTypes, OverflowKeepsTypes, FlushKeepsTypes,
     CrashKeepsTypes, VerifyKeepsTypes
  DEF Next, Flush, FinishRecovery

-----------------------------------------------------------------------------
(* Requests *)

\* A step records a request to l, or leaves what is known of l alone.
Requested(l, zero, result) ==
  /\ Recordable(lbas[l], zero, result)
  /\ Applied(lbas[l], lbas'[l], Len(hist[l]) + 1, zero, result)
  /\ hist'[l] = Append(hist[l], Observed(zero, result))
  /\ flushed'[l] = flushed[l]
  /\ dirty'[l] = IF result = "Ok" /\ NewlyDirty(lbas[l]) THEN dirty[l] + 1 ELSE dirty[l]
  /\ Forbidden(Gone(l), Gone(l)', Len(hist[l]) + 1, zero, result)

Same(l) ==
  /\ lbas'[l] = lbas[l] /\ hist'[l] = hist[l] /\ flushed'[l] = flushed[l] /\ dirty'[l] = dirty[l]
  /\ Gone(l)' = Gone(l)

LEMMA SameKeeps ==
  ASSUME NEW l \in Blocks, Known(l), Same(l)
  PROVE  Known(l)' /\ CrashContents(l)' = CrashContents(l) /\ LiveContents(l)' = LiveContents(l)
  BY DEF Known, DirtyExact, Same, CrashContents, LiveContents

LEMMA TypesAt ==
  ASSUME TypeOK, NEW l \in Blocks
  PROVE  /\ lbas[l] \in LbaState /\ hist[l] \in Seq(Request) /\ dirty[l] \in Nat /\ flushed[l] \in Nat
         /\ Len(hist[l]) \in Nat
         /\ durable[l] \in Medium /\ cached[l] \in Medium /\ pending[l] \in {"None", "Write", "Discard"}
  BY DEF TypeOK, Request

LEMMA RequestedKeeps ==
  ASSUME TypeOK, TypeOK', NEW l \in Blocks, NEW zero \in BOOLEAN, NEW result \in Results,
         Known(l), Requested(l, zero, result)
  PROVE  /\ Known(l)'
         /\ \A c \in CrashContents(l) : c \in CrashContents(l)'
         /\ result # "Ok" => \A c \in LiveContents(l) : c \in LiveContents(l)'
         /\ result # "Refused" =>
              /\ Requests(Len(hist[l]) + 1, zero) \in LiveContents(l)'
              /\ Requests(Len(hist[l]) + 1, zero) \in CrashContents(l)'
<1> DEFINE s == lbas[l]
           t == lbas'[l]
           h == hist[l]
           g == hist'[l]
           f == flushed[l]
           gone == Gone(l)
           more == Gone(l)'
<1>1. s \in LbaState /\ h \in Seq(Request) /\ f \in Nat /\ Len(h) \in Nat
  BY TypesAt
<1>2. t \in LbaState /\ g \in Seq(Request)
  BY DEF TypeOK, Request
<1>3. Tracks(s, h, f, gone) /\ DirtyExact(l)
  BY DEF Known
<1>4. /\ Recordable(s, zero, result)
      /\ Applied(s, t, Len(h) + 1, zero, result)
      /\ g = Append(h, Observed(zero, result))
      /\ flushed'[l] = f
      /\ dirty'[l] = IF result = "Ok" /\ NewlyDirty(s) THEN dirty[l] + 1 ELSE dirty[l]
      /\ Forbidden(gone, more, Len(h) + 1, zero, result)
  BY DEF Requested
<1>5. CrashContents(l) = Allowed(h, f, {"Ok", "Other"}) /\ LiveContents(l) = Allowed(h, Len(h), {"Other"})
  BY DEF CrashContents, LiveContents
<1>6. CrashContents(l)' = Allowed(g, f, {"Ok", "Other"}) /\ LiveContents(l)' = Allowed(g, Len(g), {"Other"})
  BY <1>4 DEF CrashContents, LiveContents
<1>7. Known(l)' <=> Tracks(t, g, f, more) /\ DirtyExact(l)'
  BY <1>4 DEF Known
<1>8. DirtyExact(l)' <=> dirty'[l] = IF \E v \in f + 1 .. Len(g) : g[v].result = "Ok" THEN 1 ELSE 0
  BY <1>4 DEF DirtyExact
<1>9. DirtyExact(l) <=> dirty[l] = IF \E v \in f + 1 .. Len(h) : h[v].result = "Ok" THEN 1 ELSE 0
  BY DEF DirtyExact
<1> HIDE DEF s, t, h, g, f, gone, more
<1>10. Grown(h, g, zero, result)
  BY <1>1, <1>4, AppendGrows DEF Results
<1>11. Tracks(t, g, f, more)
  BY <1>1, <1>2, <1>3, <1>4, <1>10, GrownTracks
<1>12. DirtyExact(l)'
  <2>1. NewlyDirty(s) <=> ~\E v \in f + 1 .. Len(h) : h[v].result = "Ok"
    BY <1>1, <1>3, DirtyIs
  <2>2. /\ Len(g) = Len(h) + 1 /\ g[Len(g)].result = result
        /\ \A v \in 1 .. Len(h) : g[v] = h[v]
    BY <1>10 DEF Grown
  <2>3. f \in Nat /\ f <= Len(h)
    BY <1>1, <1>3, TrackedTypes
  <2>4. CASE result = "Ok"
    <3>1. Len(g) \in f + 1 .. Len(g) /\ g[Len(g)].result = "Ok"
      BY <1>1, <2>2, <2>3, <2>4
    <3>2. dirty'[l] = 1
      BY <1>3, <1>4, <1>9, <2>1, <2>4
    <3> QED
      BY <1>8, <3>1, <3>2
  <2>5. CASE result # "Ok"
    <3>1. (\E v \in f + 1 .. Len(g) : g[v].result = "Ok") <=> \E v \in f + 1 .. Len(h) : h[v].result = "Ok"
      <4>1. ASSUME NEW v \in f + 1 .. Len(g), g[v].result = "Ok"
            PROVE  v \in f + 1 .. Len(h) /\ h[v].result = "Ok"
        <5>1. v # Len(g)
          BY <2>2, <2>5, <4>1
        <5>2. v \in f + 1 .. Len(h) /\ v \in 1 .. Len(h)
          BY <1>1, <2>2, <2>3, <5>1
        <5> QED
          BY <2>2, <4>1, <5>2
      <4>2. ASSUME NEW v \in f + 1 .. Len(h), h[v].result = "Ok"
            PROVE  v \in f + 1 .. Len(g) /\ g[v].result = "Ok"
        <5>1. v \in f + 1 .. Len(g) /\ v \in 1 .. Len(h)
          BY <1>1, <2>2, <2>3
        <5> QED
          BY <2>2, <4>2, <5>1
      <4> QED
        BY <4>1, <4>2
    <3>2. dirty'[l] = dirty[l]
      BY <1>4, <2>5
    <3> QED
      BY <1>3, <1>8, <1>9, <3>1, <3>2
  <2> QED
    BY <2>4, <2>5
<1> HIDE DEF CrashContents, LiveContents, Known, DirtyExact
<1>13. Widens(h, g, f, zero, result)
  BY <1>1, <1>2, <1>3, <1>4, <1>10, <1>11, GrownAllowed
<1>14. Len(hist[l]) + 1 = Len(h) + 1
  BY DEF h
<1> QED
  BY <1>5, <1>6, <1>7, <1>11, <1>12, <1>13, <1>14 DEF Widens

LEMMA SubmitRequests ==
  ASSUME TypeOK, NEW lba \in Blocks, NEW zero \in BOOLEAN, NEW failure \in Injected, NEW onOk, NEW onIo,
         SubmitWrite(lba, zero, failure, onOk, onIo), Known(lba), pc'.at # "incomplete"
  PROVE  /\ Requested(lba, zero, Result(failure))
         /\ \A l \in Blocks \ {lba} : Same(l)
         /\ lbas'[lba].needs_repair = FALSE
         /\ TargetWrite(lba, Fill(lba, Len(hist[lba]) + 1, zero), failure)
         /\ pc' = IF Result(failure) = "Ok" THEN onOk ELSE onIo
<1> DEFINE s == lbas[lba]
           n == Len(hist[lba]) + 1
           result == Result(failure)
           t == Apply(Issue(s), n, zero, result)
<1>1. s \in LbaState /\ n \in Nat
  BY TypesAt
<1>2. s.issued < MaxVersion /\ s.issued + 1 = n /\ Issue(s).issued = n
  <2>1. s.issued < MaxVersion
    BY DEF SubmitWrite
  <2>2. s.issued = Len(hist[lba])
    BY DEF Known, Tracks
  <2> QED
    BY <1>1, <2>1, <2>2, ApplyTypes
<1>3. result \in {"Ok", "Refused", "Other"}
  BY DEF Result
<1>4. UncertainLimit(Issue(s), zero) = UncertainLimit(s, zero) /\ NewlyDirty(Issue(s)) = NewlyDirty(s)
  <2>1. /\ Issue(s).uncertain_zero = s.uncertain_zero /\ Issue(s).uncertain_write = s.uncertain_write
        /\ Issue(s).latest = s.latest /\ Issue(s).durable = s.durable
    BY <1>1 DEF Issue, LbaState
  <2> QED
    BY <2>1 DEF UncertainLimit, NewlyDirty
<1> DEFINE limit == \/ result = "Other" /\ UncertainLimit(s, zero)
                    \/ result = "Refused" /\ ~zero /\ RejectedFull
<1>5. /\ TargetWrite(lba, Fill(lba, n, zero), failure)
      /\ lbas' = [lbas EXCEPT ![lba] = [t EXCEPT !.needs_repair = FALSE]]
      /\ dirty' = IF result = "Ok" /\ NewlyDirty(s) THEN [dirty EXCEPT ![lba] = @ + 1] ELSE dirty
      /\ rejected' = IF result = "Refused" /\ ~zero /\ ~limit
                     THEN rejected \cup {<<lba, n>>} ELSE rejected
      /\ hist' = [hist EXCEPT ![lba] = Append(@, Observed(zero, result))]
      /\ pc' = IF limit THEN Incomplete ELSE IF result = "Ok" THEN onOk ELSE onIo
      /\ flushed' = flushed
  BY <1>2, <1>4 DEF SubmitWrite
<1>6. ~limit
  BY <1>5 DEF Incomplete, At
<1>7. /\ lbas \in [Blocks -> LbaState] /\ dirty \in [Blocks -> Nat] /\ hist \in [Blocks -> Seq(Request)]
      /\ n \in Versions
  <2>1. n \in Versions
    <3>1. s.issued \in 0 .. MaxVersion /\ MaxVersion \in Nat
      BY <1>1, BlockCheckAssumption DEF LbaState, Versions
    <3> HIDE DEF s, n
    <3> QED
      BY <1>2, <3>1 DEF Versions
  <2> QED
    BY <2>1 DEF TypeOK, Request
<1>8. t \in LbaState /\ Applied(s, t, n, zero, result)
  BY <1>1, <1>2, <1>3, <1>6, ApplyFields
<1> HIDE DEF s, n, t, result
<1>9. lbas'[lba] = [t EXCEPT !.needs_repair = FALSE] /\ \A l \in Blocks \ {lba} : lbas'[l] = lbas[l]
  BY <1>5, <1>7
<1>10. Applied(s, lbas'[lba], n, zero, result) /\ lbas'[lba].needs_repair = FALSE
  BY <1>8, <1>9 DEF Applied, LbaState
<1>11. Forbidden(Gone(lba), Gone(lba)', n, zero, result)
  BY <1>5, <1>6, <1>7 DEF Gone, Forbidden
<1>12. \A l \in Blocks \ {lba} : Gone(l)' = Gone(l)
  BY <1>5 DEF Gone
<1>13. Requested(lba, zero, result)
  BY <1>5, <1>6, <1>7, <1>10, <1>11 DEF Requested, Recordable, s, n
<1>14. \A l \in Blocks \ {lba} : Same(l)
  BY <1>5, <1>7, <1>9, <1>12 DEF Same
<1> QED
  BY <1>5, <1>6, <1>10, <1>13, <1>14 DEF n, result

-----------------------------------------------------------------------------
(* Writes and discards at a target whose fault has not occurred *)

LEMMA WriteLands ==
  ASSUME TypeOK, NEW lba \in Blocks, NEW block, NEW failure \in Injected, TargetWrite(lba, block, failure)
  PROVE  /\ occurred => occurred'
         /\ ~occurred' => /\ durable' = durable
                          /\ \A l \in Blocks \ {lba} : Shown(l)' = Shown(l)
                          /\ Shown(lba)' = IF failure \in {"None", "IoErrorApplied"} THEN block ELSE Shown(lba)
<1>1. pending \in [Blocks -> {"None", "Write", "Discard"}] /\ cached \in [Blocks -> Medium] /\ occurred \in BOOLEAN
  BY DEF TypeOK
<1>2. CASE failure = "NoSpace"
  <2>1. RejectWrite(lba, block)
    BY <1>2 DEF TargetWrite
  <2> QED
    BY <1>2, <2>1 DEF RejectWrite, Shown
<1>3. CASE failure = "IoErrorDropped"
  <2>1. UNCHANGED <<mediumVars, occurred>>
    BY <1>3 DEF TargetWrite
  <2> QED
    BY <1>3, <2>1 DEF mediumVars, Shown
<1>4. CASE failure \in {"None", "IoErrorApplied"}
  <2>1. CacheWrite(lba, block)
    BY <1>4 DEF TargetWrite
  <2>2. occurred => occurred'
    BY <2>1 DEF CacheWrite
  <2>3. ASSUME ~occurred'
        PROVE  /\ durable' = durable /\ cached' = [cached EXCEPT ![lba] = block]
               /\ pending' = [pending EXCEPT ![lba] = "Write"]
    <3>1. Landing(lba) = lba
      BY <2>1, <2>3 DEF CacheWrite
    <3> QED
      BY <2>1, <3>1 DEF CacheWrite
  <2>4. ASSUME ~occurred'
        PROVE  /\ \A l \in Blocks \ {lba} : Shown(l)' = Shown(l)
               /\ Shown(lba)' = block
    BY <1>1, <2>3, <2>4 DEF Shown
  <2> QED
    BY <1>4, <2>2, <2>3, <2>4
<1> QED
  BY <1>2, <1>3, <1>4 DEF Injected

LEMMA DiscardLands ==
  ASSUME TypeOK, NEW range, NEW failure \in Injected \cup {"Unsupported"}, TargetDiscard(range, failure)
  PROVE  /\ occurred => occurred'
         /\ ~occurred' => /\ durable' = durable
                          /\ \A l \in Blocks : Shown(l)' =
                               IF l \in range /\ failure \in {"None", "IoErrorApplied"} THEN ZeroBlock ELSE Shown(l)
<1>1. pending \in [Blocks -> {"None", "Write", "Discard"}] /\ occurred \in BOOLEAN
  BY DEF TypeOK
<1>2. CASE failure \in {"NoSpace", "IoErrorDropped", "Unsupported"}
  <2>1. UNCHANGED <<mediumVars, occurred>>
    BY <1>2 DEF TargetDiscard
  <2> QED
    BY <1>2, <2>1 DEF mediumVars, Shown
<1>3. CASE failure \in {"None", "IoErrorApplied"}
  <2>1. CacheDiscard(range)
    BY <1>3 DEF TargetDiscard
  <2> QED
    BY <1>1, <1>3, <2>1 DEF CacheDiscard, Shown
<1> QED
  BY <1>2, <1>3 DEF Injected

LEMMA FilledContent ==
  ASSUME NEW lba, NEW n \in Nat \ {0}, NEW zero \in BOOLEAN
  PROVE  Decode(Fill(lba, n, zero), lba) = Requests(n, zero)
  BY DEF Decode, Fill, ZeroBlock, Requests, Zero

LEMMA SubmitKeeps ==
  ASSUME TypeOK, TypeOK', KnownInv, NoFalseAlarm, MediumInv,
         NEW lba \in Blocks, NEW zero \in BOOLEAN, NEW failure \in Injected, NEW onOk, NEW onIo,
         SubmitWrite(lba, zero, failure, onOk, onIo),
         \/ pc = Idle /\ onOk = Idle /\ onIo = Idle
         \/ pc = At("repair", lba) /\ onOk = AfterRepair(lba) /\ onIo = Incomplete
  PROVE  KnownInv' /\ NoFalseAlarm' /\ MediumInv'
<1> DEFINE n == Len(hist[lba]) + 1
           result == Result(failure)
           block == Fill(lba, n, zero)
<1>1. pc.at # "incomplete" /\ \A l \in Blocks : Known(l)
  BY DEF KnownInv, Idle, At
<1>2. result \in Results
  BY DEF Result, Results
<1>3. ASSUME pc'.at # "incomplete"
      PROVE  /\ Requested(lba, zero, result) /\ (\A l \in Blocks \ {lba} : Same(l))
             /\ lbas'[lba].needs_repair = FALSE
             /\ TargetWrite(lba, block, failure)
             /\ pc' = IF result = "Ok" THEN onOk ELSE onIo
  BY <1>1, <1>3, SubmitRequests
<1> HIDE DEF n, result, block
<1>4. KnownInv'
  <2>1. ASSUME pc'.at # "incomplete"
        PROVE  Known(lba)' /\ \A l \in Blocks \ {lba} : Known(l)'
    BY <1>1, <1>2, <1>3, <2>1, RequestedKeeps, SameKeeps
  <2> QED
    BY <2>1 DEF KnownInv
<1>5. NoFalseAlarm'
  <2>1. occurred => occurred'
    BY WriteLands DEF SubmitWrite
  <2>2. alarm' = alarm
    BY DEF SubmitWrite
  <2> QED
    BY <2>1, <2>2 DEF NoFalseAlarm
<1>6. ASSUME ~occurred', pc'.at # "incomplete"
      PROVE  \A l \in Blocks : Held(l)'
  <2>1. /\ ~occurred /\ durable' = durable
        /\ \A l \in Blocks \ {lba} : Shown(l)' = Shown(l)
        /\ Shown(lba)' = IF failure \in {"None", "IoErrorApplied"} THEN block ELSE Shown(lba)
    BY <1>3, <1>6, WriteLands
  <2>2. \A l \in Blocks : Held(l)
    BY <1>1, <2>1 DEF MediumInv
  <2>3. /\ result = "Ok" <=> failure = "None"
        /\ result = "Refused" => failure = "NoSpace"
        /\ result = "Other" <=> failure \in {"IoErrorApplied", "IoErrorDropped"}
    BY DEF result, Result, Injected
  <2>4. Decode(block, lba) = Requests(n, zero)
    <3>1. n \in Nat \ {0}
      BY TypesAt DEF n
    <3> QED
      BY <3>1, FilledContent DEF block
  <2>5. /\ \A c \in CrashContents(lba) : c \in CrashContents(lba)'
        /\ result # "Ok" => \A c \in LiveContents(lba) : c \in LiveContents(lba)'
        /\ result # "Refused" => Requests(n, zero) \in LiveContents(lba)'
    BY <1>1, <1>2, <1>3, <1>6, RequestedKeeps DEF n
  <2>6. ASSUME NEW l \in Blocks \ {lba}
        PROVE  /\ Known(l)' /\ CrashContents(l)' = CrashContents(l) /\ LiveContents(l)' = LiveContents(l)
               /\ lbas'[l] = lbas[l]
    BY <1>1, <1>3, <1>6, SameKeeps DEF Same
  <2>7. \/ pc = Idle /\ pc' = Idle
        \/ pc = At("repair", lba) /\ pc' = AfterRepair(lba) /\ result = "Ok"
    <3>1. pc' # Incomplete
      BY <1>6 DEF Incomplete, At
    <3> QED
      BY <1>3, <1>6, <3>1
  <2>8. CASE pc = Idle /\ pc' = Idle
    <3>1. \A l \in Blocks : Decode(durable[l], l) \in CrashContents(l) /\ Decode(Shown(l), l) \in LiveContents(l)
      BY <2>2, <2>8 DEF Held, Faithful, Current, Idle, At
    <3>2. Decode(Shown(lba)', lba) \in LiveContents(lba)'
      BY <1>2, <2>1, <2>3, <2>4, <2>5, <3>1 DEF Injected, Results
    <3>3. \A l \in Blocks : Decode(durable'[l], l) \in CrashContents(l)' /\ Decode(Shown(l)', l) \in LiveContents(l)'
      BY <2>1, <2>5, <2>6, <3>1, <3>2
    <3>4. pc'.at \notin {"crashed", "verify"}
      BY <2>8 DEF Idle, At
    <3>5. ASSUME NEW l \in Blocks
          PROVE  Decode(durable[l], l)' \in CrashContents(l)' /\ Decode(Shown(l), l)' \in LiveContents(l)'
      BY <3>3
    <3> QED
      BY <3>4, <3>5 DEF Held
  <2>9. CASE pc = At("repair", lba) /\ pc' = AfterRepair(lba) /\ result = "Ok"
    <3>1. Decode(Shown(lba)', lba) \in LiveContents(lba)'
      BY <2>1, <2>3, <2>4, <2>5, <2>9
    <3>2. pc'.at \in {"repair", "flush"} /\ (pc'.at = "flush" => lba + 1 \notin Blocks)
          /\ (pc'.at = "repair" => pc'.lba = lba + 1)
      BY <2>9 DEF AfterRepair, At
    <3>3. ASSUME NEW l \in Blocks \ {lba}, Current(l)'
          PROVE  Current(l)
      <4>1. pc.at = "repair" /\ pc.lba = lba
        BY <2>9 DEF At
      <4>2. l \in Nat /\ lba \in Nat /\ l # lba /\ BlockCount \in Nat /\ l < BlockCount
        BY BlocksAre DEF Blocks
      <4>3. CASE pc'.at = "flush"
        <5>1. l < lba
          BY <3>2, <4>2, <4>3 DEF Blocks
        <5> QED
          BY <4>1, <5>1 DEF Current
      <4>4. CASE pc'.at = "repair"
        <5>1. l < lba + 1 \/ ~lbas[l].needs_repair
          BY <2>6, <3>2, <3>3, <4>4 DEF Current
        <5>2. l < lba + 1 => l < lba
          BY <4>2
        <5> QED
          BY <4>1, <5>1, <5>2 DEF Current
      <4> QED
        BY <3>2, <4>3, <4>4
    <3>4. ASSUME NEW l \in Blocks \ {lba}, Current(l)'
          PROVE  Decode(Shown(l)', l) \in LiveContents(l)'
      BY <2>1, <2>2, <2>6, <3>3, <3>4 DEF Held
    <3>5. \A l \in Blocks : Current(l)' => Decode(Shown(l), l)' \in LiveContents(l)'
      BY <3>1, <3>4
    <3>6. \A l \in Blocks : ~Faithful(l)'
      BY <3>2 DEF Faithful
    <3> QED
      BY <3>2, <3>5, <3>6 DEF Held
  <2> QED
    BY <2>7, <2>8, <2>9
<1> QED
  BY <1>4, <1>5, <1>6 DEF MediumInv

\* Zero requests to the LBAs of a range, one result for all of them.
LEMMA RangeKeeps ==
  ASSUME TypeOK, TypeOK', KnownInv, NoFalseAlarm, MediumInv, pc = Idle, alarm' = alarm, occurred => occurred',
         NEW range, NEW result \in Results,
         pc'.at # "incomplete" =>
           pc' = Idle /\ \A l \in Blocks : IF l \in range THEN Requested(l, TRUE, result) ELSE Same(l),
         ~occurred' => /\ durable' = durable
                       /\ \A l \in Blocks :
                            \/ Shown(l)' = Shown(l) /\ (l \in range => result # "Ok")
                            \/ Shown(l)' = ZeroBlock /\ l \in range /\ result # "Refused"
  PROVE  KnownInv' /\ NoFalseAlarm' /\ MediumInv'
<1>1. pc.at # "incomplete" /\ \A l \in Blocks : Known(l)
  BY DEF KnownInv, Idle, At
<1>2. ASSUME pc'.at # "incomplete", NEW l \in Blocks
      PROVE  /\ Known(l)'
             /\ \A c \in CrashContents(l) : c \in CrashContents(l)'
             /\ (l \in range => result # "Ok") => \A c \in LiveContents(l) : c \in LiveContents(l)'
             /\ l \in range /\ result # "Refused" => 0 \in LiveContents(l)'
  <2>1. CASE l \in range
    <3>1. Requested(l, TRUE, result)
      BY <1>2, <2>1
    <3>2. TRUE \in BOOLEAN /\ Requests(Len(hist[l]) + 1, TRUE) = 0
      BY DEF Requests
    <3> QED
      BY <1>1, <2>1, <3>1, <3>2, RequestedKeeps
  <2>2. CASE l \notin range
    <3>1. Same(l)
      BY <1>2, <2>2
    <3> QED
      BY <1>1, <2>2, <3>1, SameKeeps
  <2> QED
    BY <2>1, <2>2
<1>3. ASSUME ~occurred', pc'.at # "incomplete", NEW l \in Blocks
      PROVE  Held(l)'
  <2>1. Decode(durable[l], l) \in CrashContents(l) /\ Decode(Shown(l), l) \in LiveContents(l)
    BY <1>1, <1>3 DEF MediumInv, Held, Faithful, Current, Idle, At
  <2>2. Decode(durable'[l], l) \in CrashContents(l)'
    BY <1>2, <1>3, <2>1
  <2>3. Decode(ZeroBlock, l) = 0
    BY DEF Decode, ZeroBlock, Zero
  <2>4. Decode(Shown(l)', l) \in LiveContents(l)'
    BY <1>2, <1>3, <2>1, <2>3
  <2>5. pc'.at \notin {"crashed", "verify"}
    <3>1. pc' = Idle
      BY <1>3
    <3> QED
      BY <3>1 DEF Idle, At
  <2> QED
    BY <2>2, <2>4, <2>5 DEF Held
<1> QED
  BY <1>2, <1>3 DEF KnownInv, NoFalseAlarm, MediumInv

LEMMA DiscardKeeps ==
  ASSUME TypeOK, TypeOK', KnownInv, NoFalseAlarm, MediumInv, NEW lo \in Blocks, NEW hi \in lo .. BlockCount - 1,
         NEW failure \in Injected \cup {"Unsupported"}, Discard(lo, hi, failure)
  PROVE  KnownInv' /\ NoFalseAlarm' /\ MediumInv'
<1> DEFINE result == Result(failure)
           range == lo .. hi
           stuck == {l \in range : result = "Other" /\ UncertainLimit(lbas[l], TRUE)}
<1>1. pc = Idle /\ alarm' = alarm
  BY DEF Discard
<1>2. result \in Results /\ result \in {"Ok", "Refused", "Other"}
  BY DEF Result, Results
<1>3. \A l \in Blocks : Known(l)
  BY <1>1 DEF KnownInv, Idle, At
<1>4. ASSUME pc'.at # "incomplete"
      PROVE  stuck = {} /\ pc' = Idle
  <2>1. pc' = IF stuck # {} THEN Incomplete ELSE Idle
    BY DEF Discard
  <2>2. pc' # Incomplete
    BY <1>4 DEF Incomplete, At
  <2> QED
    BY <2>1, <2>2
<1>5. ASSUME pc'.at # "incomplete", NEW l \in Blocks, l \in range
      PROVE  Requested(l, TRUE, result)
  <2> DEFINE s == lbas[l]
             n == Len(hist[l]) + 1
  <2>1. s \in LbaState /\ s.issued < MaxVersion /\ s.issued = Len(hist[l])
    BY <1>3, <1>5, TypesAt DEF Discard, Known, Tracks
  <2>2. Recordable(s, TRUE, result)
    BY <1>4, <1>5 DEF Recordable
  <2>3. lbas'[l] = Apply(Issue(s), Issue(s).issued, TRUE, result)
    <3>1. \A k \in stuck : l < k
      BY <1>4, <1>5
    <3> QED
      BY <1>5, <3>1 DEF Discard
  <2>4. Issue(s).issued = s.issued + 1
    BY <2>1, ApplyTypes
  <2>5. Applied(s, lbas'[l], n, TRUE, result)
    <3> HIDE DEF s, result
    <3> QED
      BY <1>2, <2>1, <2>2, <2>3, <2>4, ApplyFields DEF Recordable
  <2>6. /\ hist'[l] = Append(hist[l], Observed(TRUE, result)) /\ flushed'[l] = flushed[l]
        /\ dirty'[l] = IF result = "Ok" /\ NewlyDirty(s) THEN dirty[l] + 1 ELSE dirty[l]
    BY <1>5 DEF Discard
  <2>7. Forbidden(Gone(l), Gone(l)', n, TRUE, result)
    BY DEF Forbidden, Gone, Discard
  <2> HIDE DEF result
  <2> QED
    BY <2>2, <2>5, <2>6, <2>7 DEF Requested
<1>6. ASSUME NEW l \in Blocks, l \notin range
      PROVE  Same(l)
  BY <1>6 DEF Same, Discard, Gone
<1>7. TargetDiscard(range, failure)
  BY DEF Discard
<1>8. /\ result = "Ok" => failure = "None"
      /\ failure \in {"None", "IoErrorApplied"} => result # "Refused"
  BY DEF Result, Injected
<1> HIDE DEF result, range
<1>9. /\ occurred => occurred'
      /\ ~occurred' => /\ durable' = durable
                       /\ \A l \in Blocks : Shown(l)' =
                            IF l \in range /\ failure \in {"None", "IoErrorApplied"} THEN ZeroBlock ELSE Shown(l)
  BY <1>7, DiscardLands
<1>10. ~occurred' => /\ durable' = durable
                     /\ \A l \in Blocks :
                          \/ Shown(l)' = Shown(l) /\ (l \in range => result # "Ok")
                          \/ Shown(l)' = ZeroBlock /\ l \in range /\ result # "Refused"
  BY <1>8, <1>9
<1>11. pc'.at # "incomplete" =>
         pc' = Idle /\ \A l \in Blocks : IF l \in range THEN Requested(l, TRUE, result) ELSE Same(l)
  BY <1>4, <1>5, <1>6
<1> QED
  BY <1>1, <1>2, <1>9, <1>10, <1>11, RangeKeeps

LEMMA OverflowKeeps ==
  ASSUME TypeOK, TypeOK', KnownInv, NoFalseAlarm, MediumInv, NEW lo \in Blocks, NEW hi \in lo .. BlockCount - 1,
         DiscardOverflow(lo, hi)
  PROVE  KnownInv' /\ NoFalseAlarm' /\ MediumInv'
<1>1. PICK full \in lo .. hi :
        /\ \A l \in lo .. full - 1 : lbas[l].issued < MaxVersion
        /\ lbas' = [l \in Blocks |-> IF l \in lo .. full - 1 THEN Issue(lbas[l]) ELSE lbas[l]]
        /\ hist' = [l \in Blocks |->
             IF l \in lo .. full - 1 THEN Append(hist[l], Observed(TRUE, "Refused")) ELSE hist[l]]
  BY DEF DiscardOverflow
<1>2. /\ UNCHANGED <<dirty, rejected, alarm, pc, mediumVars, active, occurred, flushed>>
      /\ pc = Idle
  BY DEF DiscardOverflow
<1>3. \A l \in Blocks : Known(l)
  BY <1>2 DEF KnownInv, Idle, At
<1> DEFINE range == lo .. full - 1
<1>4. ASSUME NEW l \in Blocks, l \in range
      PROVE  Requested(l, TRUE, "Refused")
  <2> DEFINE s == lbas[l]
             n == Len(hist[l]) + 1
  <2>1. s \in LbaState /\ s.issued < MaxVersion /\ s.issued = Len(hist[l])
    BY <1>1, <1>3, <1>4, TypesAt DEF Known, Tracks
  <2>2. Recordable(s, TRUE, "Refused")
    BY DEF Recordable
  <2>3. lbas'[l] = Apply(Issue(s), s.issued + 1, TRUE, "Refused")
    BY <1>1, <1>4 DEF Apply
  <2>4. Applied(s, lbas'[l], n, TRUE, "Refused")
    <3> HIDE DEF s
    <3> QED
      BY <2>1, <2>3, ApplyFields
  <2>5. hist'[l] = Append(hist[l], Observed(TRUE, "Refused")) /\ flushed'[l] = flushed[l] /\ dirty'[l] = dirty[l]
    BY <1>1, <1>2, <1>4
  <2>6. Forbidden(Gone(l), Gone(l)', n, TRUE, "Refused")
    BY <1>2 DEF Forbidden, Gone
  <2> QED
    BY <2>2, <2>4, <2>5, <2>6 DEF Requested
<1>5. ASSUME NEW l \in Blocks, l \notin range
      PROVE  Same(l)
  BY <1>1, <1>2, <1>5 DEF Same, Gone
<1>6. "Refused" \in Results
  BY DEF Results
<1>7. durable' = durable /\ \A l \in Blocks : Shown(l)' = Shown(l)
  BY <1>2 DEF mediumVars, Shown
<1> HIDE DEF range
<1>8. pc' = Idle /\ \A l \in Blocks : IF l \in range THEN Requested(l, TRUE, "Refused") ELSE Same(l)
  BY <1>2, <1>4, <1>5
<1>9. \A l \in Blocks :
        \/ Shown(l)' = Shown(l) /\ (l \in range => "Refused" # "Ok")
        \/ Shown(l)' = ZeroBlock /\ l \in range /\ "Refused" # "Refused"
  BY <1>7
<1> QED
  BY <1>2, <1>6, <1>7, <1>8, <1>9, RangeKeeps

-----------------------------------------------------------------------------
(* Flushes, reads, crashes and the recovery *)

\* A flush whose fault does not occur makes durable what a read shows.
LEMMA FlushLands ==
  ASSUME TypeOK, TargetFlush
  PROVE  /\ occurred => occurred'
         /\ ~occurred' => \A l \in Blocks : durable'[l] = Shown(l) /\ Shown(l)' = Shown(l)
<1>1. /\ \A l \in Blocks : pending[l] \in {"None", "Write", "Discard"}
      /\ occurred \in BOOLEAN
  BY DEF TypeOK
<1> DEFINE discards == {l \in Blocks : pending[l] = "Discard"}
           writes == {l \in Blocks : pending[l] = "Write"}
<1>2. occurred' = \/ occurred
                  \/ active = "LostFlush" /\ discards \cup writes # {}
                  \/ active = "UnflushedDiscard" /\ discards # {}
  BY DEF TargetFlush
<1>3. ASSUME Settle(Blocks, {}), NEW l \in Blocks
      PROVE  durable'[l] = Shown(l) /\ Shown(l)' = Shown(l)
  <2>1. durable'[l] = Shown(l) /\ pending'[l] = "None"
    BY <1>1, <1>3 DEF Settle, Shown
  <2> QED
    BY <2>1 DEF Shown
<1>4. CASE active = "LostFlush"
  <2>1. UNCHANGED mediumVars
    BY <1>4 DEF TargetFlush
  <2>2. ASSUME ~occurred', NEW l \in Blocks
        PROVE  pending[l] = "None"
    BY <1>1, <1>2, <1>4, <2>2
  <2>3. ASSUME ~occurred', NEW l \in Blocks
        PROVE  durable'[l] = Shown(l) /\ Shown(l)' = Shown(l)
    BY <2>1, <2>2, <2>3 DEF mediumVars, Shown
  <2> QED
    BY <1>2, <2>3
<1>5. CASE active = "UnflushedDiscard"
  <2>1. Settle(Blocks, discards)
    BY <1>5 DEF TargetFlush
  <2>2. ~occurred' => discards = {}
    BY <1>2, <1>5
  <2>3. ~occurred' => Settle(Blocks, {})
    BY <2>1, <2>2
  <2> QED
    BY <1>2, <1>3, <2>3
<1>6. CASE active \notin {"LostFlush", "UnflushedDiscard"}
  <2>1. Settle(Blocks, {})
    BY <1>6 DEF TargetFlush
  <2> QED
    BY <1>2, <1>3, <2>1
<1> QED
  BY <1>4, <1>5, <1>6

LEMMA FlushKeeps ==
  ASSUME TypeOK, TypeOK', KnownInv, NoFalseAlarm, MediumInv, pc = Idle \/ pc = At("flush", 0), FlushThen(Idle)
  PROVE  KnownInv' /\ NoFalseAlarm' /\ MediumInv'
<1>1. pc.at \in {"idle", "flush"} /\ pc'.at = "idle"
  BY DEF FlushThen, Idle, At
<1>2. \A l \in Blocks : Known(l)
  BY <1>1 DEF KnownInv
<1>3. ASSUME NEW l \in Blocks
      PROVE  Known(l)'
  <2> DEFINE s == lbas[l]
             h == hist[l]
  <2>1. /\ lbas'[l] = IF dirty[l] > 0 THEN MakeDurable(s) ELSE s
        /\ dirty'[l] = 0 /\ hist'[l] = h /\ flushed'[l] = Len(h) /\ Gone(l)' = Gone(l)
    BY DEF FlushThen, Gone
  <2>2. /\ s \in LbaState /\ h \in Seq(Request) /\ Len(h) \in Nat /\ Tracks(s, h, flushed[l], Gone(l))
        /\ dirty[l] = IF \E v \in flushed[l] + 1 .. Len(h) : h[v].result = "Ok" THEN 1 ELSE 0
    BY <1>2, TypesAt DEF Known, DirtyExact
  <2> HIDE DEF s, h
  <2>3. /\ Tracks(MakeDurable(s), h, Len(h), Gone(l))
        /\ (\A v \in flushed[l] + 1 .. Len(h) : h[v].result # "Ok") => Tracks(s, h, Len(h), Gone(l))
    BY <2>2, FlushTracks
  <2>4. Tracks(lbas'[l], h, Len(h), Gone(l))
    BY <2>1, <2>2, <2>3
  <2>5. ~\E v \in Len(h) + 1 .. Len(h) : h[v].result = "Ok"
    BY <2>2
  <2> QED
    BY <2>1, <2>4, <2>5 DEF Known, DirtyExact
<1>4. KnownInv'
  BY <1>3 DEF KnownInv
<1>5. NoFalseAlarm'
  BY FlushLands DEF FlushThen, NoFalseAlarm
<1>6. ASSUME ~occurred', NEW l \in Blocks
      PROVE  Held(l)'
  <2>1. ~occurred /\ durable'[l] = Shown(l) /\ Shown(l)' = Shown(l)
    BY <1>6, FlushLands DEF FlushThen
  <2>2. Decode(Shown(l), l) \in LiveContents(l)
    BY <1>1, <2>1 DEF MediumInv, Held, Current
  <2>3. hist' = hist /\ flushed'[l] = Len(hist[l])
    BY DEF FlushThen
  <2>4. Decode(Shown(l), l) \in Allowed(hist[l], Len(hist[l]), {"Ok", "Other"})
    BY <1>2, <2>2, TypesAt, LiveMayRemain DEF Known, LiveContents
  <2>5. Decode(Shown(l), l) \in CrashContents(l)' /\ Decode(Shown(l), l) \in LiveContents(l)'
    BY <2>2, <2>3, <2>4 DEF CrashContents, LiveContents
  <2> QED
    BY <1>1, <2>1, <2>5 DEF Held
<1> QED
  BY <1>4, <1>5, <1>6 DEF MediumInv

LEMMA ReadKeeps ==
  ASSUME TypeOK, TypeOK', KnownInv, NoFalseAlarm, MediumInv, NEW lba \in Blocks, Read(lba)
  PROVE  KnownInv' /\ NoFalseAlarm' /\ MediumInv'
<1>1. /\ pc = Idle /\ UNCHANGED <<lbas, dirty, rejected, pc, hist, flushed, mediumVars>>
      /\ occurred' = (occurred \/ (active = "StaleRead" /\ pending[lba] # "None"))
      /\ alarm' = (alarm \/ ~LiveOk(lbas[lba], Decode(Visible(lba), lba)))
  BY DEF Read, TargetRead, observerVars
<1>2. \A l \in Blocks : Known(l)
  BY <1>1 DEF KnownInv, Idle, At
<1>3. \A l \in Blocks : Same(l) /\ Shown(l)' = Shown(l) /\ durable'[l] = durable[l]
  BY <1>1 DEF Same, Gone, Shown, mediumVars
<1>4. \A l \in Blocks : Known(l)' /\ CrashContents(l)' = CrashContents(l) /\ LiveContents(l)' = LiveContents(l)
  BY <1>2, <1>3, SameKeeps
<1>5. ASSUME ~occurred'
      PROVE  LiveOk(lbas[lba], Decode(Visible(lba), lba))
  <2>1. Visible(lba) = Shown(lba)
    <3>1. pending[lba] \in {"None", "Write", "Discard"}
      BY TypesAt
    <3>2. active = "StaleRead" => pending[lba] = "None"
      BY <1>1, <1>5
    <3> QED
      BY <3>1, <3>2 DEF Visible, Shown
  <2>2. Decode(Shown(lba), lba) \in LiveContents(lba)
    BY <1>1, <1>5 DEF MediumInv, Held, Current, Idle, At
  <2> QED
    BY <1>2, <2>1, <2>2, TypesAt, LiveExactFor DEF Known, LiveContents
<1>6. NoFalseAlarm'
  BY <1>1, <1>5 DEF NoFalseAlarm, TypeOK
<1>7. MediumInv'
  <2>1. ASSUME ~occurred', NEW l \in Blocks
        PROVE  Held(l)'
    <3>1. Held(l)
      BY <1>1, <2>1 DEF MediumInv, Idle, At
    <3>2. Faithful(l)' = Faithful(l) /\ Current(l)' = Current(l) /\ pc' = pc /\ pending' = pending
      BY <1>1 DEF Faithful, Current, mediumVars
    <3> QED
      BY <1>3, <1>4, <3>1, <3>2 DEF Held
  <2> QED
    BY <2>1 DEF MediumInv
<1> QED
  BY <1>4, <1>6, <1>7 DEF KnownInv

LEMMA CrashKeeps ==
  ASSUME TypeOK, TypeOK', KnownInv, NoFalseAlarm, MediumInv, NEW kept \in SUBSET Blocks, Crash(kept)
  PROVE  KnownInv' /\ NoFalseAlarm' /\ MediumInv'
<1>1. /\ pc = Idle /\ pc' = At("crashed", 0) /\ UNCHANGED <<lbas, dirty, rejected, alarm, hist, flushed>>
      /\ pending' = [l \in Blocks |-> "None"]
  BY DEF Crash, checkerVars, observerVars
<1>2. \A l \in Blocks : Known(l)
  BY <1>1 DEF KnownInv, Idle, At
<1>3. \A l \in Blocks : Known(l)' /\ CrashContents(l)' = CrashContents(l)
  <2>1. \A l \in Blocks : Same(l)
    BY <1>1 DEF Same, Gone
  <2> QED
    BY <1>2, <2>1, SameKeeps
<1>4. /\ occurred => occurred'
      /\ ~occurred' => \A l \in Blocks : durable'[l] \in {durable[l], Shown(l)}
  <2> DEFINE settled(l) == IF l \notin kept THEN durable[l]
                           ELSE CASE pending[l] = "Write" -> cached[l]
                                  [] pending[l] = "Discard" -> ZeroBlock
                                  [] OTHER -> durable[l]
             restored == {l \in Blocks : active = "Resurrection" /\ first[l] # NoBlock /\ first[l] # settled(l)}
  <2>1. \A l \in Blocks : settled(l) \in {durable[l], Shown(l)}
    BY DEF Shown
  <2>2. /\ durable' = [l \in Blocks |-> IF l \in restored THEN first[l] ELSE settled(l)]
        /\ occurred' = (occurred \/ restored # {})
    BY DEF Crash
  <2> HIDE DEF settled, restored
  <2> QED
    BY <2>1, <2>2 DEF TypeOK
<1>5. ASSUME ~occurred', NEW l \in Blocks
      PROVE  Held(l)'
  <2>1. Decode(durable[l], l) \in CrashContents(l) /\ Decode(Shown(l), l) \in LiveContents(l)
    BY <1>1, <1>4, <1>5 DEF MediumInv, Held, Faithful, Current, Idle, At
  <2>2. Decode(Shown(l), l) \in CrashContents(l)
    BY <1>2, <2>1, TypesAt, LiveMayRemain DEF Known, LiveContents, CrashContents
  <2>3. Decode(durable'[l], l) \in CrashContents(l)'
    BY <1>3, <1>4, <1>5, <2>1, <2>2
  <2>4. pending'[l] = "None" /\ ~Current(l)'
    BY <1>1 DEF Current, At
  <2> QED
    BY <2>3, <2>4 DEF Held
<1> QED
  BY <1>1, <1>3, <1>4, <1>5 DEF KnownInv, NoFalseAlarm, MediumInv

LEMMA VerifyKeeps ==
  ASSUME TypeOK, TypeOK', KnownInv, NoFalseAlarm, MediumInv, NEW lba \in Blocks, VerifyAfterCrash(lba)
  PROVE  KnownInv' /\ NoFalseAlarm' /\ MediumInv'
<1> DEFINE s == lbas[lba]
           h == hist[lba]
           found == Decode(Visible(lba), lba)
           repair == found # Expected(s)
           full == s.uncertain_write # 0 /\ RejectedFull
           t == Verified(s, repair)
           more == RejectedToo(s, Gone(lba))
<1>1. /\ pc = At("verify", lba) /\ UNCHANGED <<dirty, flushed, mediumVars>>
      /\ occurred => occurred'
      /\ lbas' = [lbas EXCEPT ![lba] = t]
      /\ rejected' = IF s.uncertain_write # 0 /\ ~full THEN rejected \cup {<<lba, s.uncertain_write>>} ELSE rejected
      /\ alarm' = (alarm \/ (~full /\ ~CrashOk(s, found, WasRejected(lba, found))))
      /\ pc' = IF full THEN Incomplete ELSE AfterVerify(lba)
      /\ hist' = [hist EXCEPT ![lba] = Retire(h)]
  BY DEF VerifyAfterCrash, TargetRead, Verified
<1>2. pc.at = "verify" /\ pc.lba = lba /\ \A l \in Blocks : Known(l)
  BY <1>1 DEF KnownInv, At
<1>3. s \in LbaState /\ h \in Seq(Request) /\ Len(h) \in Nat /\ Tracks(s, h, flushed[lba], Gone(lba))
  BY <1>2, TypesAt DEF Known
<1>4. lbas \in [Blocks -> LbaState] /\ hist \in [Blocks -> Seq(Request)] /\ s.uncertain_write \in Versions
  BY <1>3 DEF TypeOK, Request, LbaState
<1>5. /\ t.needs_repair = repair
      /\ Tracks(t, Retire(h), flushed[lba], more)
      /\ Expected(s) \in Allowed(Retire(h), Len(h), {"Other"})
      /\ Len(Retire(h)) = Len(h)
      /\ \A v \in 1 .. Len(h) : Retire(h)[v].result = "Ok" <=> h[v].result = "Ok"
  <2>1. repair \in BOOLEAN
    OBVIOUS
  <2> HIDE DEF s, h, repair
  <2>2. /\ t.needs_repair = repair /\ Tracks(t, Retire(h), flushed[lba], more)
        /\ Expected(s) \in Allowed(Retire(h), Len(h), {"Other"})
    BY <1>3, <2>1, RetireTracks
  <2>3. /\ Len(Retire(h)) = Len(h)
        /\ \A v \in 1 .. Len(h) : Retire(h)[v].result = "Ok" <=> h[v].result = "Ok"
    BY <1>3, RetireTypes
  <2> QED
    BY <2>2, <2>3
<1> HIDE DEF s, h, t, found, repair
<1>6. lbas'[lba] = t /\ hist'[lba] = Retire(h)
  BY <1>1, <1>4
<1>7. ASSUME NEW l \in Blocks \ {lba}
      PROVE  Same(l)
  BY <1>1, <1>4 DEF Same, Gone
<1>8. ASSUME ~full
      PROVE  Known(lba)'
  <2>1. Gone(lba)' = more
    BY <1>1, <1>4, <1>8 DEF Gone, RejectedToo
  <2>2. Tracks(lbas'[lba], hist'[lba], flushed'[lba], Gone(lba)')
    BY <1>1, <1>5, <1>6, <2>1
  <2>3. DirtyExact(lba)'
    <3>1. flushed[lba] \in Nat
      BY TypesAt
    <3>2. \A v \in flushed[lba] + 1 .. Len(h) : v \in 1 .. Len(h)
      BY <1>3, <3>1
    <3>3. (\E v \in flushed[lba] + 1 .. Len(h) : h[v].result = "Ok") <=>
            \E v \in flushed[lba] + 1 .. Len(h) : Retire(h)[v].result = "Ok"
      BY <1>5, <3>2
    <3>4. dirty[lba] = IF \E v \in flushed[lba] + 1 .. Len(h) : h[v].result = "Ok" THEN 1 ELSE 0
      BY <1>2 DEF Known, DirtyExact, h
    <3> QED
      BY <1>1, <1>5, <1>6, <3>3, <3>4 DEF DirtyExact
  <2> QED
    BY <2>2, <2>3 DEF Known
<1>9. ASSUME NEW l \in Blocks \ {lba}
      PROVE  Known(l)' /\ CrashContents(l)' = CrashContents(l) /\ LiveContents(l)' = LiveContents(l)
  BY <1>2, <1>7, SameKeeps
<1>10. KnownInv'
  <2>1. full => pc'.at = "incomplete"
    BY <1>1 DEF Incomplete, At
  <2> QED
    BY <1>8, <1>9, <2>1 DEF KnownInv
<1>11. ASSUME ~occurred
       PROVE  /\ found = Decode(Shown(lba), lba)
              /\ found \in CrashContents(lba)
              /\ \A l \in Blocks : pending[l] = "None" /\ Held(l)
  <2>1. \A l \in Blocks : Held(l) /\ pending[l] = "None"
    BY <1>2, <1>11 DEF MediumInv, Held
  <2>2. Visible(lba) = durable[lba] /\ Shown(lba) = durable[lba]
    BY <2>1 DEF Visible, Shown
  <2>3. Faithful(lba)
    BY <1>2, BlocksAre DEF Faithful
  <2> QED
    BY <2>1, <2>2, <2>3 DEF Held, found
<1>12. ASSUME ~occurred
       PROVE  CrashOk(s, found, WasRejected(lba, found))
  <2>1. found \in Allowed(h, flushed[lba], {"Ok", "Other"})
    BY <1>11, <1>12 DEF CrashContents, h
  <2>2. found \in Returnable(h)
    BY <1>3, <2>1, AllowedReturnable
  <2>3. found > 0 => (WasRejected(lba, found) <=> found \in Gone(lba))
    <3>1. found \in -1 .. MaxVersion /\ MaxVersion \in Nat
      BY <2>2, BlockCheckAssumption DEF Returnable, Invalid
    <3> QED
      BY <3>1 DEF WasRejected, Gone, Versions
  <2>4. WasRejected(lba, found) \in BOOLEAN
    BY DEF WasRejected
  <2> QED
    BY <1>3, <2>1, <2>2, <2>3, <2>4, CrashExactFor
<1>13. NoFalseAlarm'
  BY <1>1, <1>12 DEF NoFalseAlarm, TypeOK
<1>14. ASSUME ~occurred', pc'.at # "incomplete"
       PROVE  \A l \in Blocks : Held(l)'
  <2>1. ~full /\ pc' = AfterVerify(lba) /\ ~occurred
    BY <1>1, <1>14 DEF Incomplete, At
  <2>2. \/ pc'.at = "verify" /\ pc'.lba = lba + 1
        \/ pc'.at = "repair" /\ pc'.lba = 0 /\ lba + 1 \notin Blocks
    BY <2>1 DEF AfterVerify, At
  <2>3. \A l \in Blocks : Shown(l)' = Shown(l) /\ durable'[l] = durable[l] /\ pending'[l] = "None"
    BY <1>1, <1>11, <2>1 DEF Shown, mediumVars
  <2>4. \A l \in Blocks : l \in Nat /\ l < BlockCount /\ BlockCount \in Nat
    BY BlocksAre DEF Blocks
  <2>5. ASSUME Current(lba)'
        PROVE  Decode(Shown(lba)', lba) \in LiveContents(lba)'
    <3>1. ~lbas'[lba].needs_repair
      <4>1. ~(lba < 0)
        BY <2>4
      <4> QED
        BY <2>2, <2>5, <4>1 DEF Current
    <3>2. found = Expected(s)
      BY <1>5, <1>6, <3>1 DEF repair
    <3>3. LiveContents(lba)' = Allowed(Retire(h), Len(h), {"Other"})
      BY <1>5, <1>6 DEF LiveContents
    <3> QED
      BY <1>5, <1>11, <2>1, <2>3, <3>2, <3>3
  <2>6. ASSUME NEW l \in Blocks \ {lba}, Current(l)'
        PROVE  Decode(Shown(l)', l) \in LiveContents(l)'
    <3>1. l < lba
      <4>1. l # lba /\ l \in Nat /\ lba \in Nat /\ l < BlockCount /\ lba < BlockCount /\ ~(l < 0)
        BY <2>4
      <4>2. CASE pc'.at = "verify" /\ pc'.lba = lba + 1
        BY <2>6, <4>1, <4>2 DEF Current
      <4>3. CASE lba + 1 \notin Blocks
        BY <2>4, <4>1, <4>3 DEF Blocks
      <4> QED
        BY <2>2, <4>2, <4>3
    <3>2. ~lbas'[l].needs_repair /\ lbas'[l] = lbas[l]
      <4>1. ~(l < 0)
        BY <2>4
      <4> QED
        BY <1>7, <2>2, <2>6, <4>1 DEF Current, Same
    <3>3. Current(l)
      BY <1>2, <3>1, <3>2 DEF Current
    <3> QED
      BY <1>9, <1>11, <2>1, <2>3, <3>3 DEF Held
  <2>7. ASSUME NEW l \in Blocks, Faithful(l)'
        PROVE  Decode(durable'[l], l) \in CrashContents(l)'
    <3>1. pc'.at = "verify" /\ lba + 1 <= l
      BY <2>2, <2>7 DEF Faithful
    <3>2. l # lba /\ lba <= l
      BY <2>4, <3>1
    <3>3. Faithful(l)
      BY <1>2, <3>2 DEF Faithful
    <3> QED
      BY <1>9, <1>11, <2>1, <2>3, <3>2, <3>3 DEF Held
  <2> QED
    BY <2>3, <2>5, <2>6, <2>7 DEF Held
<1> QED
  BY <1>10, <1>13, <1>14 DEF MediumInv

\* A step that only moves on to the next phase or LBA of the recovery.
LEMMA PhaseKeeps ==
  ASSUME TypeOK, KnownInv, NoFalseAlarm, MediumInv, UNCHANGED <<checkerVars, mediumVars, occurred, observerVars>>,
         pc.at # "incomplete",
         pc'.at \in {"crashed", "verify"} => pc.at \in {"crashed", "verify"},
         \A l \in Blocks : (Faithful(l)' => Faithful(l)) /\ (Current(l)' => Current(l))
  PROVE  KnownInv' /\ NoFalseAlarm' /\ MediumInv'
<1>1. \A l \in Blocks : Known(l)
  BY DEF KnownInv
<1>2. \A l \in Blocks : /\ Known(l)' /\ CrashContents(l)' = CrashContents(l) /\ LiveContents(l)' = LiveContents(l)
                        /\ Shown(l)' = Shown(l)
  <2>1. \A l \in Blocks : Same(l) /\ Shown(l)' = Shown(l)
    BY DEF Same, Gone, Shown, checkerVars, mediumVars, observerVars
  <2> QED
    BY <1>1, <2>1, SameKeeps
<1>3. ASSUME ~occurred', NEW l \in Blocks
      PROVE  Held(l)'
  <2>1. Held(l) /\ durable' = durable /\ pending' = pending
    BY <1>3 DEF MediumInv, mediumVars
  <2> QED
    BY <1>2, <2>1 DEF Held
<1> QED
  BY <1>2, <1>3 DEF KnownInv, NoFalseAlarm, MediumInv, checkerVars

LEMMA IdlingKeeps ==
  ASSUME KnownInv, NoFalseAlarm, MediumInv, UNCHANGED <<checkerVars, pc, mediumVars, occurred, observerVars>>
  PROVE  KnownInv' /\ NoFalseAlarm' /\ MediumInv'
<1>1. ASSUME NEW l \in Blocks
      PROVE  Known(l)' = Known(l) /\ Held(l)' = Held(l)
  <2>1. Known(l)' = Known(l)
    BY DEF checkerVars, observerVars, Known, DirtyExact, Gone
  <2>2. Held(l)' = Held(l)
    BY DEF checkerVars, mediumVars, observerVars, Held, Faithful, Current, Shown, LiveContents, CrashContents
  <2> QED
    BY <2>1, <2>2
<1> QED
  BY <1>1 DEF KnownInv, NoFalseAlarm, MediumInv, checkerVars

LEMMA RecoveryKeeps ==
  ASSUME TypeOK, KnownInv, NoFalseAlarm, MediumInv,
         Recover \/ \E l \in Blocks : SkipRepair(l) \/ RepairOverflow(l)
  PROVE  KnownInv' /\ NoFalseAlarm' /\ MediumInv'
<1>1. \A l \in Blocks : l \in Nat /\ l < BlockCount /\ BlockCount \in Nat
  BY BlocksAre DEF Blocks
<1>2. CASE Recover
  <2>1. pc.at = "crashed" /\ pc'.at = "verify" /\ pc'.lba = 0
    BY <1>2 DEF Recover, At
  <2>2. \A l \in Blocks : Faithful(l) /\ ~Current(l)'
    BY <1>1, <2>1 DEF Faithful, Current
  <2> QED
    BY <1>2, <2>1, <2>2, PhaseKeeps DEF Recover
<1>3. ASSUME NEW lba \in Blocks, SkipRepair(lba)
      PROVE  KnownInv' /\ NoFalseAlarm' /\ MediumInv'
  <2>1. /\ pc.at = "repair" /\ pc.lba = lba /\ ~lbas[lba].needs_repair /\ lbas' = lbas
        /\ UNCHANGED <<checkerVars, mediumVars, occurred, observerVars>>
        /\ \/ pc'.at = "repair" /\ pc'.lba = lba + 1
           \/ pc'.at = "flush" /\ lba + 1 \notin Blocks
    BY <1>3 DEF SkipRepair, AfterRepair, At, checkerVars
  <2>2. ASSUME NEW l \in Blocks, Current(l)'
        PROVE  Current(l)
    <3>1. l \in Nat /\ lba \in Nat /\ l < BlockCount /\ lba < BlockCount /\ BlockCount \in Nat
      BY <1>1
    <3>2. CASE pc'.at = "repair" /\ pc'.lba = lba + 1
      <4>1. l < lba + 1 \/ ~lbas[l].needs_repair
        BY <2>1, <2>2, <3>2 DEF Current
      <4>2. l < lba \/ ~lbas[l].needs_repair
        <5>1. l < lba + 1 => l < lba \/ l = lba
          BY <3>1
        <5> QED
          BY <2>1, <4>1, <5>1
      <4> QED
        BY <2>1, <4>2 DEF Current
    <3>3. CASE lba + 1 \notin Blocks
      <4>1. l < lba \/ l = lba
        BY <3>1, <3>3 DEF Blocks
      <4> QED
        BY <2>1, <4>1 DEF Current
    <3> QED
      BY <2>1, <3>2, <3>3
  <2>3. \A l \in Blocks : ~Faithful(l)'
    BY <2>1 DEF Faithful
  <2> QED
    BY <2>1, <2>2, <2>3, PhaseKeeps
<1>4. ASSUME NEW lba \in Blocks, RepairOverflow(lba)
      PROVE  KnownInv' /\ NoFalseAlarm' /\ MediumInv'
  <2>1. pc'.at = "incomplete" /\ alarm' = alarm /\ occurred' = occurred
    BY <1>4 DEF RepairOverflow, Incomplete, At
  <2> QED
    BY <2>1 DEF KnownInv, NoFalseAlarm, MediumInv
<1> QED
  BY <1>2, <1>3, <1>4

-----------------------------------------------------------------------------
(* The theorems *)

LEMMA InitKeeps ==
  ASSUME Init
  PROVE  CheckerInductive
<1>1. TypeOK
  <2>1. Unwritten \in LbaState
    BY BlocksAre DEF Unwritten, LbaState
  <2>2. <<>> \in Seq(Request)
    OBVIOUS
  <2>3. CheckerType
    BY <2>1, <2>2, PhaseTypes DEF Init, CheckerType
  <2>4. MediumType
    BY BlocksAre DEF Init, MediumType
  <2> QED
    BY <2>3, <2>4, TypeParts
<1>2. ASSUME NEW l \in Blocks
      PROVE  Known(l)
  <2>1. /\ lbas[l] = Unwritten /\ hist[l] = <<>> /\ Len(hist[l]) = 0 /\ flushed[l] = 0 /\ dirty[l] = 0
        /\ Gone(l) = {}
    BY DEF Init, Gone
  <2>2. /\ Unwritten.issued = 0 /\ Unwritten.latest = 0 /\ Unwritten.last_zero = 0 /\ Unwritten.durable = 0
        /\ Unwritten.durable_is_payload = FALSE /\ Unwritten.uncertain_write = 0 /\ Unwritten.uncertain_zero = 0
    BY DEF Unwritten
  <2>3. Tracks(lbas[l], hist[l], flushed[l], Gone(l))
    BY <2>1, <2>2 DEF Tracks, LastAcked, LastZeroed, UncertainWrite, UncertainZero, Rejects
  <2> QED
    BY <2>1, <2>3 DEF Known, DirtyExact
<1>3. ASSUME NEW l \in Blocks
      PROVE  Held(l)
  <2>1. Decode(durable[l], l) = 0 /\ Shown(l) = durable[l]
    BY DEF Init, Decode, Shown, ZeroBlock, Zero
  <2>2. hist[l] = <<>> /\ Len(hist[l]) = 0 /\ flushed[l] = 0 /\ LastAcked(<<>>, 0, 0)
    BY DEF Init, LastAcked
  <2>3. 0 \in CrashContents(l) /\ 0 \in LiveContents(l)
    BY <2>2, AllowedIs DEF CrashContents, LiveContents, ContentOf, Zero
  <2>4. pc.at = "idle"
    BY DEF Init, Idle, At
  <2> QED
    BY <2>1, <2>3, <2>4 DEF Held
<1> QED
  BY <1>1, <1>2, <1>3 DEF CheckerInductive, KnownInv, NoFalseAlarm, MediumInv, Init

LEMMA NextKeeps ==
  ASSUME CheckerInductive, [Next]_vars
  PROVE  CheckerInductive'
<1>1. TypeOK /\ KnownInv /\ NoFalseAlarm /\ MediumInv
  BY DEF CheckerInductive
<1>2. TypeOK'
  BY <1>1, TypeKeeps
<1>3. ASSUME NEW l \in Blocks, NEW zero \in BOOLEAN, NEW failure \in Injected, Write(l, zero, failure)
      PROVE  KnownInv' /\ NoFalseAlarm' /\ MediumInv'
  BY <1>1, <1>2, <1>3, SubmitKeeps DEF Write
<1>4. ASSUME NEW l \in Blocks, NEW failure \in Injected, Repair(l, failure)
      PROVE  KnownInv' /\ NoFalseAlarm' /\ MediumInv'
  <2>1. (Expected(lbas[l]) = Zero) \in BOOLEAN
    OBVIOUS
  <2> QED
    BY <1>1, <1>2, <1>4, <2>1, SubmitKeeps DEF Repair
<1>5. Flush \/ FinishRecovery => KnownInv' /\ NoFalseAlarm' /\ MediumInv'
  BY <1>1, <1>2, FlushKeeps DEF Flush, FinishRecovery
<1>6. UNCHANGED vars \/ (\E fault \in Faults : Arm(fault)) => KnownInv' /\ NoFalseAlarm' /\ MediumInv'
  BY <1>1, IdlingKeeps DEF Arm, vars
<1>7. KnownInv' /\ NoFalseAlarm' /\ MediumInv'
  BY <1>1, <1>2, <1>3, <1>4, <1>5, <1>6, DiscardKeeps, OverflowKeeps, ReadKeeps, CrashKeeps,
     RecoveryKeeps, VerifyKeeps
  DEF Next
<1> QED
  BY <1>2, <1>7 DEF CheckerInductive

(* The checker's state is always true to the history of every LBA, and while the fault has not
   occurred the simulated disk holds and shows only contents that this history allows. *)
THEOREM CheckerInductiveHolds == Spec => []CheckerInductive
<1>1. Init => CheckerInductive
  BY InitKeeps
<1>2. CheckerInductive /\ [Next]_vars => CheckerInductive'
  BY NextKeeps
<1> QED
  BY <1>1, <1>2, PTL DEF Spec

(* The dirty list holds exactly the LBAs with an acknowledged request after the last flush, each
   once (Checker::acknowledge, make_durable). *)
THEOREM DirtyListStaysExact == Spec => []CheckerInv
<1>1. CheckerInductive => CheckerInv
  BY DEF CheckerInductive, CheckerInv, KnownInv, Known, DirtyExact, DirtyListExact
<1> QED
  BY <1>1, CheckerInductiveHolds, PTL

(* With the few version numbers it keeps per LBA the checker accepts exactly the contents that the
   whole history of requests allows, before and after a crash (live_violation, crash_violation). *)
THEOREM VerdictsExact == Spec => []VerdictExact
<1>1. CheckerInductive => VerdictExact
  <2> SUFFICES ASSUME CheckerInductive, pc.at # "incomplete", NEW l \in Blocks, NEW found \in Returnable(hist[l])
               PROVE  /\ LiveOk(lbas[l], found) <=> found \in Allowed(hist[l], Len(hist[l]), {"Other"})
                      /\ CrashOk(lbas[l], found, WasRejected(l, found)) <=>
                           found \in Allowed(hist[l], flushed[l], {"Ok", "Other"})
    BY DEF VerdictExact
  <2>1. lbas[l] \in LbaState /\ hist[l] \in Seq(Request) /\ Tracks(lbas[l], hist[l], flushed[l], Gone(l))
    BY TypesAt DEF CheckerInductive, KnownInv, Known
  <2>2. found > 0 => (WasRejected(l, found) <=> found \in Gone(l))
    <3>1. found \in -1 .. MaxVersion /\ MaxVersion \in Nat
      BY BlockCheckAssumption DEF Returnable, Invalid
    <3> QED
      BY <3>1 DEF WasRejected, Gone, Versions
  <2>3. WasRejected(l, found) \in BOOLEAN
    BY DEF WasRejected
  <2> QED
    BY <2>1, <2>2, <2>3, LiveExactFor, CrashExactFor
<1> QED
  BY <1>1, CheckerInductiveHolds, PTL

(* A recorded violation means that the planned fault occurred: whatever requests fail or are
   refused, whichever cached blocks a crash keeps and wherever a recovery stops, the checker never
   accuses a correct target. *)
THEOREM CorrectTargetNotAccused == Spec => []NoFalseAlarm
<1>1. CheckerInductive => NoFalseAlarm
  BY DEF CheckerInductive
<1> QED
  BY <1>1, CheckerInductiveHolds, PTL
=============================================================================
