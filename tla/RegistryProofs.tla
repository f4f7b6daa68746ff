--------------------------- MODULE RegistryProofs ---------------------------
(***************************************************************************)
(* Proofs about RegistrySync and RegistryBridge: types, that the store and *)
(* its saved cursor recover the registry's state, that a syncer at the end *)
(* of the feed serves it, what the router's snapshot says, and that        *)
(* providers keep the router's key.                                        *)
(*                                                                         *)
(* The operators below take the log l, the horizon b and the orphans o as  *)
(* parameters, so that what they say before and after a step is two uses   *)
(* of one operator.                                                        *)
(***************************************************************************)
EXTENDS RegistryBridge, FiniteSetTheorems, WellFoundedInduction, TLAPS

-----------------------------------------------------------------------------
(* The feed, as a function of the log.                                     *)

\* x is in the registry after the log l.
Live(l, x) ==
  \E i \in 1 .. Len(l) : Creates(l[i], x) /\ \A j \in i + 1 .. Len(l) : ~Deletes(l[j], x)

\* Event i outlives a horizon b.
Kept(l, b, i) == \E x \in Items : Creates(l[i], x) /\ \A j \in i + 1 .. b : ~Touches(l[j], x)

\* What the feed delivers after position a.
FeedOf(l, b, a) == {i \in DOMAIN l : i > a /\ (i > b \/ Kept(l, b, i))}

Touched(l, I, x) == \E i \in I : Touches(l[i], x)

\* S is right about x, but for orphans; and about all that I does not touch.
Right(l, o, S, x) == (Live(l, x) => x \in S) /\ (x \in S => (Live(l, x) \/ x \in o))
Sound(l, o, S, I) == \A x \in Items : ~Touched(l, I, x) => Right(l, o, S, x)

\* The feed answers cursor c under the horizon b.
Answered(c, b) == c.at >= b \/ c.horizon = b

\* S and the feed after c make the registry's state.
Good(l, b, o, S, c) == (c # Start /\ Answered(c, b)) => Sound(l, o, S, FeedOf(l, b, c.at))

\* p is what is left of a page that was fetched at c and ends at n: each of
\* its events outlived the horizon, and none after the horizon is left out.
PageOf(l, p, c, n) ==
  /\ n # Start /\ c.at <= n.at /\ c.horizon <= n.horizon
  /\ \A i \in p :
       /\ c.at < i /\ i <= n.at
       /\ i > n.horizon \/ Kept(l, n.horizon, i)
       /\ \A k \in i + 1 .. n.at : k > n.horizon => k \in p

\* x is in memory when the events up to a were delivered under horizon h.
Held(l, x, a, h) ==
  \E i \in 1 .. a : /\ Creates(l[i], x)
                    /\ \A j \in i + 1 .. a : ~Deletes(l[j], x)
                    /\ \A j \in a + 1 .. h : ~Touches(l[j], x)

-----------------------------------------------------------------------------
(* The inductive invariant.                                                *)

InPage == pc \in {"apply", "cascade"}
Running == pc = "fetch" \/ InPage

CursorsIssued ==
  /\ saved.horizon <= base /\ saved.at <= Len(log)
  /\ cur.horizon <= base /\ cur.at <= Len(log)
  /\ next.horizon <= base /\ next.at <= Len(log)

\* The saved cursor is behind the one in use, unless it is of no use.
SavedBehind ==
  (Running /\ rewind = "no" /\ saved # Start /\ Answered(saved, base)) =>
    cur # Start /\ saved.at <= cur.at /\ saved.horizon <= cur.horizon

PageKnown == InPage => PageOf(log, page, cur, next)

RewindEnds == pc = "start" => rewind # "underway"

\* Between the two halves of an agent's removal.
HalfRemoved ==
  pc = "cascade" =>
    /\ page # {}
    /\ log[Least(page)].op = "remove" /\ log[Least(page)].item \in Agents
    /\ log[Least(page)].item \notin mem
    /\ (Stored /\ ~failed) => log[Least(page)].item \notin disk

WithoutStore ==
  ~Stored => disk = {} /\ ~failed /\ saveFailures = 0 /\ (pc = "start" => saved = Start)

StartsEmpty == log = <<>> => mem = {} /\ disk = {}

\* The store follows the saved cursor, memory and store the one in use, and
\* both follow the page that is being applied.
StoreFollows == (Stored /\ rewind = "no") => Good(log, base, orphans, disk, saved)

CursorFollows ==
  (Running /\ rewind # "torn") =>
    /\ Good(log, base, orphans, mem, cur)
    /\ Stored => Good(log, base, orphans, disk, cur)

PageFollows ==
  (InPage /\ rewind # "torn" /\ ~failed /\ Answered(next, base)) =>
    /\ Sound(log, orphans, mem, page \cup FeedOf(log, base, next.at))
    /\ Stored => Sound(log, orphans, disk, page \cup FeedOf(log, base, next.at))

SyncInv ==
  /\ TypeOK /\ CursorsIssued /\ SavedBehind /\ PageKnown /\ RewindEnds /\ HalfRemoved
  /\ WithoutStore /\ StartsEmpty /\ StoreFollows /\ CursorFollows /\ PageFollows

\* A router's memory is what was delivered to it, and what it serves.
Delivered ==
  ~Stored =>
    /\ pc = "fetch" => \A x \in Items : x \in mem <=> Held(log, x, cur.at, cur.horizon)
    /\ InPage => \A x \in Items :
         ~Touched(log, page, x) => (x \in mem <=> Held(log, x, next.at, next.horizon))

ServedIsMemory ==
  (~Stored /\ pc = "fetch" /\ cur # Start) => served.props = mem \cap Properties

KidsOwn == served.kids = {} \/ served.kids = {routerKey}

RouterTypes ==
  /\ routerKey \in Kids
  /\ served \in [props : SUBSET Properties, kids : SUBSET Kids]
  /\ provider \in ProviderStates
  /\ trusted \subseteq Kids

BridgeInv == SyncInv /\ Delivered /\ ServedIsMemory /\ KidsOwn /\ RouterTypes

-----------------------------------------------------------------------------
(* Least and greatest elements.                                            *)

LEMMA LeastExists ==
  ASSUME NEW I, I \subseteq Nat, I # {}
  PROVE  \E m \in I : \A j \in I : m <= j
<1> DEFINE Below(i) == 0 .. i
           T == {Below(i) : i \in I}
<1>1. T \subseteq FiniteSubsetsOf(Nat) /\ T # {}
  <2>1. ASSUME NEW i \in I  PROVE Below(i) \in FiniteSubsetsOf(Nat)
    <3>1. i \in Int /\ 0 \in Int /\ Below(i) \in SUBSET Nat
      OBVIOUS
    <3>2. IsFiniteSet(Below(i))
      BY <3>1, FS_Interval
    <3> QED BY <3>1, <3>2 DEF FiniteSubsetsOf
  <2> HIDE DEF Below
  <2> QED BY <2>1
<1>2. PICK t \in T : \A u \in T : ~(<<u, t>> \in StrictSubsetOrdering(Nat))
  BY <1>1, FS_StrictSubsetOrderingWellFounded, WFMin
<1>3. PICK m \in I : t = Below(m)
  OBVIOUS
<1>4. ASSUME NEW j \in I, j < m  PROVE FALSE
  <2>1. Below(j) \in T
    OBVIOUS
  <2>2. Below(j) \subseteq Below(m) /\ m \in Below(m) /\ m \notin Below(j)
    BY <1>4
  <2>3. Below(j) \in SUBSET Nat /\ Below(m) \in SUBSET Nat
    OBVIOUS
  <2>4. <<Below(j), Below(m)>> \in StrictSubsetOrdering(Nat)
    <3> HIDE DEF Below
    <3> QED BY <2>2, <2>3 DEF StrictSubsetOrdering
  <2> QED BY <2>1, <2>4, <1>2, <1>3
<1>5. \A j \in I : m <= j
  BY <1>4
<1> QED BY <1>5

LEMMA GreatestExists ==
  ASSUME NEW n \in Nat, NEW I, I \subseteq 0 .. n, I # {}
  PROVE  \E m \in I : \A j \in I : j <= m
<1> DEFINE C == {n - i : i \in I}
<1>1. C \subseteq Nat
  <2>1. \A i \in I : n - i \in Nat
    OBVIOUS
  <2> QED BY <2>1
<1>2. C # {}
  OBVIOUS
<1>3. PICK c \in C : \A d \in C : c <= d
  BY <1>1, <1>2, LeastExists
<1>4. PICK m \in I : c = n - m
  BY <1>3
<1>5. ASSUME NEW j \in I  PROVE j <= m
  <2>1. n - j \in C
    OBVIOUS
  <2>2. n - m <= n - j
    BY <2>1, <1>3, <1>4
  <2>3. j \in 0 .. n /\ m \in 0 .. n
    OBVIOUS
  <2> HIDE DEF C
  <2> QED BY <2>2, <2>3
<1> QED BY <1>5

LEMMA LeastIs ==
  ASSUME NEW I, I \subseteq Nat, I # {}
  PROVE  Least(I) \in I /\ \A j \in I : Least(I) <= j
BY LeastExists DEF Least

LEMMA GreatestIs ==
  ASSUME NEW n \in Nat, NEW I, I \subseteq 0 .. n, I # {}
  PROVE  Greatest(I) \in I /\ \A j \in I : j <= Greatest(I)
BY GreatestExists DEF Greatest

-----------------------------------------------------------------------------
(* What the log and the feed say of an item.                               *)

LEMMA OneKind ==
  ASSUME NEW e, NEW x
  PROVE  ~(Creates(e, x) /\ Deletes(e, x))
BY DEF Creates, Deletes

\* Of the events of I that touch x there is a last one.
LEMMA LastIn ==
  ASSUME NEW l, NEW n \in Nat, NEW I, I \subseteq 1 .. n, NEW x, Touched(l, I, x)
  PROVE  \E m \in I : Touches(l[m], x) /\ \A j \in I : j > m => ~Touches(l[j], x)
<1> DEFINE T == {i \in I : Touches(l[i], x)}
<1>1. T \subseteq 0 .. n /\ T # {}
  <2>1. 1 .. n \subseteq 0 .. n
    OBVIOUS
  <2>2. T # {}
    BY DEF Touched
  <2> QED BY <2>1, <2>2
<1>2. PICK m \in T : \A j \in T : j <= m
  BY <1>1, GreatestExists
<1>3. ASSUME NEW j \in I, j > m  PROVE ~Touches(l[j], x)
  <2>1. j \notin T
    BY <1>2, <1>3, <1>1
  <2> QED BY <2>1
<1> QED BY <1>2, <1>3

\* The last event about x decides whether it is live.
LEMMA LastDecides ==
  ASSUME NEW l, Len(l) \in Nat, NEW x, NEW i \in 1 .. Len(l), Touches(l[i], x),
         \A j \in i + 1 .. Len(l) : ~Touches(l[j], x)
  PROVE  Live(l, x) <=> Creates(l[i], x)
<1>1. CASE Creates(l[i], x)
  BY <1>1 DEF Live, Touches
<1>2. CASE ~Creates(l[i], x)
  <2>1. Deletes(l[i], x)
    BY <1>2 DEF Touches
  <2>2. ASSUME NEW k \in 1 .. Len(l), Creates(l[k], x), \A j \in k + 1 .. Len(l) : ~Deletes(l[j], x)
        PROVE  FALSE
    <3>1. CASE k < i
      BY <3>1, <2>1, <2>2
    <3>2. CASE k = i
      BY <3>2, <1>2, <2>2
    <3>3. CASE k > i
      BY <3>3, <2>2 DEF Touches
    <3> QED BY <3>1, <3>2, <3>3
  <2> QED BY <1>2, <2>2 DEF Live
<1> QED BY <1>1, <1>2

\* An event that outlived a horizon touches the one item it creates.
LEMMA KeptCreates ==
  ASSUME NEW l, NEW b, NEW i, Kept(l, b, i), NEW x, Touches(l[i], x)
  PROVE  Creates(l[i], x) /\ \A j \in i + 1 .. b : ~Touches(l[j], x)
<1>1. PICK y \in Items : Creates(l[i], y) /\ \A j \in i + 1 .. b : ~Touches(l[j], y)
  BY DEF Kept
<1>2. ~Deletes(l[i], x)
  BY <1>1 DEF Creates, Deletes
<1>3. Creates(l[i], x)
  BY <1>2 DEF Touches
<1>4. x = y
  BY <1>1, <1>3 DEF Creates
<1> QED BY <1>1, <1>3, <1>4

\* Where the feed after a says something of x, its last word is the truth.
LEMMA FeedDecides ==
  ASSUME NEW l, Len(l) \in Nat, DOMAIN l = 1 .. Len(l), NEW b \in 0 .. Len(l), NEW a \in Nat, NEW x,
         NEW m \in FeedOf(l, b, a), Touches(l[m], x),
         \A j \in FeedOf(l, b, a) : j > m => ~Touches(l[j], x)
  PROVE  Live(l, x) <=> Creates(l[m], x)
<1>1. m \in 1 .. Len(l) /\ m > a
  BY DEF FeedOf
<1>2. \A j \in 1 .. Len(l) : (j > m /\ j > b) => ~Touches(l[j], x)
  BY <1>1 DEF FeedOf
<1>3. \A j \in m + 1 .. Len(l) : ~Touches(l[j], x)
  <2>1. CASE m > b
    BY <1>1, <1>2, <2>1
  <2>2. CASE ~(m > b)
    <3>1. Kept(l, b, m)
      BY <2>2 DEF FeedOf
    <3>2. \A j \in m + 1 .. b : ~Touches(l[j], x)
      BY <3>1, KeptCreates
    <3> QED BY <3>2, <1>1, <1>2
  <2> QED BY <2>1, <2>2
<1> QED BY <1>1, <1>3, LastDecides

\* A bootstrap is told of every live item.
LEMMA LiveIsFed ==
  ASSUME NEW l, Len(l) \in Nat, DOMAIN l = 1 .. Len(l), NEW b \in 0 .. Len(l),
         NEW x \in Items, Live(l, x)
  PROVE  Touched(l, FeedOf(l, b, 0), x)
<1>1. Touched(l, 1 .. Len(l), x)
  BY DEF Live, Touched, Touches
<1>2. PICK m \in 1 .. Len(l) : Touches(l[m], x) /\ \A j \in 1 .. Len(l) : j > m => ~Touches(l[j], x)
  BY <1>1, LastIn
<1>3. \A j \in m + 1 .. Len(l) : ~Touches(l[j], x)
  BY <1>2
<1>4. Creates(l[m], x)
  BY <1>2, <1>3, LastDecides
<1>5. Kept(l, b, m)
  BY <1>3, <1>4 DEF Kept
<1>6. m \in FeedOf(l, b, 0)
  BY <1>5 DEF FeedOf
<1> QED BY <1>2, <1>6 DEF Touched

-----------------------------------------------------------------------------
(* A log that grows by an event, and a horizon that moves up.              *)

Grown(l, m) ==
  /\ Len(l) \in Nat /\ Len(m) = Len(l) + 1
  /\ DOMAIN l = 1 .. Len(l) /\ DOMAIN m = 1 .. Len(m)
  /\ \A i \in 1 .. Len(l) : m[i] = l[i]

LEMMA GrownKept ==
  ASSUME NEW l, NEW m, Grown(l, m), NEW b \in 0 .. Len(l), NEW i \in 1 .. Len(l)
  PROVE  Kept(m, b, i) <=> Kept(l, b, i)
<1>1. m[i] = l[i] /\ \A j \in i + 1 .. b : m[j] = l[j]
  BY DEF Grown
<1> QED BY <1>1 DEF Kept

LEMMA GrownFeed ==
  ASSUME NEW l, NEW m, Grown(l, m), NEW b \in 0 .. Len(l), NEW a \in 0 .. Len(l)
  PROVE  FeedOf(m, b, a) = FeedOf(l, b, a) \cup {Len(l) + 1}
<1>1. DOMAIN m = DOMAIN l \cup {Len(l) + 1} /\ Len(l) + 1 > a /\ Len(l) + 1 > b
  BY DEF Grown
<1>2. \A i \in DOMAIN l : Kept(m, b, i) <=> Kept(l, b, i)
  BY GrownKept DEF Grown
<1> QED BY <1>1, <1>2 DEF FeedOf

LEMMA GrownTouched ==
  ASSUME NEW l, NEW m, Grown(l, m), NEW I, I \subseteq 1 .. Len(l), NEW x
  PROVE  Touched(m, I, x) <=> Touched(l, I, x)
BY DEF Touched, Grown

LEMMA GrownLive ==
  ASSUME NEW l, NEW m, Grown(l, m), NEW x, ~Touches(m[Len(l) + 1], x)
  PROVE  Live(m, x) <=> Live(l, x)
<1> DEFINE n == Len(l)
<1>1. n \in Nat /\ Len(m) = n + 1 /\ \A i \in 1 .. n : m[i] = l[i]
  BY DEF Grown
<1>2. ~Creates(m[n + 1], x) /\ ~Deletes(m[n + 1], x)
  BY DEF Touches
<1>3. ASSUME Live(m, x)  PROVE Live(l, x)
  <2>1. PICK i \in 1 .. n + 1 : Creates(m[i], x) /\ \A j \in i + 1 .. n + 1 : ~Deletes(m[j], x)
    BY <1>1, <1>3 DEF Live
  <2>2. i \in 1 .. n
    BY <2>1, <1>1, <1>2
  <2>3. \A j \in i + 1 .. n : ~Deletes(l[j], x)
    BY <2>1, <2>2, <1>1
  <2> QED BY <2>1, <2>2, <2>3, <1>1 DEF Live
<1>4. ASSUME Live(l, x)  PROVE Live(m, x)
  <2>1. PICK i \in 1 .. n : Creates(l[i], x) /\ \A j \in i + 1 .. n : ~Deletes(l[j], x)
    BY <1>4 DEF Live
  <2>2. \A j \in i + 1 .. n + 1 : ~Deletes(m[j], x)
    BY <2>1, <1>1, <1>2
  <2> QED BY <2>1, <2>2, <1>1 DEF Live
<1> QED BY <1>3, <1>4

LEMMA GrownSound ==
  ASSUME NEW l, NEW m, Grown(l, m), NEW I, I \subseteq 1 .. Len(l), NEW o, NEW S, Sound(l, o, S, I)
  PROVE  Sound(m, o, S, I \cup {Len(l) + 1})
<1> SUFFICES ASSUME NEW x \in Items, ~Touched(m, I \cup {Len(l) + 1}, x)
             PROVE  Right(m, o, S, x)
  BY DEF Sound
<1>1. ~Touched(m, I, x) /\ ~Touches(m[Len(l) + 1], x)
  BY DEF Touched
<1>2. ~Touched(l, I, x)
  BY <1>1, GrownTouched
<1>3. Right(l, o, S, x)
  BY <1>2 DEF Sound
<1> QED BY <1>3, <1>1, GrownLive DEF Right

LEMMA FeedIn ==
  ASSUME NEW l, DOMAIN l = 1 .. Len(l), NEW b, NEW a
  PROVE  FeedOf(l, b, a) \subseteq 1 .. Len(l)
BY DEF FeedOf

LEMMA GrownGood ==
  ASSUME NEW l, NEW m, Grown(l, m), NEW b \in 0 .. Len(l), NEW o, NEW S,
         NEW c \in Cursor, c.at <= Len(l), Good(l, b, o, S, c)
  PROVE  Good(m, b, o, S, c)
<1> SUFFICES ASSUME c # Start, Answered(c, b)
             PROVE  Sound(m, o, S, FeedOf(m, b, c.at))
  BY DEF Good
<1>1. c.at \in 0 .. Len(l)
  BY DEF Cursor, Grown
<1>2. Sound(l, o, S, FeedOf(l, b, c.at))
  BY DEF Good
<1>3. FeedOf(l, b, c.at) \subseteq 1 .. Len(l)
  BY FeedIn DEF Grown
<1> QED BY <1>1, <1>2, <1>3, GrownFeed, GrownSound

LEMMA GrownPage ==
  ASSUME NEW l, NEW m, Grown(l, m), NEW p, p \subseteq 1 .. Len(l), NEW c, NEW n \in Cursor,
         n.horizon <= Len(l), PageOf(l, p, c, n)
  PROVE  PageOf(m, p, c, n)
<1>1. n.horizon \in 0 .. Len(l)
  BY DEF Cursor, Grown
<1>2. \A i \in p : Kept(m, n.horizon, i) <=> Kept(l, n.horizon, i)
  BY <1>1, GrownKept
<1> QED BY <1>2 DEF PageOf

LEMMA GrownHeld ==
  ASSUME NEW l, NEW m, Grown(l, m), NEW a \in 0 .. Len(l), NEW h \in 0 .. Len(l), NEW x
  PROVE  Held(m, x, a, h) <=> Held(l, x, a, h)
<1>1. \A i \in 1 .. a : m[i] = l[i]
  BY DEF Grown
<1>2. \A i \in 1 .. a : \A j \in i + 1 .. a : m[j] = l[j]
  BY DEF Grown
<1>3. \A j \in a + 1 .. h : m[j] = l[j]
  BY DEF Grown
<1> QED BY <1>1, <1>2, <1>3 DEF Held

LEMMA RaisedFeed ==
  ASSUME NEW l, DOMAIN l \subseteq Nat, NEW b \in Nat, NEW d \in Nat, b <= d, NEW a \in Nat, a >= d
  PROVE  FeedOf(l, d, a) = FeedOf(l, b, a)
BY DEF FeedOf

LEMMA RaisedGood ==
  ASSUME NEW l, DOMAIN l \subseteq Nat, NEW b \in Nat, NEW d \in Nat, b < d, NEW o, NEW S,
         NEW c \in Cursor, c.horizon <= b, Good(l, b, o, S, c)
  PROVE  Good(l, d, o, S, c)
<1> SUFFICES ASSUME c # Start, Answered(c, d)
             PROVE  Sound(l, o, S, FeedOf(l, d, c.at))
  BY DEF Good
<1>1. c.at \in Nat /\ c.horizon \in Nat
  BY DEF Cursor
<1>2. c.at >= d
  BY <1>1 DEF Answered
<1>3. Answered(c, b)
  BY <1>1, <1>2 DEF Answered
<1>4. FeedOf(l, d, c.at) = FeedOf(l, b, c.at)
  BY <1>1, <1>2, RaisedFeed
<1> QED BY <1>3, <1>4 DEF Good

-----------------------------------------------------------------------------
(* Fetching a page and applying its events.                                *)

Fetched(l, b, c, P, n) ==
  /\ n \in Cursor /\ n.horizon = b /\ n.at <= Len(l) /\ P \subseteq 1 .. Len(l)
  /\ \A k \in FeedOf(l, b, c.at) : k <= n.at => k \in P
  /\ FeedOf(l, b, c.at) = P \cup FeedOf(l, b, n.at)
  /\ PageOf(l, P, c, n)

\* A page is an initial part of the feed after the cursor.
LEMMA FetchedPage ==
  ASSUME NEW l, Len(l) \in Nat, DOMAIN l = 1 .. Len(l), NEW b \in 0 .. Len(l),
         NEW c \in Cursor, c.horizon <= b, NEW lim \in Nat,
         NEW P, P = FirstOf(FeedOf(l, b, c.at), lim), P # {},
         NEW n, n = [horizon |-> b, at |-> Greatest(P)]
  PROVE  Fetched(l, b, c, P, n)
<1> DEFINE I == FeedOf(l, b, c.at)
           g == Greatest(P)
<1>1. I \subseteq 1 .. Len(l)
  BY FeedIn
<1>2. P \subseteq I
  BY DEF FirstOf
<1>3. 1 .. Len(l) \subseteq 0 .. Len(l)
  OBVIOUS
<1>4. g \in P /\ \A j \in P : j <= g
  BY <1>1, <1>2, <1>3, GreatestIs
<1>5. g \in I /\ g \in 1 .. Len(l)
  BY <1>1, <1>2, <1>4
<1>6. g > c.at
  BY <1>5 DEF FeedOf
<1>7. c.at \in Nat /\ c.horizon \in Nat
  BY DEF Cursor
<1>8. n \in Cursor /\ n.horizon = b /\ n.at = g
  BY <1>5 DEF Cursor
<1>9. ASSUME NEW k \in I, k <= g  PROVE k \in P
  <2> DEFINE A == {j \in I : j < k}
             B == {j \in I : j < g}
  <2>1. k \in Nat /\ g \in Nat
    BY <1>1, <1>5
  <2>2. A \subseteq B
    BY <2>1, <1>1, <1>9
  <2>3. B \in SUBSET Nat /\ \A s \in B : s <= Len(l)
    BY <1>1
  <2>4. IsFiniteSet(B)
    BY <2>3, FS_BoundedSetOfNaturals
  <2>5. A \in SUBSET B
    BY <2>2
  <2>6. IsFiniteSet(A) /\ Cardinality(A) <= Cardinality(B)
    <3> HIDE DEF A, B
    <3> QED BY <2>4, <2>5, FS_Subset
  <2>7. Cardinality(A) \in Nat /\ Cardinality(B) \in Nat
    <3> HIDE DEF A, B
    <3> QED BY <2>4, <2>6, FS_CardinalityType
  <2>8. Cardinality(B) < lim
    BY <1>4 DEF FirstOf
  <2>9. Cardinality(A) < lim
    <3> HIDE DEF A, B
    <3> QED BY <2>6, <2>7, <2>8
  <2> QED BY <2>9 DEF FirstOf
<1>10. I = P \cup FeedOf(l, b, g)
  <2>1. FeedOf(l, b, g) \subseteq I
    <3> SUFFICES ASSUME NEW k \in FeedOf(l, b, g)  PROVE k \in I
      OBVIOUS
    <3>1. k \in 1 .. Len(l) /\ k > g /\ (k > b \/ Kept(l, b, k))
      BY DEF FeedOf
    <3>2. k > c.at
      <4> HIDE DEF g, I
      <4> QED BY <3>1, <1>5, <1>6, <1>7
    <3> QED BY <3>1, <3>2 DEF FeedOf
  <2>2. ASSUME NEW k \in I, k \notin P  PROVE k \in FeedOf(l, b, g)
    <3>1. ~(k <= g)
      BY <1>9, <2>2
    <3>2. k > g
      BY <3>1, <1>1, <1>5
    <3> QED BY <3>2 DEF FeedOf
  <2> QED BY <1>2, <2>1, <2>2
<1>11. PageOf(l, P, c, n)
  <2>1. n # Start
    BY <1>5, <1>8 DEF Start
  <2>2. c.at <= n.at /\ c.horizon <= n.horizon
    BY <1>5, <1>6, <1>7, <1>8
  <2>3. ASSUME NEW i \in P
        PROVE  /\ c.at < i /\ i <= n.at
               /\ i > n.horizon \/ Kept(l, n.horizon, i)
               /\ \A k \in i + 1 .. n.at : k > n.horizon => k \in P
    <3>1. i \in I /\ i \in 1 .. Len(l) /\ i <= n.at
      BY <1>1, <1>2, <1>4, <1>8
    <3>2. c.at < i /\ (i > b \/ Kept(l, b, i))
      BY <3>1, <1>7 DEF FeedOf
    <3>3. ASSUME NEW k \in i + 1 .. n.at, k > n.horizon  PROVE k \in P
      <4>1. k \in 1 .. Len(l) /\ k > c.at /\ k > b /\ k <= g
        BY <3>1, <3>2, <3>3, <1>5, <1>7, <1>8
      <4>2. k \in I
        BY <4>1 DEF FeedOf
      <4> QED BY <4>1, <4>2, <1>9
    <3> QED BY <3>1, <3>2, <3>3, <1>8
  <2> QED BY <2>1, <2>2, <2>3 DEF PageOf
<1>12. n.at <= Len(l) /\ P \subseteq 1 .. Len(l)
  BY <1>1, <1>2, <1>5, <1>8
<1>13. \A k \in FeedOf(l, b, c.at) : k <= n.at => k \in P
  BY <1>8, <1>9
<1>14. FeedOf(l, b, c.at) = P \cup FeedOf(l, b, n.at)
  BY <1>8, <1>10
<1> QED BY <1>8, <1>11, <1>12, <1>13, <1>14 DEF Fetched

\* The events of a page are in the feed of every cursor behind it that the
\* feed still answers.
LEMMA PageFed ==
  ASSUME NEW l, DOMAIN l = 1 .. Len(l), NEW b \in Nat, NEW p, p \subseteq 1 .. Len(l),
         NEW d \in Cursor, NEW n \in Cursor, n.horizon <= b, PageOf(l, p, d, n),
         NEW c \in Cursor, c.at <= d.at, c.horizon <= d.horizon, Answered(c, b)
  PROVE  p \subseteq FeedOf(l, b, c.at)
<1> SUFFICES ASSUME NEW i \in p  PROVE i \in FeedOf(l, b, c.at)
  OBVIOUS
<1>1. /\ d.at < i /\ d.horizon <= n.horizon
      /\ i > n.horizon \/ Kept(l, n.horizon, i)
  BY DEF PageOf
<1>2. /\ c.at \in Nat /\ c.horizon \in Nat /\ d.at \in Nat /\ d.horizon \in Nat /\ n.horizon \in Nat
      /\ i \in Nat /\ i \in DOMAIN l
  BY DEF Cursor
<1>3. i > c.at
  BY <1>1, <1>2
<1>4. i > b \/ Kept(l, b, i)
  <2>1. CASE c.at >= b
    BY <2>1, <1>2, <1>3
  <2>2. CASE c.horizon = b
    <3>1. n.horizon = b
      BY <2>2, <1>1, <1>2
    <3> QED BY <3>1, <1>1
  <2> QED BY <2>1, <2>2 DEF Answered
<1> QED BY <1>2, <1>3, <1>4 DEF FeedOf

\* What changes only items that I touches stays right about the others.
LEMMA Untouched ==
  ASSUME NEW l, NEW o, NEW S, NEW T, NEW I, Sound(l, o, S, I),
         \A x \in Items : ~Touched(l, I, x) => (x \in T <=> x \in S)
  PROVE  Sound(l, o, T, I)
BY DEF Sound, Right

\* The last event of page and feed about x decides whether it is live.
LEMMA PageDecides ==
  ASSUME NEW l, Len(l) \in Nat, DOMAIN l = 1 .. Len(l), NEW b \in 0 .. Len(l),
         NEW p, p \subseteq 1 .. Len(l), NEW c, NEW n \in Cursor, n.horizon <= b, Answered(n, b),
         PageOf(l, p, c, n), NEW i \in p, NEW x, Touches(l[i], x),
         ~Touched(l, (p \ {i}) \cup FeedOf(l, b, n.at), x)
  PROVE  Live(l, x) <=> Creates(l[i], x)
<1>1. n.at \in Nat /\ n.horizon \in Nat /\ i \in 1 .. Len(l)
  BY DEF Cursor
<1>2. ASSUME NEW j \in i + 1 .. Len(l)  PROVE ~Touches(l[j], x)
  <2>1. j \in 1 .. Len(l) /\ j # i
    BY <1>1
  <2>2. CASE j <= n.horizon
    <3>1. Kept(l, n.horizon, i)
      BY <1>1, <2>2 DEF PageOf
    <3>2. j \in i + 1 .. n.horizon
      BY <1>1, <2>2
    <3> QED BY <3>1, <3>2, KeptCreates
  <2>3. CASE j > n.horizon /\ j <= n.at
    <3>1. j \in i + 1 .. n.at
      BY <1>1, <2>3
    <3>2. j \in p \ {i}
      BY <2>1, <2>3, <3>1 DEF PageOf
    <3> QED BY <3>2 DEF Touched
  <2>4. CASE j > n.horizon /\ j > n.at
    <3>1. j > b
      BY <1>1, <2>1, <2>4 DEF Answered
    <3>2. j \in FeedOf(l, b, n.at)
      BY <2>1, <2>4, <3>1 DEF FeedOf
    <3> QED BY <3>2 DEF Touched
  <2> QED BY <1>1, <2>1, <2>2, <2>3, <2>4
<1> QED BY <1>1, <1>2, LastDecides

\* Applying the first event of a page makes S right about what it touches.
LEMMA AppliedSound ==
  ASSUME NEW l, Len(l) \in Nat, DOMAIN l = 1 .. Len(l), NEW b \in 0 .. Len(l),
         NEW p, p \subseteq 1 .. Len(l), NEW c, NEW n \in Cursor, n.horizon <= b, Answered(n, b),
         PageOf(l, p, c, n), NEW i \in p, NEW o, NEW S, NEW T,
         Sound(l, o, S, p \cup FeedOf(l, b, n.at)),
         \A x \in Items : IF Touches(l[i], x) THEN x \in T <=> Creates(l[i], x) ELSE x \in T <=> x \in S
  PROVE  Sound(l, o, T, (p \ {i}) \cup FeedOf(l, b, n.at))
<1> SUFFICES ASSUME NEW x \in Items, ~Touched(l, (p \ {i}) \cup FeedOf(l, b, n.at), x)
             PROVE  Right(l, o, T, x)
  BY DEF Sound
<1>1. CASE Touches(l[i], x)
  BY <1>1, PageDecides DEF Right
<1>2. CASE ~Touches(l[i], x)
  <2>1. ~Touched(l, p \cup FeedOf(l, b, n.at), x)
    BY <1>2 DEF Touched
  <2> QED BY <1>2, <2>1 DEF Sound, Right
<1> QED BY <1>1, <1>2

-----------------------------------------------------------------------------
(* What a syncer without a store holds.                                    *)

\* A page leaves alone the items that it does not touch.
LEMMA FetchedHeld ==
  ASSUME NEW l, Len(l) \in Nat, DOMAIN l = 1 .. Len(l), NEW b \in 0 .. Len(l),
         NEW c \in Cursor, c.horizon <= b, NEW n \in Cursor, n.horizon = b, n.at <= Len(l),
         c.at <= n.at, c = Start \/ Answered(c, b),
         NEW P, \A k \in FeedOf(l, b, c.at) : k <= n.at => k \in P,
         NEW x \in Items, ~Touched(l, P, x)
  PROVE  Held(l, x, c.at, c.horizon) <=> Held(l, x, n.at, n.horizon)
<1> DEFINE a == c.at
           h == c.horizon
           z == n.at
<1>1. a \in Nat /\ h \in Nat /\ z \in Nat /\ a <= z /\ h <= b /\ z <= Len(l) /\ b \in Nat
  BY DEF Cursor
<1>2. ASSUME NEW k \in a + 1 .. z, k > b \/ Kept(l, b, k)  PROVE ~Touches(l[k], x)
  <2>1. k \in DOMAIN l /\ k > c.at /\ k <= n.at
    BY <1>1
  <2>2. k \in FeedOf(l, b, c.at)
    BY <2>1, <1>2 DEF FeedOf
  <2> QED BY <2>1, <2>2 DEF Touched
<1>3. ASSUME Held(l, x, a, h)  PROVE Held(l, x, z, b)
  <2>1. PICK i \in 1 .. a : /\ Creates(l[i], x)
                            /\ \A j \in i + 1 .. a : ~Deletes(l[j], x)
                            /\ \A j \in a + 1 .. h : ~Touches(l[j], x)
    BY <1>3 DEF Held
  <2>2. a # 0
    BY <1>1, <2>1
  <2>3. a >= b \/ h = b
    BY <2>2 DEF Start, Answered
  <2>4. \A j \in a + 1 .. z : ~Touches(l[j], x)
    <3> SUFFICES ASSUME NEW j \in a + 1 .. z  PROVE ~Touches(l[j], x)
      OBVIOUS
    <3>1. CASE j > b
      BY <3>1, <1>2
    <3>2. CASE ~(j > b)
      <4>1. j \in a + 1 .. h
        BY <3>2, <2>3, <1>1
      <4> QED BY <4>1, <2>1
    <3> QED BY <3>1, <3>2
  <2>5. \A j \in z + 1 .. b : ~Touches(l[j], x)
    <3> SUFFICES ASSUME NEW j \in z + 1 .. b  PROVE ~Touches(l[j], x)
      OBVIOUS
    <3>1. j \in a + 1 .. h
      BY <2>3, <1>1
    <3> QED BY <3>1, <2>1
  <2>6. i \in 1 .. z
    BY <1>1
  <2>7. \A j \in i + 1 .. z : ~Deletes(l[j], x)
    <3> SUFFICES ASSUME NEW j \in i + 1 .. z  PROVE ~Deletes(l[j], x)
      OBVIOUS
    <3>1. CASE j <= a
      BY <3>1, <2>1, <1>1
    <3>2. CASE j > a
      <4>1. j \in a + 1 .. z
        BY <3>2, <1>1
      <4> QED BY <4>1, <2>4 DEF Touches
    <3> QED BY <3>1, <3>2, <1>1
  <2> QED BY <2>1, <2>5, <2>6, <2>7 DEF Held
<1>4. ASSUME Held(l, x, z, b)  PROVE Held(l, x, a, h)
  <2>1. PICK i \in 1 .. z : /\ Creates(l[i], x)
                            /\ \A j \in i + 1 .. z : ~Deletes(l[j], x)
                            /\ \A j \in z + 1 .. b : ~Touches(l[j], x)
    BY <1>4 DEF Held
  <2>2. ~Touched(l, a + 1 .. z, x)
    <3> SUFFICES ASSUME Touched(l, a + 1 .. z, x)  PROVE FALSE
      OBVIOUS
    <3>1. a + 1 .. z \subseteq 1 .. z
      BY <1>1
    <3>2. PICK k \in a + 1 .. z : /\ Touches(l[k], x)
                                  /\ \A j \in a + 1 .. z : j > k => ~Touches(l[j], x)
      <4> DEFINE R == a + 1 .. z
      <4>1. R \subseteq 1 .. z /\ z \in Nat /\ Touched(l, R, x)
        BY <1>1, <3>1
      <4> HIDE DEF R, z
      <4>2. \E k \in R : Touches(l[k], x) /\ \A j \in R : j > k => ~Touches(l[j], x)
        BY <4>1, LastIn
      <4> QED BY <4>2 DEF R
    <3>3. Creates(l[k], x)
      <4>1. CASE k < i
        <5>1. i \in a + 1 .. z /\ i > k
          BY <4>1, <1>1
        <5> QED BY <5>1, <3>2, <2>1 DEF Touches
      <4>2. CASE k = i
        BY <4>2, <2>1
      <4>3. CASE k > i
        <5>1. k \in i + 1 .. z
          BY <4>3, <1>1
        <5> QED BY <5>1, <3>2, <2>1 DEF Touches
      <4> QED BY <4>1, <4>2, <4>3, <1>1
    <3>4. \A j \in k + 1 .. b : ~Touches(l[j], x)
      <4> SUFFICES ASSUME NEW j \in k + 1 .. b  PROVE ~Touches(l[j], x)
        OBVIOUS
      <4>1. CASE j <= z
        <5>1. j \in a + 1 .. z /\ j > k
          BY <4>1, <1>1
        <5> QED BY <5>1, <3>2
      <4>2. CASE j > z
        <5>1. j \in z + 1 .. b
          BY <4>2, <1>1
        <5> QED BY <5>1, <2>1
      <4> QED BY <4>1, <4>2, <1>1
    <3>5. Kept(l, b, k)
      BY <3>3, <3>4 DEF Kept
    <3> QED BY <3>2, <3>5, <1>2
  <2>3. \A j \in a + 1 .. z : ~Touches(l[j], x)
    BY <2>2 DEF Touched
  <2>4. i \in 1 .. a
    <3>1. ~(i \in a + 1 .. z)
      BY <2>1, <2>3 DEF Touches
    <3>2. i \in Nat /\ i >= 1 /\ i <= z
      BY <1>1, <2>1
    <3> HIDE DEF a, z
    <3> QED BY <3>1, <3>2, <1>1
  <2>5. \A j \in i + 1 .. a : ~Deletes(l[j], x)
    <3> SUFFICES ASSUME NEW j \in i + 1 .. a  PROVE ~Deletes(l[j], x)
      OBVIOUS
    <3>1. j \in i + 1 .. z
      BY <1>1
    <3> QED BY <3>1, <2>1
  <2>6. \A j \in a + 1 .. h : ~Touches(l[j], x)
    <3> SUFFICES ASSUME NEW j \in a + 1 .. h  PROVE ~Touches(l[j], x)
      OBVIOUS
    <3>1. j \in a + 1 .. z \/ j \in z + 1 .. b
      BY <1>1
    <3> QED BY <3>1, <2>1, <2>3
  <2> QED BY <2>1, <2>4, <2>5, <2>6 DEF Held
<1> QED BY <1>3, <1>4

\* The last event of a page about x decides whether it is held.
LEMMA AppliedHeld ==
  ASSUME NEW l, NEW p, p \subseteq Nat \ {0}, NEW c, NEW n \in Cursor, PageOf(l, p, c, n),
         NEW i \in p, NEW x, Touches(l[i], x), ~Touched(l, p \ {i}, x)
  PROVE  Held(l, x, n.at, n.horizon) <=> Creates(l[i], x)
<1> DEFINE z == n.at
           h == n.horizon
<1>1. z \in Nat /\ h \in Nat /\ i \in Nat /\ i > 0 /\ i <= z
  BY DEF Cursor, PageOf
<1>2. ASSUME NEW k \in i + 1 .. z, k > h  PROVE ~Touches(l[k], x)
  <2>1. k \in p \ {i}
    BY <1>1, <1>2 DEF PageOf
  <2> QED BY <2>1 DEF Touched
<1>3. ASSUME Creates(l[i], x)  PROVE Held(l, x, z, h)
  <2>1. \A j \in i + 1 .. h : ~Touches(l[j], x)
    <3>1. CASE i > h
      BY <3>1, <1>1
    <3>2. CASE ~(i > h)
      <4>1. Kept(l, h, i)
        BY <3>2 DEF PageOf
      <4> QED BY <4>1, KeptCreates
    <3> QED BY <3>1, <3>2
  <2>2. \A j \in i + 1 .. z : ~Deletes(l[j], x)
    <3> SUFFICES ASSUME NEW j \in i + 1 .. z  PROVE ~Deletes(l[j], x)
      OBVIOUS
    <3>1. CASE j > h
      BY <3>1, <1>2 DEF Touches
    <3>2. CASE ~(j > h)
      <4>1. j \in i + 1 .. h
        BY <3>2, <1>1
      <4> QED BY <4>1, <2>1 DEF Touches
    <3> QED BY <3>1, <3>2
  <2>3. \A j \in z + 1 .. h : ~Touches(l[j], x)
    <3> SUFFICES ASSUME NEW j \in z + 1 .. h  PROVE ~Touches(l[j], x)
      OBVIOUS
    <3>1. j \in i + 1 .. h
      BY <1>1
    <3> QED BY <3>1, <2>1
  <2>4. i \in 1 .. z
    BY <1>1
  <2> QED BY <1>3, <2>2, <2>3, <2>4 DEF Held
<1>4. ASSUME ~Creates(l[i], x)  PROVE ~Held(l, x, z, h)
  <2>1. Deletes(l[i], x)
    BY <1>4 DEF Touches
  <2>2. i > h
    BY <1>4, KeptCreates DEF PageOf
  <2>3. ASSUME NEW k \in 1 .. z, Creates(l[k], x), \A j \in k + 1 .. z : ~Deletes(l[j], x)
        PROVE  FALSE
    <3>1. CASE k < i
      <4>1. i \in k + 1 .. z
        BY <3>1, <1>1
      <4> QED BY <4>1, <2>1, <2>3
    <3>2. CASE k = i
      BY <3>2, <1>4, <2>3
    <3>3. CASE k > i
      <4>1. k \in i + 1 .. z /\ k > h
        BY <3>3, <1>1, <2>2
      <4> QED BY <4>1, <1>2, <2>3 DEF Touches
    <3> QED BY <3>1, <3>2, <3>3, <1>1
  <2> QED BY <2>3 DEF Held
<1> QED BY <1>3, <1>4

-----------------------------------------------------------------------------
(* The syncer's steps preserve the invariant.                              *)

LEMMA Bounds == SaveStrikes \in Nat /\ SaveStrikes > 0 /\ MaxFaults \in Nat
BY RegistryConstantsOK DEF RegistryConstantsOK

LEMMA LogFacts ==
  ASSUME TypeOK
  PROVE  /\ Len(log) \in Nat /\ DOMAIN log = 1 .. Len(log)
         /\ base \in 0 .. Len(log) /\ base \in Nat
         /\ page \subseteq 1 .. Len(log) /\ page \subseteq Nat
         /\ \A i \in 1 .. Len(log) : log[i] \in Event
BY DEF TypeOK

LEMMA ModelFeed ==
  ASSUME TypeOK, NEW c \in Cursor
  PROVE  /\ Feed(c) = FeedOf(log, base, c.at)
         /\ Expired(c) <=> ~(c = Start \/ Answered(c, base))
<1>1. Feed(c) = FeedOf(log, base, c.at)
  BY DEF Feed, FeedOf, Survives, Kept
<1>2. Expired(c) <=> ~(c = Start \/ Answered(c, base))
  BY LogFacts DEF Expired, Answered, Cursor
<1> QED BY <1>1, <1>2

LEMMA ModelTruth == Truth = {x \in Items : Live(log, x)}
BY DEF Truth, TruthAt, Live

LEMMA StartFacts == Start \in Cursor /\ Start.at = 0 /\ Start.horizon = 0
BY DEF Start, Cursor

LEMMA StartGood ==
  ASSUME NEW l, NEW b, NEW o, NEW S
  PROVE  Good(l, b, o, S, Start)
BY DEF Good

\* A cursor that the feed no longer answers says nothing.
LEMMA ExpiredGood ==
  ASSUME TypeOK, NEW c \in Cursor, Expired(c), NEW o, NEW S
  PROVE  Good(log, base, o, S, c)
BY ModelFeed DEF Good

LEMMA InitSync == Init => SyncInv
<1> SUFFICES ASSUME Init  PROVE SyncInv
  OBVIOUS
<1> USE DEF Init
<1>1. log \in Seq(Event) /\ Len(log) = 0
  OBVIOUS
<1>2. TypeOK
  <2>1. base \in 0 .. Len(log) /\ saveFailures \in 0 .. SaveStrikes /\ saveFailures < SaveStrikes
        /\ faults \in 0 .. MaxFaults
    BY <1>1, Bounds
  <2>2. saved \in Cursor /\ cur \in Cursor /\ next \in Cursor
    BY StartFacts
  <2>3. mem \subseteq Items /\ disk \subseteq Items /\ orphans \subseteq Items /\ page \subseteq DOMAIN log
    OBVIOUS
  <2>4. /\ boot \in BOOLEAN /\ more \in BOOLEAN /\ failed \in BOOLEAN
        /\ pc \in PcValues /\ rewind \in {"no", "underway", "torn"}
    BY DEF PcValues
  <2>5. deployment \in Deployments
    OBVIOUS
  <2> HIDE DEF Init
  <2> QED BY <1>1, <2>1, <2>2, <2>3, <2>4, <2>5 DEF TypeOK
<1>3. CursorsIssued
  BY <1>1, StartFacts DEF CursorsIssued
<1>4. SavedBehind /\ PageKnown /\ HalfRemoved /\ PageFollows /\ CursorFollows
  BY DEF SavedBehind, PageKnown, HalfRemoved, PageFollows, CursorFollows, Running, InPage
<1>5. RewindEnds /\ WithoutStore /\ StartsEmpty
  BY DEF RewindEnds, WithoutStore, StartsEmpty
<1>6. StoreFollows
  BY StartGood DEF StoreFollows
<1> QED BY <1>2, <1>3, <1>4, <1>5, <1>6 DEF SyncInv

LEMMA HydrateSync ==
  ASSUME SyncInv, NEW F \in SUBSET Indexes, Hydrate(F)
  PROVE  SyncInv'
<1> USE DEF SyncInv
<1>1. Stored' = Stored /\ log' = log /\ base' = base /\ disk' = disk /\ saved' = saved
      /\ orphans' = orphans /\ next' = next /\ page' = page /\ failed' = failed
      /\ saveFailures' = saveFailures /\ pc = "start" /\ pc' = "fetch"
  BY DEF Hydrate, Stored, feed
<1>2. mem' \subseteq disk /\ (F = {} => mem' = disk)
  BY DEF Hydrate
<1>3. (F = {} /\ cur' = saved) \/ (F # {} /\ cur' = Start /\ Stored)
  BY DEF Hydrate, StoreFault
<1>4. cur' \in Cursor /\ cur'.horizon <= base /\ cur'.at <= Len(log)
  BY <1>3, StartFacts, LogFacts DEF TypeOK, CursorsIssued
<1>5. TypeOK'
  <2>1. faults' \in 0 .. MaxFaults
    BY Bounds DEF Hydrate, StoreFault, Fault, TypeOK
  <2>2. rewind' \in {"no", "underway", "torn"} /\ boot' \in BOOLEAN /\ more' = more /\ deployment' = deployment
    BY DEF Hydrate, TypeOK, feed
  <2> QED BY <1>1, <1>2, <1>4, <2>1, <2>2 DEF TypeOK, PcValues
<1>6. CursorsIssued'
  BY <1>1, <1>4 DEF CursorsIssued
<1>7. rewind' = IF cur' # saved THEN "underway" ELSE rewind
  BY DEF Hydrate
<1>8. SavedBehind'
  <2>1. CASE cur' = saved
    BY <2>1, <1>1, <1>4 DEF SavedBehind, Cursor
  <2>2. CASE cur' # saved
    BY <2>2, <1>7 DEF SavedBehind
  <2> QED BY <2>1, <2>2
<1>9. (PageKnown /\ RewindEnds /\ HalfRemoved /\ PageFollows)'
  BY <1>1 DEF PageKnown, RewindEnds, HalfRemoved, PageFollows, InPage
<1>10. WithoutStore' /\ StartsEmpty'
  BY <1>1, <1>2 DEF WithoutStore, StartsEmpty
<1>11. StoreFollows'
  BY <1>1, <1>7 DEF StoreFollows
<1>12. CursorFollows'
  <2>1. CASE cur' = Start
    BY <2>1, StartGood DEF CursorFollows
  <2>2. CASE cur' # Start
    <3>1. F = {} /\ cur' = saved /\ mem' = disk /\ rewind' = rewind
      BY <2>2, <1>2, <1>3, <1>7
    <3>2. Stored
      BY <2>2, <3>1, <1>1 DEF WithoutStore
    <3>3. rewind' # "torn" => rewind = "no"
      BY <3>1, <1>1 DEF RewindEnds, TypeOK
    <3> QED BY <3>1, <3>2, <3>3, <1>1 DEF CursorFollows, StoreFollows
  <2> QED BY <2>1, <2>2
<1> QED BY <1>5, <1>6, <1>8, <1>9, <1>10, <1>11, <1>12

LEMMA FaultTypes ==
  ASSUME TypeOK, Fault \/ faults' = faults
  PROVE  faults' \in 0 .. MaxFaults
BY Bounds DEF TypeOK, Fault

LEMMA LoadCursorFailsSync ==
  ASSUME SyncInv, LoadCursorFails
  PROVE  SyncInv'
<1> USE DEF SyncInv
<1>1. Stored' = Stored /\ log' = log /\ base' = base /\ disk' = disk /\ saved' = saved
      /\ orphans' = orphans /\ next' = next /\ page' = page /\ failed' = failed /\ cur' = cur
      /\ saveFailures' = saveFailures /\ pc = "start" /\ pc' = "stopped" /\ mem' = disk /\ rewind' = rewind
      /\ boot' = boot /\ more' = more /\ deployment' = deployment
  BY DEF LoadCursorFails, Stored, feed, loop, history
<1>2. faults' \in 0 .. MaxFaults
  BY FaultTypes DEF LoadCursorFails, StoreFault
<1>3. TypeOK'
  BY <1>1, <1>2 DEF TypeOK, PcValues
<1>4. CursorsIssued' /\ StoreFollows' /\ StartsEmpty' /\ WithoutStore'
  BY <1>1 DEF CursorsIssued, StoreFollows, StartsEmpty, WithoutStore
<1>5. (SavedBehind /\ PageKnown /\ RewindEnds /\ HalfRemoved /\ PageFollows /\ CursorFollows)'
  BY <1>1 DEF SavedBehind, PageKnown, RewindEnds, HalfRemoved, PageFollows, CursorFollows, Running, InPage
<1> QED BY <1>3, <1>4, <1>5

LEMMA CrashSync ==
  ASSUME SyncInv, Crash
  PROVE  SyncInv'
<1> USE DEF SyncInv
<1>1. Stored' = Stored /\ log' = log /\ base' = base /\ disk' = disk /\ deployment' = deployment
      /\ orphans' = orphans /\ next' = Start /\ page' = {} /\ failed' = FALSE /\ cur' = Start
      /\ saveFailures' = 0 /\ pc' = "start" /\ mem' = {} /\ boot' = FALSE /\ more' = FALSE
      /\ saved' = (IF Stored THEN saved ELSE Start)
      /\ rewind' = (IF rewind = "underway" THEN "torn" ELSE rewind)
  BY DEF Crash, Stored, feed
<1>2. faults' \in 0 .. MaxFaults
  BY FaultTypes DEF Crash
<1>3. TypeOK'
  <2>1. saveFailures' \in 0 .. SaveStrikes /\ saveFailures' < SaveStrikes
    BY <1>1, Bounds
  <2> QED BY <1>1, <1>2, <2>1, StartFacts DEF TypeOK, PcValues
<1>4. CursorsIssued'
  BY <1>1, StartFacts, LogFacts DEF CursorsIssued
<1>5. StoreFollows' /\ StartsEmpty' /\ WithoutStore' /\ RewindEnds'
  BY <1>1 DEF StoreFollows, StartsEmpty, WithoutStore, RewindEnds
<1>6. (SavedBehind /\ PageKnown /\ HalfRemoved /\ PageFollows /\ CursorFollows)'
  BY <1>1 DEF SavedBehind, PageKnown, HalfRemoved, PageFollows, CursorFollows, Running, InPage
<1> QED BY <1>3, <1>4, <1>5, <1>6

LEMMA ClearFailsSync ==
  ASSUME SyncInv, NEW F \in SUBSET Indexes, ClearFails(F)
  PROVE  SyncInv'
<1> USE DEF SyncInv
<1>1. Stored' = Stored /\ log' = log /\ base' = base /\ saved' = saved /\ deployment' = deployment
      /\ orphans' = orphans /\ next' = next /\ page' = page /\ failed' = failed /\ cur' = cur
      /\ saveFailures' = saveFailures /\ pc = "fetch" /\ pc' = pc /\ mem' = {} /\ rewind' = rewind
      /\ boot' = boot /\ more' = more
  BY DEF ClearFails, Stored, feed, loop, history
<1>2. Stored /\ Expired(cur) /\ disk' \subseteq disk
  BY DEF ClearFails, StoreFault
<1>3. faults' \in 0 .. MaxFaults
  BY FaultTypes DEF ClearFails, StoreFault
<1>4. TypeOK'
  BY <1>1, <1>2, <1>3 DEF TypeOK, PcValues
<1>5. (CursorsIssued /\ SavedBehind)'
  BY <1>1 DEF CursorsIssued, SavedBehind, Running, InPage
<1>6. (StartsEmpty /\ WithoutStore /\ RewindEnds /\ PageKnown /\ HalfRemoved /\ PageFollows)'
  BY <1>1, <1>2 DEF StartsEmpty, WithoutStore, RewindEnds, PageKnown, HalfRemoved, PageFollows, InPage
<1>7. \A S : Good(log, base, orphans, S, cur)
  BY <1>2, ExpiredGood DEF TypeOK
<1>8. CursorFollows'
  BY <1>1, <1>7 DEF CursorFollows
<1>9. StoreFollows'
  <2> SUFFICES ASSUME rewind = "no"  PROVE Good(log, base, orphans, disk', saved)
    BY <1>1 DEF StoreFollows
  <2>1. CASE saved = Start \/ ~Answered(saved, base)
    BY <2>1 DEF Good
  <2>2. CASE saved # Start /\ Answered(saved, base)
    <3>1. cur # Start /\ saved.at <= cur.at /\ saved.horizon <= cur.horizon
      BY <2>2, <1>1 DEF SavedBehind, Running
    <3>2. cur.horizon <= base /\ ~Answered(cur, base)
      BY <1>2, ModelFeed DEF TypeOK, CursorsIssued
    <3>3. saved \in Cursor /\ cur \in Cursor /\ base \in Nat
      BY LogFacts DEF TypeOK
    <3> QED BY <2>2, <3>1, <3>2, <3>3 DEF Answered, Cursor
  <2> QED BY <2>1, <2>2
<1> QED BY <1>4, <1>5, <1>6, <1>8, <1>9

LEMMA RebootstrapSync ==
  ASSUME SyncInv, Rebootstrap
  PROVE  SyncInv'
<1> USE DEF SyncInv
<1>1. Stored' = Stored /\ log' = log /\ base' = base /\ deployment' = deployment /\ more' = more
      /\ orphans' = {} /\ next' = next /\ page' = page /\ failed' = failed /\ cur' = Start
      /\ saveFailures' = saveFailures /\ pc = "fetch" /\ pc' = pc /\ mem' = {} /\ disk' = {} /\ boot' = TRUE
      /\ rewind' = (IF saved' = Start \/ Expired(saved) THEN "no" ELSE "underway")
  BY DEF Rebootstrap, Stored, feed
<1>2. saved' = Start \/ saved' = saved
  BY DEF Rebootstrap
<1>3. faults' \in 0 .. MaxFaults
  BY FaultTypes DEF Rebootstrap, StoreFault
<1>4. TypeOK'
  BY <1>1, <1>2, <1>3, StartFacts DEF TypeOK, PcValues
<1>5. CursorsIssued'
  BY <1>1, <1>2, StartFacts, LogFacts DEF CursorsIssued
<1>6. (StartsEmpty /\ WithoutStore /\ RewindEnds /\ PageKnown /\ HalfRemoved /\ PageFollows)'
  BY <1>1 DEF StartsEmpty, WithoutStore, RewindEnds, PageKnown, HalfRemoved, PageFollows, InPage
<1>7. rewind' = "no" => saved' = Start \/ ~Answered(saved', base)
  BY <1>1, <1>2, ModelFeed DEF TypeOK
<1>8. SavedBehind'
  BY <1>1, <1>7 DEF SavedBehind
<1>9. StoreFollows'
  BY <1>1, <1>7 DEF StoreFollows, Good
<1>10. CursorFollows'
  BY <1>1, StartGood DEF CursorFollows
<1> QED BY <1>4, <1>5, <1>6, <1>8, <1>9, <1>10

LEMMA PublishSync ==
  ASSUME SyncInv, NEW e \in Event, Publish(e)
  PROVE  SyncInv'
<1> USE DEF SyncInv
<1>1. Stored' = Stored /\ base' = base /\ disk' = disk /\ saved' = saved /\ deployment' = deployment
      /\ orphans' = orphans /\ next' = next /\ page' = page /\ failed' = failed /\ cur' = cur
      /\ saveFailures' = saveFailures /\ pc' = pc /\ mem' = mem /\ rewind' = rewind
      /\ boot' = boot /\ more' = more /\ faults' = faults /\ log' = Append(log, e)
  BY DEF Publish, Stored, loop, history
<1>2. log \in Seq(Event) /\ log' \in Seq(Event) /\ Grown(log, log') /\ log' # <<>>
  BY <1>1 DEF TypeOK, Grown
<1>3. base \in 0 .. Len(log) /\ Len(log) \in Nat /\ Len(log') = Len(log) + 1
      /\ DOMAIN log \subseteq DOMAIN log' /\ page \subseteq 1 .. Len(log)
  BY <1>2, LogFacts DEF Grown
<1>4. TypeOK'
  BY <1>1, <1>2, <1>3 DEF TypeOK
<1>5. CursorsIssued'
  BY <1>1, <1>3 DEF CursorsIssued, TypeOK, Cursor
<1>6. (SavedBehind /\ RewindEnds /\ WithoutStore /\ StartsEmpty)'
  BY <1>1, <1>2 DEF SavedBehind, RewindEnds, WithoutStore, StartsEmpty, Running, InPage
<1>7. saved \in Cursor /\ cur \in Cursor /\ next \in Cursor /\ next.horizon <= Len(log) /\ next.horizon \in Nat
  BY <1>3 DEF TypeOK, CursorsIssued, Cursor
<1>8. PageKnown'
  BY <1>1, <1>2, <1>3, <1>7, GrownPage DEF PageKnown, InPage
<1>9. HalfRemoved'
  <2> SUFFICES ASSUME pc = "cascade"  PROVE HalfRemoved'
    BY <1>1 DEF HalfRemoved
  <2>1. page # {} /\ page \subseteq Nat
    BY LogFacts DEF HalfRemoved
  <2>2. Least(page) \in 1 .. Len(log)
    BY <2>1, <1>3, LeastIs
  <2>3. log'[Least(page)] = log[Least(page)]
    BY <2>2, <1>2 DEF Grown
  <2> QED BY <2>3, <1>1 DEF HalfRemoved
<1>10. \A S : Good(log, base, orphans, S, saved) => Good(log', base, orphans, S, saved)
  BY <1>2, <1>3, <1>7, GrownGood DEF CursorsIssued
<1>11. \A S : Good(log, base, orphans, S, cur) => Good(log', base, orphans, S, cur)
  BY <1>2, <1>3, <1>7, GrownGood DEF CursorsIssued
<1>12. StoreFollows' /\ CursorFollows'
  BY <1>1, <1>10, <1>11 DEF StoreFollows, CursorFollows, Running, InPage
<1>13. PageFollows'
  <2> DEFINE I == page \cup FeedOf(log, base, next.at)
             J == page \cup FeedOf(log', base, next.at)
  <2>1. next.at \in 0 .. Len(log)
    BY <1>3, <1>7 DEF CursorsIssued, Cursor
  <2>2. J = I \cup {Len(log) + 1}
    BY <2>1, <1>2, <1>3, GrownFeed
  <2>3. I \subseteq 1 .. Len(log)
    BY <1>3, LogFacts, FeedIn
  <2>4. \A S : Sound(log, orphans, S, I) => Sound(log', orphans, S, J)
    <3> HIDE DEF I, J
    <3> QED BY <2>2, <2>3, <1>2, GrownSound
  <2> QED BY <2>4, <1>1 DEF PageFollows, InPage
<1> QED BY <1>4, <1>5, <1>6, <1>8, <1>9, <1>12, <1>13

LEMMA CompactSync ==
  ASSUME SyncInv, NEW b \in base + 1 .. Len(log), Compact(b)
  PROVE  SyncInv'
<1> USE DEF SyncInv
<1>1. Stored' = Stored /\ base' = b /\ disk' = disk /\ saved' = saved /\ deployment' = deployment
      /\ orphans' = orphans /\ next' = next /\ page' = page /\ failed' = failed /\ cur' = cur
      /\ saveFailures' = saveFailures /\ pc' = pc /\ mem' = mem /\ rewind' = rewind
      /\ boot' = boot /\ more' = more /\ faults' = faults /\ log' = log
  BY DEF Compact, Stored, loop, history
<1>2. base \in Nat /\ b \in Nat /\ base < b /\ b \in 0 .. Len(log) /\ Len(log) \in Nat /\ DOMAIN log \subseteq Nat
  BY LogFacts
<1>3. saved \in Cursor /\ cur \in Cursor /\ next \in Cursor
  BY DEF TypeOK
<1>4. TypeOK'
  BY <1>1, <1>2 DEF TypeOK
<1>5. CursorsIssued'
  BY <1>1, <1>2, <1>3 DEF CursorsIssued, Cursor
<1>6. (RewindEnds /\ WithoutStore /\ StartsEmpty /\ PageKnown /\ HalfRemoved)'
  BY <1>1 DEF RewindEnds, WithoutStore, StartsEmpty, PageKnown, HalfRemoved, InPage
<1>7. ASSUME NEW c \in Cursor, c.horizon <= base, Answered(c, b)  PROVE c.at >= b /\ Answered(c, base)
  BY <1>2, <1>7 DEF Answered, Cursor
<1>8. SavedBehind'
  BY <1>1, <1>3, <1>7 DEF SavedBehind, CursorsIssued, Running, InPage
<1>9. \A S : Good(log, base, orphans, S, saved) => Good(log, b, orphans, S, saved)
  BY <1>2, <1>3, RaisedGood DEF CursorsIssued
<1>10. \A S : Good(log, base, orphans, S, cur) => Good(log, b, orphans, S, cur)
  BY <1>2, <1>3, RaisedGood DEF CursorsIssued
<1>11. StoreFollows' /\ CursorFollows'
  BY <1>1, <1>9, <1>10 DEF StoreFollows, CursorFollows, Running, InPage
<1>12. PageFollows'
  <2> SUFFICES ASSUME InPage, rewind # "torn", ~failed, Answered(next, b)
               PROVE  /\ Sound(log, orphans, mem, page \cup FeedOf(log, b, next.at))
                      /\ Stored => Sound(log, orphans, disk, page \cup FeedOf(log, b, next.at))
    BY <1>1 DEF PageFollows, InPage
  <2>1. next.at >= b /\ Answered(next, base) /\ next.at \in Nat
    BY <1>3, <1>7 DEF CursorsIssued, Cursor
  <2>2. FeedOf(log, b, next.at) = FeedOf(log, base, next.at)
    BY <2>1, <1>2, RaisedFeed
  <2> QED BY <2>1, <2>2 DEF PageFollows
<1> QED BY <1>4, <1>5, <1>6, <1>8, <1>11, <1>12

LEMMA FetchFeedSync ==
  ASSUME SyncInv, FetchFeed
  PROVE  SyncInv'
<1> USE DEF SyncInv
<1> DEFINE lim == IF boot THEN BootstrapLimit ELSE FeedLimit
           P == FirstOf(Feed(cur), lim)
           n == [horizon |-> base, at |-> Greatest(P)]
<1>1. Stored' = Stored /\ log' = log /\ base' = base /\ disk' = disk /\ saved' = saved
      /\ deployment' = deployment /\ mem' = mem /\ rewind' = rewind /\ faults' = faults
      /\ cur' = cur /\ saveFailures' = saveFailures /\ pc = "fetch"
      /\ orphans' = (IF cur = Start THEN Unmentioned ELSE orphans) /\ boot' \in BOOLEAN
  BY DEF FetchFeed, Stored, feed, TypeOK
<1>2. cur \in Cursor /\ saved \in Cursor /\ next \in Cursor /\ cur.horizon <= base /\ cur.at <= Len(log)
  BY DEF TypeOK, CursorsIssued
<1>3. cur = Start \/ Answered(cur, base)
  BY <1>2, ModelFeed DEF FetchFeed
<1>4. Feed(cur) = FeedOf(log, base, cur.at) /\ Feed(Start) = FeedOf(log, base, 0)
  BY <1>2, ModelFeed, StartFacts
<1>5. /\ Len(log) \in Nat /\ DOMAIN log = 1 .. Len(log) /\ base \in 0 .. Len(log) /\ lim \in Nat
  BY LogFacts, RegistryConstantsOK DEF RegistryConstantsOK
<1>6. \/ /\ P # {} /\ page' = P /\ next' = n /\ more' \in BOOLEAN /\ failed' = FALSE /\ pc' = "apply"
      \/ /\ pc' = pc /\ page' = page /\ next' = next /\ more' = more /\ failed' = failed
  BY DEF FetchFeed
<1>7. orphans' \subseteq Items
  BY <1>1 DEF Unmentioned, TypeOK
<1>8. StoreFollows' /\ CursorFollows' /\ SavedBehind'
  <2>1. SavedBehind'
    BY <1>1, <1>6 DEF SavedBehind, Running, InPage
  <2>2. CASE cur = Start
    <3>1. rewind = "no" => saved = Start \/ ~Answered(saved, base)
      BY <2>2, <1>1 DEF SavedBehind, Running
    <3>2. rewind = "no" => \A S : Good(log, base, orphans', S, saved)
      BY <3>1 DEF Good
    <3>3. \A S : Good(log, base, orphans', S, cur)
      BY <2>2, StartGood
    <3> QED BY <2>1, <3>2, <3>3, <1>1 DEF StoreFollows, CursorFollows
  <2>3. CASE cur # Start
    BY <2>1, <2>3, <1>1, <1>6 DEF StoreFollows, CursorFollows, Running, InPage
  <2> QED BY <2>2, <2>3
<1>9. StartsEmpty'
  BY <1>1 DEF StartsEmpty
<1>10. CASE /\ P # {} /\ page' = P /\ next' = n /\ more' \in BOOLEAN /\ failed' = FALSE /\ pc' = "apply"
  <2>1. /\ next' \in Cursor /\ next'.horizon = base /\ next'.at <= Len(log) /\ page' \subseteq 1 .. Len(log)
        /\ FeedOf(log, base, cur.at) = page' \cup FeedOf(log, base, next'.at)
        /\ PageOf(log, page', cur, next')
    <3> HIDE DEF P, n, lim
    <3>1. P = FirstOf(FeedOf(log, base, cur.at), lim) /\ n = [horizon |-> base, at |-> Greatest(P)]
      BY <1>4 DEF P, n
    <3>2. /\ n \in Cursor /\ n.horizon = base /\ n.at <= Len(log) /\ P \subseteq 1 .. Len(log)
          /\ FeedOf(log, base, cur.at) = P \cup FeedOf(log, base, n.at)
          /\ PageOf(log, P, cur, n)
      <4> HIDE DEF SyncInv
      <4>1. Fetched(log, base, cur, P, n)
        BY <3>1, <1>2, <1>5, <1>10, FetchedPage
      <4> QED BY <4>1 DEF Fetched
    <3> QED BY <3>2, <1>10
  <2> HIDE DEF P, n, lim
  <2>2. TypeOK'
    BY <1>1, <1>5, <1>7, <1>10, <2>1 DEF TypeOK, PcValues
  <2>3. CursorsIssued'
    BY <1>1, <1>5, <2>1 DEF CursorsIssued
  <2>4. PageKnown' /\ RewindEnds' /\ HalfRemoved' /\ WithoutStore'
    BY <1>1, <1>10, <2>1 DEF PageKnown, RewindEnds, HalfRemoved, WithoutStore
  <2>5. ASSUME NEW S, S \subseteq mem \cup disk, rewind # "torn", Good(log, base, orphans, S, cur)
        PROVE  Sound(log, orphans', S, FeedOf(log, base, cur.at))
    <3>1. CASE cur = Start
      <4> SUFFICES ASSUME NEW x \in Items, ~Touched(log, FeedOf(log, base, 0), x)
                   PROVE  Right(log, orphans', S, x)
        BY <3>1, StartFacts DEF Sound
      <4>1. ~Live(log, x)
        BY <1>5, LiveIsFed
      <4>2. x \in S => x \in Unmentioned
        BY <2>5, <1>4 DEF Unmentioned, Touched
      <4> QED BY <3>1, <4>1, <4>2, <1>1 DEF Right
    <3>2. CASE cur # Start
      BY <3>2, <2>5, <1>1, <1>3 DEF Good
    <3> QED BY <3>1, <3>2
  <2>6. PageFollows'
    <3> SUFFICES ASSUME rewind # "torn"
                 PROVE  /\ Sound(log, orphans', mem, FeedOf(log, base, cur.at))
                        /\ Stored => Sound(log, orphans', disk, FeedOf(log, base, cur.at))
      BY <1>1, <2>1 DEF PageFollows
    <3>1. Good(log, base, orphans, mem, cur) /\ (Stored => Good(log, base, orphans, disk, cur))
      BY <1>1 DEF CursorFollows, Running
    <3> QED BY <3>1, <2>5
  <2> QED BY <1>8, <1>9, <2>2, <2>3, <2>4, <2>6
<1>11. CASE /\ pc' = pc /\ page' = page /\ next' = next /\ more' = more /\ failed' = failed
  <2>1. TypeOK'
    BY <1>1, <1>7, <1>11 DEF TypeOK, PcValues
  <2>2. (CursorsIssued /\ PageKnown /\ RewindEnds /\ HalfRemoved /\ WithoutStore /\ PageFollows)'
    BY <1>1, <1>11 DEF CursorsIssued, PageKnown, RewindEnds, HalfRemoved, WithoutStore, PageFollows, InPage
  <2> QED BY <1>8, <1>9, <2>1, <2>2
<1> QED BY <1>6, <1>10, <1>11

LEMMA EndPageSync ==
  ASSUME SyncInv, EndPage
  PROVE  SyncInv'
<1> USE DEF SyncInv
<1>1. Stored' = Stored /\ log' = log /\ base' = base /\ disk' = disk /\ orphans' = orphans
      /\ deployment' = deployment /\ mem' = mem /\ page' = page /\ next' = next /\ more' = more
      /\ failed' = failed /\ pc = "apply" /\ page = {} /\ InPage
  BY DEF EndPage, Stored, feed, InPage
<1>2. faults' \in 0 .. MaxFaults
  BY FaultTypes DEF EndPage, StoreFault
<1>3. next \in Cursor /\ cur \in Cursor /\ saved \in Cursor
  BY DEF TypeOK
<1>4. cur.at <= next.at /\ cur.horizon <= next.horizon /\ next # Start
  BY <1>1 DEF PageKnown, PageOf
<1>5. StartsEmpty'
  BY <1>1 DEF StartsEmpty
<1>6. CASE failed /\ pc' = "fetch" /\ saved' = saved /\ cur' = cur /\ boot' = boot
           /\ saveFailures' = saveFailures /\ faults' = faults /\ rewind' = rewind
  <2>1. TypeOK'
    BY <1>1, <1>2, <1>6 DEF TypeOK, PcValues
  <2>2. (CursorsIssued /\ PageKnown /\ RewindEnds /\ HalfRemoved /\ WithoutStore /\ PageFollows /\ StoreFollows)'
    BY <1>1, <1>6 DEF CursorsIssued, PageKnown, RewindEnds, HalfRemoved, WithoutStore, PageFollows,
      StoreFollows, InPage
  <2>3. SavedBehind' /\ CursorFollows'
    BY <1>1, <1>6 DEF SavedBehind, CursorFollows, Running
  <2> QED BY <1>5, <2>1, <2>2, <2>3
<1>7. CASE ~failed /\ cur' = next
  <2>1. \/ /\ saved' = next /\ saveFailures' = 0 /\ pc' = "fetch"
           /\ rewind' = IF rewind = "underway" THEN "no" ELSE rewind
        \/ /\ Stored /\ saved' = saved /\ rewind' = rewind
           /\ saveFailures' = saveFailures + 1
           /\ pc' = IF saveFailures' >= SaveStrikes THEN "stopped" ELSE "fetch"
    BY <1>7 DEF EndPage, StoreFault
  <2>2. pc' = "fetch" \/ pc' = "stopped"
    BY <2>1
  <2>3. saveFailures' \in 0 .. SaveStrikes /\ (saveFailures' < SaveStrikes \/ pc' = "stopped")
    BY <2>1, <1>1, Bounds DEF TypeOK
  <2>4. boot' \in BOOLEAN
    BY <1>7 DEF EndPage, TypeOK
  <2>5. TypeOK'
    <3>1. saved' \in Cursor /\ rewind' \in {"no", "underway", "torn"}
      BY <2>1, <1>3 DEF TypeOK
    <3> QED BY <1>1, <1>2, <1>3, <1>7, <2>2, <2>3, <2>4, <3>1 DEF TypeOK, PcValues
  <2>6. CursorsIssued'
    BY <1>1, <1>7, <2>1 DEF CursorsIssued
  <2>7. (PageKnown /\ RewindEnds /\ HalfRemoved /\ WithoutStore /\ PageFollows)'
    BY <1>1, <1>7, <2>1, <2>2 DEF PageKnown, RewindEnds, HalfRemoved, WithoutStore, PageFollows, InPage
  <2>8. SavedBehind'
    <3>1. CASE saved' = next
      BY <3>1, <1>3, <1>4, <1>7 DEF SavedBehind, Cursor
    <3>2. CASE saved' = saved /\ rewind' = rewind
      BY <3>2, <1>1, <1>3, <1>4, <1>7 DEF SavedBehind, Running, Cursor
    <3> QED BY <2>1, <3>1, <3>2
  <2>9. rewind # "torn" => /\ Good(log, base, orphans, mem, next)
                           /\ Stored => Good(log, base, orphans, disk, next)
    <3>1. page \cup FeedOf(log, base, next.at) = FeedOf(log, base, next.at)
      BY <1>1
    <3> QED BY <3>1, <1>1, <1>7 DEF PageFollows, Good
  <2>10. CursorFollows'
    BY <2>1, <2>9, <1>1, <1>7 DEF CursorFollows
  <2>11. StoreFollows'
    BY <2>1, <2>9, <1>1 DEF StoreFollows
  <2> QED BY <1>5, <2>5, <2>6, <2>7, <2>8, <2>10, <2>11
<1> QED BY <1>6, <1>7 DEF EndPage

\* What applying event i of a page, or half of it, may do: only items that it
\* touches change, and they change as it says unless a write failed.
PageStep(i) ==
  /\ InPage /\ i \in page /\ i = Least(page)
  /\ UNCHANGED <<feed, saved, cur, boot, next, more, saveFailures, history>>
  /\ faults' \in 0 .. MaxFaults
  /\ mem' \subseteq Items /\ disk' \subseteq Items
  /\ failed' \in BOOLEAN /\ (failed => failed')
  /\ ~Stored => disk' = disk /\ failed' = failed
  /\ \A x \in Items : ~Touches(log[i], x) => (x \in mem' <=> x \in mem) /\ (x \in disk' <=> x \in disk)
  /\ \/ /\ pc' = "apply" /\ page' = page \ {i}
        /\ ~failed' => \A x \in Items : Touches(log[i], x) =>
             /\ x \in mem' <=> Creates(log[i], x)
             /\ Stored => (x \in disk' <=> Creates(log[i], x))
     \/ /\ pc' = "cascade" /\ page' = page
        /\ log[i].op = "remove" /\ log[i].item \in Agents
        /\ log[i].item \notin mem' /\ (Stored /\ ~failed' => log[i].item \notin disk')

LEMMA PageStepSync ==
  ASSUME SyncInv, NEW i, PageStep(i)
  PROVE  SyncInv'
<1> USE DEF SyncInv
<1>1. Stored' = Stored /\ log' = log /\ base' = base /\ saved' = saved /\ deployment' = deployment
      /\ cur' = cur /\ boot' = boot /\ next' = next /\ more' = more /\ saveFailures' = saveFailures
      /\ orphans' = orphans /\ rewind' = rewind
  BY DEF PageStep, Stored, feed, history
<1>2. /\ InPage /\ InPage' /\ i \in page /\ i = Least(page) /\ page' \subseteq page
      /\ (page' = page \ {i} \/ page' = page)
      /\ faults' \in 0 .. MaxFaults /\ mem' \subseteq Items /\ disk' \subseteq Items
      /\ failed' \in BOOLEAN /\ (failed => failed') /\ (~Stored => disk' = disk /\ failed' = failed)
      /\ pc' \in {"apply", "cascade"} /\ pc \in {"apply", "cascade"}
  BY DEF PageStep, InPage
<1>3. \A x \in Items : ~Touches(log[i], x) => (x \in mem' <=> x \in mem) /\ (x \in disk' <=> x \in disk)
  BY DEF PageStep
<1>4. /\ Len(log) \in Nat /\ DOMAIN log = 1 .. Len(log) /\ base \in 0 .. Len(log) /\ base \in Nat
      /\ page \subseteq 1 .. Len(log) /\ page \subseteq Nat
      /\ cur \in Cursor /\ saved \in Cursor /\ next \in Cursor /\ next.horizon <= base
  BY LogFacts DEF TypeOK, CursorsIssued
<1>5. PageOf(log, page, cur, next)
  BY <1>2 DEF PageKnown
<1>6. TypeOK'
  <2>1. saveFailures' < SaveStrikes
    BY <1>1, <1>2 DEF TypeOK
  <2> QED BY <1>1, <1>2, <2>1 DEF TypeOK, PcValues
<1>7. (CursorsIssued /\ RewindEnds /\ WithoutStore)'
  BY <1>1, <1>2 DEF CursorsIssued, RewindEnds, WithoutStore
<1>8. SavedBehind'
  BY <1>1, <1>2 DEF SavedBehind, Running
<1>9. StartsEmpty'
  <2>1. log # <<>>
    BY <1>2, <1>4
  <2> QED BY <2>1, <1>1 DEF StartsEmpty
<1>10. PageKnown'
  <2>1. PageOf(log, page', cur, next)
    <3>1. CASE page' = page
      BY <3>1, <1>5
    <3>2. CASE page' = page \ {i}
      <4>1. ASSUME NEW j \in page \ {i}, NEW k \in j + 1 .. next.at, k > next.horizon  PROVE k \in page \ {i}
        <5>1. k \in page
          BY <4>1, <1>5 DEF PageOf
        <5>2. i <= j
          BY <1>2, <1>4, LeastIs
        <5>3. k # i
          BY <5>2, <1>2, <1>4, <4>1
        <5> QED BY <5>1, <5>3
      <4> QED BY <3>2, <4>1, <1>5 DEF PageOf
    <3> QED BY <3>1, <3>2, <1>2
  <2> QED BY <2>1, <1>1 DEF PageKnown
<1>11. HalfRemoved'
  BY <1>1, <1>2 DEF PageStep, HalfRemoved
<1>12. ASSUME NEW c \in Cursor,
              c # Start => (c.at <= cur.at /\ c.horizon <= cur.horizon) \/ ~Answered(c, base),
              NEW S, NEW T, Good(log, base, orphans, S, c),
              \A x \in Items : ~Touches(log[i], x) => (x \in T <=> x \in S)
       PROVE  Good(log, base, orphans, T, c)
  <2> SUFFICES ASSUME c # Start, Answered(c, base)
               PROVE  Sound(log, orphans, T, FeedOf(log, base, c.at))
    BY DEF Good
  <2>1. page \subseteq FeedOf(log, base, c.at)
    BY <1>4, <1>5, <1>12, PageFed
  <2>2. i \in FeedOf(log, base, c.at)
    BY <2>1, <1>2
  <2>3. \A x \in Items : ~Touched(log, FeedOf(log, base, c.at), x) => (x \in T <=> x \in S)
    BY <2>2, <1>12 DEF Touched
  <2>4. Sound(log, orphans, S, FeedOf(log, base, c.at))
    BY <1>12 DEF Good
  <2> QED BY <2>3, <2>4, Untouched
<1>13. StoreFollows'
  <2> SUFFICES ASSUME Stored, rewind = "no"
               PROVE  Good(log, base, orphans, disk', saved)
    BY <1>1 DEF StoreFollows
  <2>1. saved # Start => (saved.at <= cur.at /\ saved.horizon <= cur.horizon) \/ ~Answered(saved, base)
    BY <1>2 DEF SavedBehind, Running
  <2>2. Good(log, base, orphans, disk, saved)
    BY DEF StoreFollows
  <2> QED BY <2>1, <2>2, <1>3, <1>4, <1>12
<1>14. CursorFollows'
  <2> SUFFICES ASSUME rewind # "torn"
               PROVE  /\ Good(log, base, orphans, mem', cur)
                      /\ Stored => Good(log, base, orphans, disk', cur)
    BY <1>1 DEF CursorFollows
  <2>1. Good(log, base, orphans, mem, cur) /\ (Stored => Good(log, base, orphans, disk, cur))
    BY <1>2 DEF CursorFollows, Running
  <2>2. cur.at <= cur.at /\ cur.horizon <= cur.horizon
    BY <1>4 DEF Cursor
  <2> QED BY <2>1, <2>2, <1>3, <1>4, <1>12
<1>15. PageFollows'
  <2> SUFFICES ASSUME rewind # "torn", ~failed', Answered(next, base)
               PROVE  /\ Sound(log, orphans, mem', page' \cup FeedOf(log, base, next.at))
                      /\ Stored => Sound(log, orphans, disk', page' \cup FeedOf(log, base, next.at))
    BY <1>1 DEF PageFollows
  <2>1. /\ Sound(log, orphans, mem, page \cup FeedOf(log, base, next.at))
        /\ Stored => Sound(log, orphans, disk, page \cup FeedOf(log, base, next.at))
    BY <1>2 DEF PageFollows
  <2>2. CASE pc' = "cascade" /\ page' = page
    <3>1. \A x \in Items : ~Touched(log, page \cup FeedOf(log, base, next.at), x) => ~Touches(log[i], x)
      BY <1>2 DEF Touched
    <3> QED BY <2>1, <2>2, <3>1, <1>3, Untouched
  <2>3. CASE pc' = "apply" /\ page' = page \ {i}
    <3>1. \A x \in Items : Touches(log[i], x) =>
            /\ x \in mem' <=> Creates(log[i], x)
            /\ Stored => (x \in disk' <=> Creates(log[i], x))
      BY <2>3 DEF PageStep
    <3>2. Sound(log, orphans, mem', (page \ {i}) \cup FeedOf(log, base, next.at))
      BY <2>1, <3>1, <1>2, <1>3, <1>4, <1>5, AppliedSound
    <3>3. Stored => Sound(log, orphans, disk', (page \ {i}) \cup FeedOf(log, base, next.at))
      BY <2>1, <3>1, <1>2, <1>3, <1>4, <1>5, AppliedSound
    <3> QED BY <2>3, <3>2, <3>3
  <2> QED BY <2>2, <2>3 DEF PageStep
<1> QED BY <1>6, <1>7, <1>8, <1>9, <1>10, <1>11, <1>13, <1>14, <1>15

\* What a write to an index and its store leaves behind.
LEMMA PersistEffect ==
  ASSUME TypeOK, NEW del, NEW add, add \subseteq Items, Persist(del, add)
  PROVE  /\ mem' = (mem \ del) \cup add /\ mem' \subseteq Items
         /\ disk' = disk \/ disk' = (disk \ del) \cup add
         /\ disk' \subseteq Items
         /\ failed' \in BOOLEAN /\ (failed => failed')
         /\ ~Stored => disk' = disk /\ failed' = failed
         /\ (Stored /\ ~failed') => disk' = (disk \ del) \cup add
         /\ faults' \in 0 .. MaxFaults
<1>1. faults' \in 0 .. MaxFaults
  BY FaultTypes DEF Persist, StoreFault
<1>2. mem \subseteq Items /\ disk \subseteq Items /\ failed \in BOOLEAN
  BY DEF TypeOK
<1>3. CASE Write(del, add, TRUE, TRUE)
  BY <1>1, <1>2, <1>3 DEF Write
<1>4. CASE StoreFault /\ \E written \in BOOLEAN : Write(del, add, FALSE, written)
  BY <1>1, <1>2, <1>4 DEF Write, StoreFault
<1> QED BY <1>3, <1>4 DEF Persist

LEMMA ConstantFacts ==
  /\ AgentOf \in [Grants -> Agents]
  /\ Properties \cap Agents = {} /\ Properties \cap Grants = {} /\ Agents \cap Grants = {}
BY RegistryConstantsOK DEF RegistryConstantsOK

LEMMA ApplyEventSteps ==
  ASSUME SyncInv, ApplyEvent
  PROVE  \E i : PageStep(i)
<1> DEFINE i == Least(page)
           e == log[i]
<1> USE DEF SyncInv
<1>1. pc = "apply" /\ page # {} /\ UNCHANGED <<feed, saved, cur, boot, next, more, saveFailures, history>>
  BY DEF ApplyEvent
<1>2. TypeOK
  OBVIOUS
<1>3. i \in page /\ e \in Event
  <2>1. page \subseteq Nat /\ page \subseteq 1 .. Len(log) /\ \A j \in 1 .. Len(log) : log[j] \in Event
    BY <1>2, LogFacts
  <2>2. i \in page
    BY <2>1, <1>1, LeastIs
  <2> QED BY <2>1, <2>2
<1>4. e.item \in Items /\ InPage /\ mem \subseteq Items /\ disk \subseteq Items /\ failed \in BOOLEAN
      /\ faults \in 0 .. MaxFaults
  BY <1>1, <1>2, <1>3 DEF Event, InPage, TypeOK
<1>5. i = Least(page)
  OBVIOUS
<1> HIDE DEF i
<1>6. SUFFICES PageStep(i)
  OBVIOUS
<1>7. CASE e.op = "ignored" /\ Done(i) /\ UNCHANGED <<mem, disk, failed, faults>>
  <2>1. \A x \in Items : ~Touches(e, x)
    BY <1>7 DEF Touches, Creates, Deletes
  <2> QED BY <2>1, <1>1, <1>3, <1>4, <1>5, <1>7 DEF PageStep, Done
<1>8. CASE e.op = "put" /\ Persist({}, {e.item}) /\ Done(i)
  <2>1. \A x \in Items : (Touches(e, x) <=> x = e.item) /\ (Creates(e, x) <=> x = e.item)
    BY <1>8 DEF Touches, Creates, Deletes
  <2>2. {e.item} \subseteq Items
    BY <1>4
  <2> HIDE DEF e
  <2>3. /\ mem' = (mem \ {}) \cup {e.item} /\ mem' \subseteq Items
        /\ disk' = disk \/ disk' = (disk \ {}) \cup {e.item}
        /\ disk' \subseteq Items
        /\ failed' \in BOOLEAN /\ (failed => failed')
        /\ ~Stored => disk' = disk /\ failed' = failed
        /\ (Stored /\ ~failed') => disk' = (disk \ {}) \cup {e.item}
        /\ faults' \in 0 .. MaxFaults
    BY <1>2, <1>8, <2>2, PersistEffect
  <2> QED BY <2>1, <2>3, <1>1, <1>3, <1>4, <1>5, <1>8 DEF PageStep, Done, e
<1>9. CASE e.op = "untyped" /\ Write({}, {e.item}, ~Stored, FALSE) /\ Done(i) /\ UNCHANGED faults
  <2>1. \A x \in Items : (Touches(e, x) <=> x = e.item) /\ (Creates(e, x) <=> x = e.item)
    BY <1>9 DEF Touches, Creates, Deletes
  <2>2. mem' = mem \cup {e.item} /\ disk' = disk /\ failed' = (failed \/ Stored)
    BY <1>9 DEF Write
  <2> QED BY <2>1, <2>2, <1>1, <1>3, <1>4, <1>5, <1>9 DEF PageStep, Done
<1>10. CASE e.op = "remove" /\ e.item \notin Agents /\ Persist({e.item}, {}) /\ Done(i)
  <2>1. \A x \in Items : (Touches(e, x) <=> x = e.item) /\ ~Creates(e, x)
    BY <1>10, ConstantFacts DEF Touches, Creates, Deletes
  <2> HIDE DEF e
  <2>2. /\ mem' = (mem \ {e.item}) \cup {} /\ mem' \subseteq Items
        /\ disk' = disk \/ disk' = (disk \ {e.item}) \cup {}
        /\ disk' \subseteq Items
        /\ failed' \in BOOLEAN /\ (failed => failed')
        /\ ~Stored => disk' = disk /\ failed' = failed
        /\ (Stored /\ ~failed') => disk' = (disk \ {e.item}) \cup {}
        /\ faults' \in 0 .. MaxFaults
    BY <1>2, <1>10, PersistEffect
  <2> QED BY <2>1, <2>2, <1>1, <1>3, <1>4, <1>5, <1>10 DEF PageStep, Done, e
<1>11. CASE /\ e.op = "remove" /\ e.item \in Agents
            /\ \/ Write({e.item}, {}, TRUE, TRUE) /\ pc' = "cascade" /\ UNCHANGED <<page, faults>>
               \/ StoreFault /\ (\E written \in BOOLEAN : Write({e.item}, {}, FALSE, written)) /\ Done(i)
  <2>1. \A x \in Items : ~Touches(e, x) => x # e.item
    BY <1>11 DEF Touches, Deletes
  <2>2. Persist({e.item}, {})
    BY <1>11 DEF Persist
  <2>3. \/ pc' = "cascade" /\ page' = page
        \/ failed' /\ pc' = "apply" /\ page' = page \ {i}
    BY <1>11 DEF Write, Done
  <2> HIDE DEF e
  <2>4. /\ mem' = (mem \ {e.item}) \cup {} /\ mem' \subseteq Items
        /\ disk' = disk \/ disk' = (disk \ {e.item}) \cup {}
        /\ disk' \subseteq Items
        /\ failed' \in BOOLEAN /\ (failed => failed')
        /\ ~Stored => disk' = disk /\ failed' = failed
        /\ (Stored /\ ~failed') => disk' = (disk \ {e.item}) \cup {}
        /\ faults' \in 0 .. MaxFaults
    BY <1>2, <2>2, PersistEffect
  <2> QED BY <2>1, <2>3, <2>4, <1>1, <1>3, <1>4, <1>5, <1>11 DEF PageStep, e
<1> QED BY <1>7, <1>8, <1>9, <1>10, <1>11 DEF ApplyEvent, i

LEMMA CascadeGrantsSteps ==
  ASSUME SyncInv, CascadeGrants
  PROVE  \E i : PageStep(i)
<1> DEFINE i == Least(page)
           e == log[i]
           G == GrantsOf(e.item)
<1> USE DEF SyncInv
<1>1. pc = "cascade" /\ UNCHANGED <<feed, saved, cur, boot, next, more, saveFailures, history>>
      /\ Persist(G, {}) /\ pc' = "apply" /\ page' = page \ {i}
  BY DEF CascadeGrants, Done
<1>2. TypeOK /\ InPage
  BY <1>1 DEF InPage
<1>3. page # {} /\ e.op = "remove" /\ e.item \in Agents /\ e.item \notin mem
      /\ (Stored /\ ~failed => e.item \notin disk)
  BY <1>1 DEF HalfRemoved
<1>4. i \in page
  BY <1>2, <1>3, LogFacts, LeastIs
<1>5. \A x \in Items : ~Creates(e, x) /\ (Touches(e, x) <=> (x = e.item \/ x \in G))
  BY <1>3 DEF Touches, Creates, Deletes, GrantsOf
<1>6. i = Least(page)
  OBVIOUS
<1> HIDE DEF i, e, G
<1>7. /\ mem' = (mem \ G) \cup {} /\ mem' \subseteq Items
      /\ disk' = disk \/ disk' = (disk \ G) \cup {}
      /\ disk' \subseteq Items
      /\ failed' \in BOOLEAN /\ (failed => failed')
      /\ ~Stored => disk' = disk /\ failed' = failed
      /\ (Stored /\ ~failed') => disk' = (disk \ G) \cup {}
      /\ faults' \in 0 .. MaxFaults
  BY <1>1, <1>2, PersistEffect
<1>8. PageStep(i)
  BY <1>1, <1>2, <1>3, <1>4, <1>5, <1>6, <1>7 DEF PageStep, e
<1> QED BY <1>8

\* A step of the provider changes nothing of the syncer but the fault count.
LEMMA FaultOnlySync ==
  ASSUME SyncInv, UNCHANGED <<feed, pc, mem, disk, saved, loop, history>>, faults' \in 0 .. MaxFaults
  PROVE  SyncInv'
<1> USE DEF SyncInv
<1>1. Stored' = Stored /\ base' = base /\ disk' = disk /\ saved' = saved /\ deployment' = deployment
      /\ orphans' = orphans /\ next' = next /\ page' = page /\ failed' = failed /\ cur' = cur
      /\ saveFailures' = saveFailures /\ pc' = pc /\ mem' = mem /\ rewind' = rewind
      /\ boot' = boot /\ more' = more /\ log' = log
  BY DEF Stored, loop, history, feed
<1>2. TypeOK'
  BY <1>1 DEF TypeOK
<1>3. (CursorsIssued /\ SavedBehind /\ PageKnown /\ RewindEnds /\ HalfRemoved /\ WithoutStore /\ StartsEmpty)'
  BY <1>1 DEF CursorsIssued, SavedBehind, PageKnown, RewindEnds, HalfRemoved, WithoutStore, StartsEmpty,
    Running, InPage
<1>4. (StoreFollows /\ CursorFollows /\ PageFollows)'
  BY <1>1 DEF StoreFollows, CursorFollows, PageFollows, Running, InPage
<1> QED BY <1>2, <1>3, <1>4

LEMMA SyncStep ==
  ASSUME SyncInv, Next
  PROVE  SyncInv'
<1>1. CASE \E F \in SUBSET Indexes : Hydrate(F) \/ ClearFails(F)
  BY <1>1, HydrateSync, ClearFailsSync
<1>2. CASE LoadCursorFails
  BY <1>2, LoadCursorFailsSync
<1>3. CASE FetchFeed
  BY <1>3, FetchFeedSync
<1>4. CASE Rebootstrap
  BY <1>4, RebootstrapSync
<1>5. CASE ApplyEvent
  BY <1>5, ApplyEventSteps, PageStepSync
<1>6. CASE CascadeGrants
  BY <1>6, CascadeGrantsSteps, PageStepSync
<1>7. CASE EndPage
  BY <1>7, EndPageSync
<1>8. CASE Crash
  BY <1>8, CrashSync
<1>9. CASE \E e \in Event : Publish(e)
  BY <1>9, PublishSync
<1>10. CASE \E b \in base + 1 .. Len(log) : Compact(b)
  BY <1>10, CompactSync
<1> QED BY <1>1, <1>2, <1>3, <1>4, <1>5, <1>6, <1>7, <1>8, <1>9, <1>10 DEF Next, Sync

-----------------------------------------------------------------------------
(* The router's steps.                                                     *)

\* A step of the bridge is one of the syncer or only a provider's.
LEMMA BridgeStepKinds ==
  ASSUME SyncInv, BridgeNext
  PROVE  Next \/ (UNCHANGED <<feed, pc, mem, disk, saved, loop, history>> /\ faults' \in 0 .. MaxFaults)
<1>0. TypeOK
  BY DEF SyncInv
<1>1. CASE BridgeSync
  BY <1>1 DEF BridgeSync, Next, Sync
<1>2. CASE \E e \in BridgeEvents : Publish(e)
  BY <1>2 DEF BridgeEvents, Next
<1>3. CASE \E b \in base + 1 .. Len(log) : Compact(b)
  BY <1>3 DEF Next
<1>4. CASE RestartRouter
  BY <1>4 DEF RestartRouter, Next
<1>5. CASE Refresh \/ RefreshFails \/ RestartProvider
  <2>1. UNCHANGED <<feed, pc, mem, disk, saved, loop, history>>
    BY <1>5 DEF Refresh, RefreshFails, RestartProvider, providerOnly
  <2>2. Fault \/ faults' = faults
    BY <1>5 DEF Refresh, RefreshFails, RestartProvider
  <2> QED BY <2>1, <2>2, <1>0, FaultTypes
<1> QED BY <1>1, <1>2, <1>3, <1>4, <1>5 DEF BridgeNext

LEMMA BridgeSyncStep ==
  ASSUME SyncInv, BridgeNext \/ UNCHANGED allVars
  PROVE  SyncInv'
<1>1. CASE BridgeNext
  BY <1>1, BridgeStepKinds, SyncStep, FaultOnlySync
<1>2. CASE UNCHANGED allVars
  <2>1. UNCHANGED <<feed, pc, mem, disk, saved, loop, history>> /\ faults' = faults
    BY <1>2 DEF allVars, vars
  <2>2. faults' \in 0 .. MaxFaults
    BY <2>1 DEF SyncInv, TypeOK
  <2> QED BY <2>1, <2>2, FaultOnlySync
<1> QED BY <1>1, <1>2

\* What the router serves has its key or none, and its types.
LEMMA RouterStep ==
  ASSUME RouterTypes, KidsOwn, BridgeNext \/ UNCHANGED allVars
  PROVE  RouterTypes' /\ KidsOwn'
<1> USE DEF RouterTypes, KidsOwn
<1>1. CASE UNCHANGED bridgeVars
  BY <1>1 DEF bridgeVars
<1>2. CASE Polls
  <2>1. UNCHANGED <<routerKey, provider, trusted>> /\ (served' = served \/ rebuildRouterSnapshot)
    BY <1>2 DEF Polls
  <2>2. rebuildRouterSnapshot => /\ served'.kids = {routerKey}
                                 /\ served' \in [props : SUBSET Properties, kids : SUBSET Kids]
    BY DEF rebuildRouterSnapshot
  <2> QED BY <2>1, <2>2
<1>3. CASE RestartRouter
  <2>1. served' = NewRegistry /\ routerKey' \in Kids /\ provider' = provider /\ trusted' = trusted
    BY <1>3 DEF RestartRouter
  <2> QED BY <2>1 DEF NewRegistry
<1>4. CASE Refresh
  <2>1. served' = served /\ routerKey' = routerKey /\ (trusted' = trusted \/ trusted' = served.kids)
        /\ provider' \in {"starting", "polling"}
    BY <1>4 DEF Refresh, providerOnly
  <2> QED BY <2>1 DEF ProviderStates
<1>5. CASE RefreshFails \/ RestartProvider
  <2>1. served' = served /\ routerKey' = routerKey /\ (trusted' = trusted \/ trusted' = {})
        /\ provider' \in {"frozen", "down", provider}
    BY <1>5 DEF RefreshFails, RestartProvider, providerOnly
  <2> QED BY <2>1 DEF ProviderStates
<1> QED BY <1>1, <1>2, <1>3, <1>4, <1>5 DEF BridgeNext, BridgeSync, allVars

LEMMA NothingHeld ==
  ASSUME NEW l, NEW x
  PROVE  ~Held(l, x, 0, 0)
BY DEF Held

\* A router's memory stays what its feed delivered.
LEMMA DeliveredStep ==
  ASSUME SyncInv, Delivered, ~Stored,
         Next \/ UNCHANGED <<feed, pc, mem, disk, saved, loop, history>>
  PROVE  Delivered'
<1> USE DEF SyncInv
<1>0. ~StoreFault
  BY DEF StoreFault
<1>1. CASE \E F \in SUBSET Indexes : Hydrate(F) \/ ClearFails(F)
  <2>1. PICK F \in SUBSET Indexes : Hydrate(F)
    BY <1>0, <1>1 DEF ClearFails
  <2>2. cur' = Start /\ mem' = {} /\ pc' = "fetch"
    BY <2>1, <1>0 DEF Hydrate, WithoutStore
  <2> QED BY <2>2, StartFacts, NothingHeld DEF Delivered, InPage
<1>2. CASE LoadCursorFails
  BY <1>0, <1>2 DEF LoadCursorFails
<1>3. CASE FetchFeed
  <2> DEFINE lim == IF boot THEN BootstrapLimit ELSE FeedLimit
             P == FirstOf(Feed(cur), lim)
             n == [horizon |-> base, at |-> Greatest(P)]
  <2>1. log' = log /\ base' = base /\ mem' = mem /\ cur' = cur /\ pc = "fetch" /\ ~Expired(cur)
    BY <1>3 DEF FetchFeed, feed
  <2>2. \/ P # {} /\ page' = P /\ next' = n /\ pc' = "apply"
        \/ pc' = pc
    BY <1>3 DEF FetchFeed
  <2>3. CASE pc' = pc
    BY <2>1, <2>3 DEF Delivered, InPage
  <2>4. CASE P # {} /\ page' = P /\ next' = n /\ pc' = "apply"
    <3>1. /\ Len(log) \in Nat /\ DOMAIN log = 1 .. Len(log) /\ base \in 0 .. Len(log) /\ lim \in Nat
      BY LogFacts, RegistryConstantsOK DEF RegistryConstantsOK
    <3>2. cur \in Cursor /\ cur.horizon <= base
      BY DEF TypeOK, CursorsIssued
    <3>3. Feed(cur) = FeedOf(log, base, cur.at) /\ (cur = Start \/ Answered(cur, base))
      BY <2>1, <3>2, ModelFeed
    <3> HIDE DEF P, n, lim
    <3>4. P = FirstOf(FeedOf(log, base, cur.at), lim) /\ n = [horizon |-> base, at |-> Greatest(P)]
      BY <3>3 DEF P, n
    <3>5. Fetched(log, base, cur, P, n)
      BY <3>1, <3>2, <3>4, <2>4, FetchedPage
    <3>6. /\ n \in Cursor /\ n.horizon = base /\ n.at <= Len(log) /\ cur.at <= n.at
          /\ \A k \in FeedOf(log, base, cur.at) : k <= n.at => k \in P
      BY <3>5 DEF Fetched, PageOf
    <3>7. ASSUME NEW x \in Items, ~Touched(log, P, x)
          PROVE  x \in mem <=> Held(log, x, n.at, n.horizon)
      <4>1. x \in mem <=> Held(log, x, cur.at, cur.horizon)
        BY <2>1 DEF Delivered
      <4>2. Held(log, x, cur.at, cur.horizon) <=> Held(log, x, n.at, n.horizon)
        BY <3>1, <3>2, <3>3, <3>6, <3>7, FetchedHeld
      <4> QED BY <4>1, <4>2
    <3> QED BY <2>1, <2>4, <3>7 DEF Delivered
  <2> QED BY <2>2, <2>3, <2>4
<1>4. CASE Rebootstrap
  <2>1. cur' = Start /\ mem' = {} /\ pc' = "fetch"
    BY <1>4 DEF Rebootstrap
  <2> QED BY <2>1, StartFacts, NothingHeld DEF Delivered, InPage
<1>5. CASE ApplyEvent \/ CascadeGrants
  <2>1. PICK i : PageStep(i)
    BY <1>5, ApplyEventSteps, CascadeGrantsSteps
  <2>2. log' = log /\ next' = next /\ InPage /\ i \in page /\ pc' # "fetch" /\ ~failed'
    BY <2>1 DEF PageStep, feed, WithoutStore
  <2>3. \A x \in Items : ~Touches(log[i], x) => (x \in mem' <=> x \in mem)
    BY <2>1 DEF PageStep
  <2>4. \A x \in Items : ~Touched(log, page, x) => (x \in mem <=> Held(log, x, next.at, next.horizon))
    BY <2>2 DEF Delivered
  <2>5. PageOf(log, page, cur, next) /\ next \in Cursor /\ page \subseteq Nat \ {0}
    BY <2>2, LogFacts DEF PageKnown, TypeOK
  <2>6. CASE page' = page
    <3>1. \A x \in Items : ~Touched(log, page, x) => ~Touches(log[i], x)
      BY <2>2 DEF Touched
    <3> QED BY <2>2, <2>3, <2>4, <2>6, <3>1 DEF Delivered
  <2>7. CASE page' = page \ {i}
    <3>1. \A x \in Items : Touches(log[i], x) => (x \in mem' <=> Creates(log[i], x))
      BY <2>1, <2>2, <2>7 DEF PageStep
    <3>2. ASSUME NEW x \in Items, ~Touched(log, page \ {i}, x)
          PROVE  x \in mem' <=> Held(log, x, next.at, next.horizon)
      <4>1. CASE Touches(log[i], x)
        BY <4>1, <3>1, <3>2, <2>2, <2>5, AppliedHeld
      <4>2. CASE ~Touches(log[i], x)
        <5>1. ~Touched(log, page, x)
          BY <4>2, <3>2 DEF Touched
        <5> QED BY <4>2, <5>1, <2>3, <2>4
      <4> QED BY <4>1, <4>2
    <3> QED BY <2>2, <2>7, <3>2 DEF Delivered
  <2> QED BY <2>1, <2>6, <2>7 DEF PageStep
<1>6. CASE EndPage
  <2>1. log' = log /\ mem' = mem /\ pc = "apply" /\ page = {} /\ pc' \in {"fetch", "stopped"}
    BY <1>6 DEF EndPage, feed
  <2>2. cur' = next
    BY <1>6 DEF EndPage, WithoutStore
  <2>3. \A x \in Items : ~Touched(log, page, x)
    BY <2>1 DEF Touched
  <2>4. \A x \in Items : x \in mem <=> Held(log, x, next.at, next.horizon)
    BY <2>1, <2>3 DEF Delivered, InPage
  <2> QED BY <2>1, <2>2, <2>4 DEF Delivered, InPage
<1>7. CASE Crash
  BY <1>7 DEF Crash, Delivered, InPage
<1>8. CASE \E e \in Event : Publish(e)
  <2>1. PICK e \in Event : Publish(e)
    BY <1>8
  <2>2. log' = Append(log, e) /\ mem' = mem /\ pc' = pc /\ cur' = cur /\ next' = next /\ page' = page
    BY <2>1 DEF Publish, loop
  <2>3. Grown(log, log')
    BY <2>2 DEF TypeOK, Grown
  <2>4. /\ cur.at \in 0 .. Len(log) /\ cur.horizon \in 0 .. Len(log)
        /\ next.at \in 0 .. Len(log) /\ next.horizon \in 0 .. Len(log)
    BY LogFacts DEF TypeOK, CursorsIssued, Cursor
  <2>5. \A x : /\ Held(log', x, cur.at, cur.horizon) <=> Held(log, x, cur.at, cur.horizon)
               /\ Held(log', x, next.at, next.horizon) <=> Held(log, x, next.at, next.horizon)
    BY <2>3, <2>4, GrownHeld
  <2>6. \A x : Touched(log', page, x) <=> Touched(log, page, x)
    BY <2>3, LogFacts, GrownTouched
  <2>7. Stored' = Stored
    BY <2>1 DEF Publish, Stored
  <2> QED BY <2>2, <2>5, <2>6, <2>7 DEF Delivered, InPage
<1>9. CASE (\E b \in base + 1 .. Len(log) : Compact(b)) \/ UNCHANGED <<feed, pc, mem, disk, saved, loop, history>>
  <2>1. log' = log /\ mem' = mem /\ pc' = pc /\ cur' = cur /\ next' = next /\ page' = page
        /\ deployment' = deployment
    BY <1>9 DEF Compact, loop, feed
  <2> QED BY <2>1 DEF Delivered, InPage, Stored
<1> QED BY <1>1, <1>2, <1>3, <1>4, <1>5, <1>6, <1>7, <1>8, <1>9 DEF Next, Sync

\* Whenever a page is done the router serves its memory.
LEMMA ServedStep ==
  ASSUME SyncInv, SyncInv', ServedIsMemory, ~Stored, BridgeNext \/ UNCHANGED allVars
  PROVE  ServedIsMemory'
<1> SUFFICES ASSUME pc' = "fetch", cur' # Start, ~Stored'
             PROVE  served'.props = mem' \cap Properties
  BY DEF ServedIsMemory
<1>0. ~StoreFault
  BY DEF StoreFault
<1>1. CASE FetchFeed /\ Polls
  <2>1. mem' = mem /\ cur' = cur /\ pc = "fetch"
    BY <1>1 DEF FetchFeed
  <2>2. served' = served \/ served' = [props |-> mem \cap Properties, kids |-> {routerKey}]
    BY <1>1 DEF Polls, rebuildRouterSnapshot
  <2>3. served.props = mem \cap Properties
    BY <2>1 DEF ServedIsMemory
  <2> QED BY <2>1, <2>2, <2>3
<1>2. CASE EndPage /\ Polls
  <2>1. mem' = mem /\ page' = {} /\ saveFailures' = 0
    BY <1>2 DEF EndPage, SyncInv, WithoutStore
  <2>2. served' = [props |-> mem \cap Properties, kids |-> {routerKey}]
    BY <1>2, <2>1 DEF Polls, rebuildRouterSnapshot
  <2> QED BY <2>1, <2>2
<1>3. CASE /\ \/ \E F \in SUBSET Indexes : Hydrate(F) \/ ClearFails(F)
              \/ LoadCursorFails \/ Rebootstrap \/ ApplyEvent \/ CascadeGrants
           /\ UNCHANGED bridgeVars
  <2>1. CASE \E F \in SUBSET Indexes : Hydrate(F) \/ ClearFails(F)
    <3>1. PICK F \in SUBSET Indexes : Hydrate(F)
      BY <1>0, <2>1 DEF ClearFails
    <3>2. cur' = Start
      BY <3>1 DEF Hydrate, SyncInv, WithoutStore
    <3> QED BY <3>2
  <2>2. CASE LoadCursorFails \/ Rebootstrap
    BY <2>2 DEF LoadCursorFails, Rebootstrap
  <2>3. CASE ApplyEvent \/ CascadeGrants
    <3>1. PICK i : PageStep(i)
      BY <2>3, ApplyEventSteps, CascadeGrantsSteps
    <3> QED BY <3>1 DEF PageStep
  <2> QED BY <1>3, <2>1, <2>2, <2>3
<1>4. CASE RestartRouter
  BY <1>4 DEF RestartRouter, Crash
<1>5. CASE \/ /\ \/ \E e \in BridgeEvents : Publish(e)
                 \/ \E b \in base + 1 .. Len(log) : Compact(b)
              /\ UNCHANGED bridgeVars
           \/ Refresh \/ RefreshFails \/ RestartProvider
           \/ UNCHANGED allVars
  <2>1. mem' = mem /\ cur' = cur /\ pc' = pc /\ served' = served
    BY <1>5 DEF Publish, Compact, Refresh, RefreshFails, RestartProvider, providerOnly, allVars, bridgeVars, vars, loop
  <2> QED BY <2>1 DEF ServedIsMemory
<1> QED BY <1>1, <1>2, <1>3, <1>4, <1>5 DEF BridgeNext, BridgeSync

LEMMA StoredStays ==
  ASSUME BridgeNext \/ UNCHANGED allVars
  PROVE  Stored' = Stored
<1>1. deployment' = deployment
  BY DEF BridgeNext, BridgeSync, FetchFeed, EndPage, Hydrate, ClearFails, LoadCursorFails, Rebootstrap,
    ApplyEvent, CascadeGrants, Publish, Compact, RestartRouter, Crash, Refresh, RefreshFails,
    RestartProvider, providerOnly, allVars, vars, feed
<1> QED BY <1>1 DEF Stored

\* The router's invariant holds of every behaviour.
LEMMA BridgeInductive == BridgeSpec => []BridgeInv
<1>1. BridgeInit => BridgeInv
  <2> SUFFICES ASSUME BridgeInit  PROVE BridgeInv
    OBVIOUS
  <2>1. SyncInv
    BY InitSync DEF BridgeInit
  <2>2. Delivered /\ ServedIsMemory
    BY DEF BridgeInit, Init, Delivered, ServedIsMemory, InPage
  <2>3. KidsOwn /\ RouterTypes
    BY BridgeConstantsOK DEF BridgeConstantsOK, BridgeInit, NewRegistry, KidsOwn, RouterTypes, Kids, ProviderStates
  <2> QED BY <2>1, <2>2, <2>3 DEF BridgeInv
<1>2. BridgeInv /\ [BridgeNext]_allVars => BridgeInv'
  <2> SUFFICES ASSUME BridgeInv, BridgeNext \/ UNCHANGED allVars  PROVE BridgeInv'
    OBVIOUS
  <2>1. SyncInv'
    BY BridgeSyncStep DEF BridgeInv
  <2>2. RouterTypes' /\ KidsOwn'
    BY RouterStep DEF BridgeInv
  <2>3. CASE Stored
    BY <2>1, <2>2, <2>3, StoredStays DEF BridgeInv, Delivered, ServedIsMemory
  <2>4. CASE ~Stored
    <3>1. Next \/ UNCHANGED <<feed, pc, mem, disk, saved, loop, history>>
      BY BridgeStepKinds DEF BridgeInv, allVars, vars
    <3>2. Delivered'
      BY <2>4, <3>1, DeliveredStep DEF BridgeInv
    <3>3. ServedIsMemory'
      BY <2>1, <2>4, ServedStep DEF BridgeInv
    <3> QED BY <2>1, <2>2, <3>2, <3>3 DEF BridgeInv
  <2> QED BY <2>3, <2>4
<1> QED BY <1>1, <1>2, PTL DEF BridgeSpec

-----------------------------------------------------------------------------
(* The theorems.                                                           *)

\* The syncer's indexes, cursors and counters keep their types, and so do the
\* router's snapshot and the provider's keys (syncer.go 86-227).
THEOREM BridgeTypes == BridgeSpec => []BridgeTypeOK
<1>1. BridgeInv => BridgeTypeOK
  BY DEF BridgeInv, SyncInv, RouterTypes, BridgeTypeOK
<1> QED BY <1>1, BridgeInductive, PTL

\* What replaying the feed after c over S makes of an item.
LEMMA ReplayIs ==
  ASSUME TypeOK, NEW c \in Cursor, NEW S, NEW x \in Items
  PROVE  x \in Replay(S, Feed(c)) <=>
           IF Touched(log, FeedOf(log, base, c.at), x) THEN Live(log, x) ELSE x \in S
<1> DEFINE I == FeedOf(log, base, c.at)
           T == {i \in I : Touches(log[i], x)}
<1>1. Feed(c) = I
  BY ModelFeed
<1>2. x \in Replay(S, I) <=> IF T = {} THEN x \in S ELSE Creates(log[Greatest(T)], x)
  BY DEF Replay
<1>3. CASE T = {}
  <2>1. ~Touched(log, I, x)
    BY <1>3 DEF Touched
  <2> QED BY <2>1, <1>1, <1>2, <1>3
<1>4. CASE T # {}
  <2>1. Touched(log, I, x)
    BY <1>4 DEF Touched
  <2>2. Len(log) \in Nat /\ DOMAIN log = 1 .. Len(log) /\ base \in 0 .. Len(log) /\ c.at \in Nat
    BY LogFacts DEF Cursor
  <2>3. I \subseteq 0 .. Len(log)
    <3>1. I \subseteq 1 .. Len(log)
      BY <2>2, FeedIn
    <3>2. 1 .. Len(log) \subseteq 0 .. Len(log)
      OBVIOUS
    <3> QED BY <3>1, <3>2
  <2>4. Greatest(T) \in T /\ \A j \in T : j <= Greatest(T)
    <3>1. T \subseteq 0 .. Len(log)
      BY <2>3
    <3> HIDE DEF T
    <3> QED BY <1>4, <2>2, <3>1, GreatestIs
  <2> DEFINE m == Greatest(T)
  <2>5. m \in I /\ Touches(log[m], x)
    BY <2>4
  <2>6. \A j \in I : j > m => ~Touches(log[j], x)
    <3> SUFFICES ASSUME NEW j \in I, j > m, Touches(log[j], x)  PROVE FALSE
      OBVIOUS
    <3>1. j \in T
      OBVIOUS
    <3>2. j \in Nat /\ m \in Nat /\ j <= m
      BY <3>1, <2>2, <2>3, <2>4, <2>5
    <3> HIDE DEF m, T
    <3> QED BY <3>2
  <2>7. Live(log, x) <=> Creates(log[m], x)
    <3> HIDE DEF m
    <3> QED BY <2>2, <2>5, <2>6, FeedDecides
  <2> QED BY <2>1, <2>7, <1>1, <1>2, <1>4
<1> QED BY <1>3, <1>4

\* Wherever the process dies, the store and the saved cursor recover the
\* registry's state, for any number of items, events and faults and any page
\* sizes (Run, syncer.go 165-203).
THEOREM StoreRecovers == BridgeSpec => []Recoverable
<1>1. BridgeInv => Recoverable
  <2> SUFFICES ASSUME BridgeInv, Stored, rewind = "no", ~Expired(saved)
               PROVE  /\ Truth \subseteq Replay(disk, Feed(saved))
                      /\ saved # Start => Replay(disk, Feed(saved)) \subseteq Truth \cup orphans
    BY DEF Recoverable
  <2>1. TypeOK /\ saved \in Cursor /\ Good(log, base, orphans, disk, saved)
    BY DEF BridgeInv, SyncInv, TypeOK, StoreFollows
  <2>2. saved = Start \/ Answered(saved, base)
    BY <2>1, ModelFeed
  <2>3. ASSUME NEW x \in Truth  PROVE x \in Replay(disk, Feed(saved))
    <3>1. x \in Items /\ Live(log, x)
      BY <2>3, ModelTruth
    <3>2. Touched(log, FeedOf(log, base, saved.at), x) \/ x \in disk
      <4>1. CASE saved = Start
        BY <4>1, <3>1, <2>1, LogFacts, LiveIsFed, StartFacts
      <4>2. CASE saved # Start
        BY <4>2, <3>1, <2>1, <2>2 DEF Good, Sound, Right
      <4> QED BY <4>1, <4>2
    <3> QED BY <3>1, <3>2, <2>1, ReplayIs
  <2>4. ASSUME saved # Start, NEW x \in Replay(disk, Feed(saved))  PROVE x \in Truth \cup orphans
    <3>1. x \in Items
      BY <2>4 DEF Replay
    <3>2. IF Touched(log, FeedOf(log, base, saved.at), x) THEN Live(log, x) ELSE x \in disk
      BY <3>1, <2>1, <2>4, ReplayIs
    <3>3. Live(log, x) \/ x \in orphans
      BY <3>1, <3>2, <2>1, <2>2, <2>4 DEF Good, Sound, Right
    <3> QED BY <3>1, <3>3, ModelTruth
  <2> QED BY <2>3, <2>4
<1> QED BY <1>1, BridgeInductive, PTL

\* A syncer whose cursor is at the end of the feed serves the registry's
\* state from memory and from the store (syncer.go 86-227).
THEOREM SyncersCatchUp == BridgeSpec => []CaughtUp
<1>1. BridgeInv => CaughtUp
  <2> SUFFICES ASSUME BridgeInv, pc = "fetch", cur.at = Len(log), rewind # "torn"  PROVE InStep
    BY DEF CaughtUp
  <2>1. TypeOK /\ cur \in Cursor /\ mem \subseteq Items /\ disk \subseteq Items
        /\ Good(log, base, orphans, mem, cur) /\ (Stored => Good(log, base, orphans, disk, cur))
    BY DEF BridgeInv, SyncInv, TypeOK, CursorFollows, Running
  <2>2. Len(log) \in Nat /\ DOMAIN log = 1 .. Len(log) /\ base \in 0 .. Len(log)
    BY <2>1, LogFacts
  <2>3. CASE cur = Start
    <3>1. Len(log) = 0
      BY <2>3, StartFacts
    <3>2. log = <<>>
      BY <3>1, <2>1 DEF TypeOK
    <3>3. mem = {} /\ disk = {}
      BY <3>2 DEF BridgeInv, SyncInv, StartsEmpty
    <3>4. Truth = {}
      BY <3>1 DEF Truth, TruthAt
    <3> QED BY <3>3, <3>4 DEF InStep
  <2>4. CASE cur # Start
    <3>1. Answered(cur, base)
      BY <2>2 DEF Answered
    <3>2. \A x : ~Touched(log, FeedOf(log, base, cur.at), x)
      BY <2>2 DEF FeedOf, Touched
    <3>3. ASSUME NEW S, S \subseteq Items, Good(log, base, orphans, S, cur)
          PROVE  Truth \subseteq S /\ S \subseteq Truth \cup orphans
      BY <2>4, <3>1, <3>2, <3>3, ModelTruth DEF Good, Sound, Right
    <3> QED BY <2>1, <3>3 DEF InStep
  <2> QED BY <2>3, <2>4
<1> QED BY <1>1, BridgeInductive, PTL

\* The router serves the registry as of its feed position
\* (rebuildRouterSnapshot, registry_bridge.go 165-222).
THEOREM ServedAsOf == BridgeSpec => []ServedAsOfCursor
<1>1. BridgeInv => ServedAsOfCursor
  <2> DEFINE a == cur.at
             h == cur.horizon
             then == TruthAt(a) \cap Properties
             kept == IF h > a THEN then \cap TruthAt(h) ELSE then
  <2> SUFFICES ASSUME BridgeInv, ~Stored, pc = "fetch", cur # Start
               PROVE  /\ served.props \subseteq then
                      /\ (~Expired(cur) /\ \A i \in Feed(cur) : i > h) => kept \subseteq served.props
    BY DEF ServedAsOfCursor
  <2>1. TypeOK /\ cur \in Cursor /\ h <= base /\ a <= Len(log)
    BY DEF BridgeInv, SyncInv, TypeOK, CursorsIssued
  <2>2. a \in Nat /\ h \in Nat /\ base \in Nat /\ Len(log) \in Nat /\ DOMAIN log = 1 .. Len(log) /\ base <= Len(log)
    BY <2>1, LogFacts DEF Cursor
  <2>3. served.props = mem \cap Properties /\ \A x \in Items : x \in mem <=> Held(log, x, a, h)
    BY DEF BridgeInv, ServedIsMemory, Delivered
  <2>4. mem \subseteq Items
    BY <2>1 DEF TypeOK
  <2>5. served.props \subseteq then
    BY <2>3, <2>4 DEF Held, TruthAt
  <2>6. ASSUME ~Expired(cur), \A i \in Feed(cur) : i > h, NEW x \in kept  PROVE x \in served.props
    <3>1. x \in TruthAt(a) /\ x \in Properties /\ x \in Items /\ (h > a => x \in TruthAt(h))
      BY <2>6 DEF TruthAt
    <3>2. \A j \in a + 1 .. h : ~Touches(log[j], x)
      <4> SUFFICES ASSUME h > a, Touched(log, a + 1 .. h, x)  PROVE FALSE
        BY <2>2 DEF Touched
      <4>1. h = base
        BY <2>1, <2>2, <2>6, ModelFeed DEF Answered
      <4>2. PICK k \in a + 1 .. h : /\ Touches(log[k], x)
                                    /\ \A j \in a + 1 .. h : j > k => ~Touches(log[j], x)
        <5> DEFINE R == a + 1 .. h
        <5>1. R \subseteq 1 .. h /\ h \in Nat /\ Touched(log, R, x)
          BY <2>2
        <5> HIDE DEF R, h
        <5>2. \E k \in R : Touches(log[k], x) /\ \A j \in R : j > k => ~Touches(log[j], x)
          BY <5>1, LastIn
        <5> QED BY <5>2 DEF R
      <4>3. PICK i \in 1 .. h : Creates(log[i], x) /\ \A j \in i + 1 .. h : ~Deletes(log[j], x)
        BY <3>1 DEF TruthAt
      <4>4. Creates(log[k], x)
        <5>1. CASE k < i
          <6>1. i \in a + 1 .. h /\ i > k
            BY <5>1, <2>2
          <6> QED BY <6>1, <4>2, <4>3 DEF Touches
        <5>2. CASE k = i
          BY <5>2, <4>3
        <5>3. CASE k > i
          <6>1. k \in i + 1 .. h
            BY <5>3, <2>2
          <6> QED BY <6>1, <4>2, <4>3 DEF Touches
        <5> QED BY <5>1, <5>2, <5>3, <2>2
      <4>5. \A j \in k + 1 .. h : ~Touches(log[j], x)
        BY <4>2, <2>2
      <4>6. Kept(log, base, k)
        BY <4>1, <4>4, <4>5, <3>1 DEF Kept
      <4>7. k \in FeedOf(log, base, a)
        BY <4>1, <4>6, <2>1, <2>2 DEF FeedOf
      <4>8. k \in Feed(cur)
        BY <4>7, <2>1, ModelFeed
      <4> QED BY <4>8, <2>2, <2>6
    <3>3. Held(log, x, a, h)
      BY <3>1, <3>2 DEF TruthAt, Held
    <3> QED BY <3>1, <3>3, <2>3
  <2> QED BY <2>5, <2>6
<1> QED BY <1>1, BridgeInductive, PTL

\* A running provider keeps the router's key through every snapshot, the
\* empty ones after a restart included (keystore_remote.go 162-175).
THEOREM KeysAreKept == BridgeSpec => KeyKept
<1>1. BridgeInv /\ [BridgeNext]_allVars =>
        [(routerKey \in trusted /\ routerKey' = routerKey /\ provider' # "down") => routerKey \in trusted']_allVars
  <2> SUFFICES ASSUME KidsOwn, BridgeNext, routerKey \in trusted, provider' # "down"
               PROVE  routerKey \in trusted'
    BY DEF BridgeInv
  <2>1. CASE Refresh
    BY <2>1 DEF Refresh, KidsOwn
  <2>2. CASE RestartProvider
    BY <2>2 DEF RestartProvider
  <2>3. CASE ~Refresh /\ ~RestartProvider
    BY <2>3 DEF BridgeNext, BridgeSync, Polls, bridgeVars, RestartRouter, RefreshFails
  <2> QED BY <2>1, <2>2, <2>3
<1> QED BY <1>1, BridgeInductive, PTL DEF BridgeSpec, KeyKept
=============================================================================
