-------------------------- MODULE StatisticsCaches --------------------------
(***************************************************************************)
(* The Gold caches of univariate and bivariate statistics, and the three   *)
(* commands that fill them: univariate-statistics, bivariate-statistics    *)
(* and the cached mode of multivariate-statistics, which fills both and    *)
(* then reads a selection back.  Each command has a lock of its own, so    *)
(* two commands may write the same files at once, while Silver grows.      *)
(* A file is rewritten in place: a process that dies may leave it torn.    *)
(*                                                                         *)
(* A listing's quotes are the days it has quotes for.  Statistics are the  *)
(* data they were computed from: the days of a listing; of a pair, each    *)
(* common return day with the two days the returns start from.             *)
(***************************************************************************)
EXTENDS QuoteReturns, TableFiles, FiniteSets, Sequences

CONSTANTS
  Order,       \* the listings, in the order of (isin, exchange, code)
  IsinOf,
  FileOf,      \* gold_univariate_statistics(exchange, isin)
  Paying,      \* listings with dividends in Bronze
  FirstQuotes, \* the days of Silver at the start
  LastDay,
  Backfills,   \* may Silver gain a day before one it has?
  Selections,  \* the members of the selections the commands run on
  BucketCount,
  MaxPairCount,
  MaxRuns, MaxCrashes   \* bounds

Days == 1 .. LastDay
Listings == {Order[i] : i \in DOMAIN Order}
Files == {FileOf[l] : l \in Listings}
Buckets == 0 .. BucketCount - 1
Commands == {"univariate", "bivariate", "multivariate"}

\* The commands that write a file the command also writes.
Rivals == [univariate |-> {"multivariate"}, bivariate |-> {"multivariate"},
           multivariate |-> {"univariate", "bivariate"}]

UniRow == [listing : Listings, days : SUBSET Days, level : {"0.975", "0.95"}, paid : BOOLEAN]

ASSUME CachesAssumption ==
  /\ Order \in Seq(Listings) /\ IsInjective(Order)
  /\ DOMAIN FileOf = Listings
  /\ FirstQuotes \in [Listings -> SUBSET Days]
  /\ Selections \subseteq SUBSET Listings
  /\ Paying \subseteq Listings
  /\ Backfills \in BOOLEAN
  /\ LastDay \in Nat /\ BucketCount \in Nat \ {0} /\ MaxPairCount \in Nat
  /\ MaxRuns \in Nat /\ MaxCrashes \in Nat
  \* No file and half a file are no row.
  /\ None \notin UniRow /\ Torn \notin UniRow

VARIABLES
  quotes,     \* Silver: the days of each listing
  rows,       \* rows[f]: the univariate row in file f
  buckets,    \* buckets[b]: the pair rows in bucket file b of version "current"
  at,         \* at[c]: where command c is
  selected,   \* selected[c]: the members of the selection c works on
  snap,       \* snap[c]: the quotes c has read, of the members that have any
  todo,       \* todo[c]: univariate rows still to be written
  final,      \* final[c]: final_by_bucket
  dirty,      \* dirty[c]: bucket files still to be written
  delivered,  \* what the multivariate command read back
  runs, crashes,
  alone       \* history: alone[c], no rival has run since c started

locals == <<at, selected, snap, todo, final, dirty, delivered, alone>>
counts == <<runs, crashes>>
vars == <<quotes, rows, buckets, locals, counts>>

Rank(l) == CHOOSE i \in DOMAIN Order : Order[i] = l
First(S) == CHOOSE l \in S : \A k \in S : Rank(l) <= Rank(k)

(* Statistics *)

Level(c) == IF c = "univariate" THEN "0.975" ELSE "0.95"

\* The multivariate command passes no dividends.
UnivariateRow(c, l, Q) ==
  [listing |-> l, days |-> Q, level |-> Level(c),
   paid |-> c = "univariate" /\ l \in Paying]

CachedRow(c, l, Q, row) ==
  /\ row # None
  /\ row.listing = l
  /\ row.level = Level(c)
  /\ row.paid = (c = "univariate" /\ l \in Paying)
  /\ Cardinality(row.days) = Cardinality(Q)
  /\ Min(row.days) = Min(Q) /\ Max(row.days) = Max(Q)

\* The listings of the pair computation, and their positions in it.
Universe(Q) == {l \in DOMAIN Q : ReturnDays(Q[l]) # {}}

Id(U, l) == Cardinality({k \in U : Rank(k) < Rank(l)})

PairsOf(U) ==
  {p \in U \X U : Rank(p[1]) < Rank(p[2]) /\ IsinOf[p[1]] # IsinOf[p[2]]}

Observations(Q, p) == Common(Q[p[1]], Q[p[2]])

BucketOf(U, p) == Id(U, p[1]) % BucketCount

PairRow(Q, p) ==
  LET U == Universe(Q) IN
  [pair |-> p, ids |-> <<Id(U, p[1]), Id(U, p[2])>>,
   bucket |-> BucketOf(U, p), seen |-> Observations(Q, p)]

SameBounds(S, T) ==
  \/ S = {} /\ T = {}
  \/ S # {} /\ T # {} /\ Min(S) = Min(T) /\ Max(S) = Max(T)

\* Variant: A pair's row is taken for its name and bucket.
MatchesByName(row, Q, p) == row.pair = p /\ row.bucket = BucketOf(Universe(Q), p)

\* Version and listing keys agree by the key the row is looked up with.
CacheRowMatches(row, Q, p) ==
  LET days == {o[1] : o \in row.seen}
      common == {o[1] : o \in Observations(Q, p)}
  IN /\ row.bucket = BucketOf(Universe(Q), p)
     /\ SameBounds(days, common)
     /\ Cardinality(row.seen) = Cardinality(common)

\* A bucket with a row that names another is discarded.
Existing(b) ==
  IF \E r \in buckets[b] : r.bucket # b THEN {} ELSE buckets[b]

Keys(R) == {r.pair : r \in R}

\* cache_index: a later bucket wins.
CachedFor(Q, p) ==
  LET holding == {b \in Buckets : p \in Keys(Existing(b))}
      row == CHOOSE r \in Existing(Max(holding)) : r.pair = p
  IN IF holding # {} /\ CacheRowMatches(row, Q, p) THEN row ELSE None

FinalBuckets(Q) ==
  LET U == Universe(Q) IN
  [b \in Buckets |->
     {IF CachedFor(Q, p) # None THEN CachedFor(Q, p) ELSE PairRow(Q, p) :
        p \in {q \in PairsOf(U) : BucketOf(U, q) = b}}]

\* Variant: Only buckets with fresh rows are written.
WithFreshRows(Q) ==
  {b \in Buckets : \E r \in FinalBuckets(Q)[b] : CachedFor(Q, r.pair) = None}

DirtyBuckets(Q) ==
  {b \in Buckets :
     \/ \E r \in FinalBuckets(Q)[b] : CachedFor(Q, r.pair) = None
     \/ Keys(Existing(b)) # Keys(FinalBuckets(Q)[b])}

-----------------------------------------------------------------------------

Init ==
  /\ quotes = FirstQuotes
  /\ rows = [f \in Files |-> None]
  /\ buckets = [b \in Buckets |-> {}]
  /\ at = [c \in Commands |-> "idle"]
  /\ selected = [c \in Commands |-> {}]
  /\ snap = [c \in Commands |-> <<>>]
  /\ todo = [c \in Commands |-> {}]
  /\ final = [c \in Commands |-> [b \in Buckets |-> {}]]
  /\ dirty = [c \in Commands |-> {}]
  /\ delivered = None
  /\ runs = 0 /\ crashes = 0
  /\ alone = [c \in Commands |-> FALSE]

Goto(c, label) == at' = [at EXCEPT ![c] = label]

Readable(F, content) == \A x \in F : content[x] # Torn

\* The quotes workflow brings a day to Silver.
GrowSilver(l, d) ==
  /\ d \notin quotes[l]
  /\ Backfills \/ \A e \in quotes[l] : e < d
  /\ quotes' = [quotes EXCEPT ![l] = @ \cup {d}]
  /\ UNCHANGED <<rows, buckets, locals, counts>>

\* The module lock is free; the selection and its quotes are read.
Start(c, S) ==
  /\ at[c] = "idle" /\ runs < MaxRuns
  /\ Goto(c, IF c = "bivariate" THEN "pairs" ELSE "rows")
  /\ selected' = [selected EXCEPT ![c] = S]
  /\ snap' = [snap EXCEPT ![c] = [l \in {k \in S : quotes[k] # {}} |-> quotes[l]]]
  /\ alone' = [b \in Commands |->
       IF b = c THEN \A r \in Rivals[c] : at[r] = "idle"
       ELSE alone[b] /\ b \notin Rivals[c]]
  /\ delivered' = IF c = "multivariate" THEN None ELSE delivered
  /\ runs' = runs + 1
  /\ UNCHANGED <<quotes, rows, buckets, todo, final, dirty, crashes>>

\* The command returns, raises or dies; its lock is released.
Leave(c) ==
  /\ Goto(c, "idle")
  /\ selected' = [selected EXCEPT ![c] = {}]
  /\ snap' = [snap EXCEPT ![c] = <<>>]
  /\ todo' = [todo EXCEPT ![c] = {}]
  /\ final' = [final EXCEPT ![c] = [b \in Buckets |-> {}]]
  /\ dirty' = [dirty EXCEPT ![c] = {}]
  /\ alone' = [alone EXCEPT ![c] = FALSE]

(* write_univariate_statistics *)

CheckRows(c) ==
  /\ at[c] = "rows"
  /\ Readable({FileOf[l] : l \in DOMAIN snap[c]}, rows)
  /\ Goto(c, "writing rows")
  /\ todo' = [todo EXCEPT ![c] =
       {UnivariateRow(c, l, snap[c][l]) :
          l \in {k \in DOMAIN snap[c] : ~CachedRow(c, k, snap[c][k], rows[FileOf[k]])}}]
  /\ UNCHANGED <<quotes, rows, buckets, selected, snap, final, dirty, delivered, alone, counts>>

NextRow(c) ==
  LET l == First({r.listing : r \in todo[c]})
  IN CHOOSE r \in todo[c] : r.listing = l

WriteRow(c) ==
  /\ at[c] = "writing rows" /\ todo[c] # {}
  /\ rows' = [rows EXCEPT ![FileOf[NextRow(c).listing]] = NextRow(c)]
  /\ todo' = [todo EXCEPT ![c] = @ \ {NextRow(c)}]
  /\ UNCHANGED <<quotes, buckets, at, selected, snap, final, dirty, delivered, alone, counts>>

RowsWritten(c) ==
  /\ at[c] = "writing rows" /\ todo[c] = {}
  /\ IF c = "univariate"
     THEN Leave(c)
     ELSE Goto(c, "pairs") /\ UNCHANGED <<selected, snap, todo, final, dirty, alone>>
  /\ UNCHANGED <<quotes, rows, buckets, delivered, counts>>

(* write_bivariate_statistics *)

\* The guard is on the count of all pairs, before same-ISIN pairs are skipped.
PlanAccepted(U) == (Cardinality(U) * (Cardinality(U) - 1)) \div 2 <= MaxPairCount

ReadBuckets(c) ==
  /\ at[c] = "pairs"
  /\ PlanAccepted(Universe(snap[c]))
  /\ Readable(Buckets, buckets)
  /\ Goto(c, "writing pairs")
  /\ final' = [final EXCEPT ![c] = FinalBuckets(snap[c])]
  /\ dirty' = [dirty EXCEPT ![c] = DirtyBuckets(snap[c])]
  /\ UNCHANGED <<quotes, rows, buckets, selected, snap, todo, delivered, alone, counts>>

\* A bucket without rows is unlinked.
WriteBucket(c) ==
  /\ at[c] = "writing pairs" /\ dirty[c] # {}
  /\ buckets' = [buckets EXCEPT ![Min(dirty[c])] = final[c][Min(dirty[c])]]
  /\ dirty' = [dirty EXCEPT ![c] = @ \ {Min(@)}]
  /\ UNCHANGED <<quotes, rows, at, selected, snap, todo, final, delivered, alone, counts>>

PairsWritten(c) ==
  /\ at[c] = "writing pairs" /\ dirty[c] = {}
  /\ IF c = "bivariate"
     THEN Leave(c)
     ELSE Goto(c, "view") /\ UNCHANGED <<selected, snap, todo, final, dirty, alone>>
  /\ UNCHANGED <<quotes, rows, buckets, delivered, counts>>

(* read_selection_statistics *)

PairIndex == UNION {buckets[b] : b \in Buckets}

Present(S) ==
  /\ \A l \in S : Whole(rows[FileOf[l]]) /\ rows[FileOf[l]].listing = l
  /\ PairsOf(S) \subseteq Keys(PairIndex)

\* The view of a complete selection is written; nothing reads the file.
BuildView(c) ==
  /\ at[c] = "view"
  /\ Readable({FileOf[l] : l \in selected[c]}, rows) /\ Readable(Buckets, buckets)
  /\ Present(selected[c])
  /\ Goto(c, "reading")
  /\ UNCHANGED <<quotes, rows, buckets, selected, snap, todo, final, dirty, delivered,
                 alone, counts>>

Delivery(c) ==
  [of |-> selected[c],
   rows |-> {rows[FileOf[l]] : l \in selected[c]},
   pairs |-> {CHOOSE r \in buckets[Max({b \in Buckets : p \in Keys(buckets[b])})] : r.pair = p :
                p \in PairsOf(selected[c]) \cap Keys(PairIndex)}]

\* The files are read once more.
ReadSelection(c) ==
  /\ at[c] = "reading"
  /\ Readable({FileOf[l] : l \in selected[c]}, rows) /\ Readable(Buckets, buckets)
  /\ PairsOf(selected[c]) \subseteq Keys(PairIndex)
  /\ Goto(c, "delivered")
  /\ delivered' = Delivery(c)
  /\ UNCHANGED <<quotes, rows, buckets, selected, snap, todo, final, dirty, alone, counts>>

Deliver(c) ==
  /\ at[c] = "delivered"
  /\ Leave(c)
  /\ UNCHANGED <<quotes, rows, buckets, delivered, counts>>

\* A rejected plan, an unreadable file, a missing row or a pair that has gone.
Raise(c) ==
  /\ \/ at[c] = "rows" /\ ~Readable({FileOf[l] : l \in DOMAIN snap[c]}, rows)
     \/ at[c] = "pairs" /\ ~(PlanAccepted(Universe(snap[c])) /\ Readable(Buckets, buckets))
     \/ /\ at[c] \in {"view", "reading"}
        /\ ~/\ Readable({FileOf[l] : l \in selected[c]}, rows) /\ Readable(Buckets, buckets)
            /\ at[c] = "view" => Present(selected[c])
            /\ at[c] = "reading" => PairsOf(selected[c]) \subseteq Keys(PairIndex)
  /\ Leave(c)
  /\ UNCHANGED <<quotes, rows, buckets, delivered, counts>>

\* A process dies, possibly with a file half written.
Crash(c) ==
  /\ crashes < MaxCrashes
  /\ at[c] # "idle"
  /\ \/ UNCHANGED <<rows, buckets>>
     \/ /\ at[c] = "writing rows" /\ todo[c] # {}
        /\ rows' = [rows EXCEPT ![FileOf[NextRow(c).listing]] = Torn]
        /\ UNCHANGED buckets
     \/ /\ at[c] = "writing pairs" /\ dirty[c] # {} /\ final[c][Min(dirty[c])] # {}
        /\ buckets' = [buckets EXCEPT ![Min(dirty[c])] = Torn]
        /\ UNCHANGED rows
  /\ Leave(c)
  /\ crashes' = crashes + 1
  /\ UNCHANGED <<quotes, delivered, runs>>

Univariate(c) == CheckRows(c) \/ WriteRow(c) \/ RowsWritten(c)
Bivariate(c) == ReadBuckets(c) \/ WriteBucket(c) \/ PairsWritten(c)
Readback(c) == BuildView(c) \/ ReadSelection(c) \/ Deliver(c)

Next ==
  \/ \E l \in Listings, d \in Days : GrowSilver(l, d)
  \/ \E c \in Commands :
       \/ \E S \in Selections : Start(c, S)
       \/ Univariate(c) \/ Bivariate(c) \/ Readback(c)
       \/ Raise(c) \/ Crash(c)

Spec == Init /\ [][Next]_vars

-----------------------------------------------------------------------------
(* Properties *)

IsPairRow(r) ==
  /\ r.pair \in Listings \X Listings
  /\ r.ids \in (0 .. Len(Order)) \X (0 .. Len(Order))
  /\ r.bucket \in Buckets
  /\ r.seen \subseteq Days \X Days \X Days

\* Every file holds rows of its own listing or bucket, with their types, so that
\* a bucket is never taken for a foreign one.
TypeOK ==
  /\ quotes \in [Listings -> SUBSET Days]
  /\ \A f \in Files : rows[f] \in UniRow \cup {None, Torn} /\
       (rows[f] \in UniRow => FileOf[rows[f].listing] = f)
  /\ \A b \in Buckets : buckets[b] # Torn =>
       \A r \in buckets[b] : IsPairRow(r) /\ r.bucket = b
  /\ \A c \in Commands :
       /\ at[c] \in {"idle", "rows", "writing rows", "pairs", "writing pairs", "view",
                     "reading", "delivered"}
       /\ selected[c] \in Selections \cup {{}}
       /\ DOMAIN snap[c] \subseteq selected[c]
       /\ todo[c] \subseteq UniRow
       /\ dirty[c] \subseteq Buckets
  /\ runs \in 0 .. MaxRuns /\ crashes \in 0 .. MaxCrashes

Exact(c, l) == rows[FileOf[l]] = UnivariateRow(c, l, snap[c][l])

\* A command whose rivals did not run leaves, for each listing, the row its
\* quotes give, whichever rows of earlier runs it took from the cache
\* (listings with a file each).
UnivariateIsExact ==
  \A c \in Commands :
    at[c] = "writing rows" /\ todo[c] = {} /\ alone[c] /\ IsInjective(FileOf) =>
      \A l \in DOMAIN snap[c] : Exact(c, l)

\* After a command whose rivals did not run, the bucket files hold exactly one row
\* for each pair of its universe, computed from its quotes, and no row of another
\* universe, through crashes between files and moves of listings between buckets
\* (as long as days arrive in order).
BucketsAreExact ==
  \A c \in Commands :
    at[c] = "writing pairs" /\ dirty[c] = {} /\ alone[c] /\ ~Backfills =>
      LET U == Universe(snap[c]) IN
      \A b \in Buckets :
        /\ {<<r.pair, r.seen>> : r \in buckets[b]} =
             {<<p, Observations(snap[c], p)>> : p \in {q \in PairsOf(U) : BucketOf(U, q) = b}}
        /\ Cardinality(buckets[b]) = Cardinality(Keys(buckets[b]))

\* Whatever rivals do between the view and the second read, a delivered selection
\* has one row for each of its listings and one for each of its pairs, no other.
DeliveredIsComplete ==
  delivered # None =>
    /\ {r.listing : r \in delivered.rows} = delivered.of
    /\ Keys(delivered.pairs) = PairsOf(delivered.of)

\* Delivered without a rival, all statistics come from the quotes the command read.
DeliveredAgrees ==
  at["multivariate"] = "delivered" /\ alone["multivariate"] /\ ~Backfills =>
    LET Q == snap["multivariate"] IN
    /\ DOMAIN Q = delivered.of
    /\ \A r \in delivered.rows : r.days = Q[r.listing]
    /\ \A r \in delivered.pairs : r.seen = Observations(Q, r.pair)

\* Both caches: what a command leaves is what a computation without a cache gives.
CachesAreExact == TypeOK /\ UnivariateIsExact /\ BucketsAreExact

\* The cached multivariate command delivers a complete selection, from one reading of the quotes.
DeliveriesAreExact == DeliveredIsComplete /\ DeliveredAgrees
=============================================================================
