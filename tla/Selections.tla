----------------------------- MODULE Selections -----------------------------
(***************************************************************************)
(* The instrument list and the selections made from it.                    *)
(*                                                                         *)
(* fetch-all-isins writes the list of every exchange's instruments.        *)
(* metadata-filter selects from that list, univariate-filter from the      *)
(* listings that have statistics.  A filter writes the selection's rows,   *)
(* then its manifest, then a pointer to it, each in place.  The commands   *)
(* that work on a selection look it up under locks of their own, so they   *)
(* run between any two of these writes, and a filter may stop at any.      *)
(*                                                                         *)
(* Instruments are names; a filter is the set of listings it matches.      *)
(***************************************************************************)
EXTENDS TableFiles, Naturals, FiniteSets, Functions

CONSTANTS
  Exchanges, Offered,     \* Offered[x]: the listings of an exchange
  MetadataFilters, UnivariateFilters,
  Matching,               \* Matching[p]: the listings a filter matches
  MaxSecond, MaxCommands, MaxStops   \* bounds

Filters == MetadataFilters \cup UnivariateFilters
Kinds == {"metadata", "univariate"}
KindOf(p) == IF p \in MetadataFilters THEN "metadata" ELSE "univariate"
Of(k) == IF k = "metadata" THEN MetadataFilters ELSE UnivariateFilters

\* The commands that read a selection.
Readers == {"fetch-all-quotes", "univariate-statistics", "bivariate-statistics"}
Listed == UNION Range(Offered)

Manifests == [count : Nat, created : Nat]

\* What a filter command holds, and where it is.
Filterings ==
  [of : Filters, rows : SUBSET Listed, at : {"rows", "manifest", "pointer"}, stamp : Nat]

ASSUME SelectionsAssumption ==
  /\ DOMAIN Offered = Exchanges
  /\ MetadataFilters \cap UnivariateFilters = {}
  /\ Matching \in [Filters -> SUBSET Listed]
  /\ IsFiniteSet(Listed)
  \* No file and half a file are no table, and no command is none.
  /\ \A mark \in {None, Torn} :
       /\ mark \notin Filters
       /\ \A rows \in SUBSET Listed : mark # rows
       /\ mark \notin Manifests
       /\ mark \notin Filterings

VARIABLES
  allIsins,   \* reference/all_isins
  fetching,   \* the fetch-all-isins command: exchanges left, rows so far
  members,    \* members[p]: the rows of a selection
  manifest,   \* manifest[p]: its row count and the second it was made
  pointer,    \* pointer[k]: the current selection of a kind
  filtering,  \* filtering[k]: the command of a kind
  reading,    \* reading[c]: the selection a command resolved
  statistics, \* the listings with univariate statistics
  second,     \* the clock, as timestamps show it
  found,      \* history: found[p], every result the filter p had
  commands, stops

files == <<allIsins, members, manifest, pointer, statistics>>
bounds == <<second, commands, stops>>
selections ==
  <<files, fetching, filtering, reading, found, bounds>>

SelectionsInit ==
  /\ allIsins = None /\ fetching = None
  /\ members = [p \in Filters |-> None]
  /\ manifest = [p \in Filters |-> None]
  /\ pointer = [k \in Kinds |-> None]
  /\ filtering = [k \in Kinds |-> None]
  /\ reading = [c \in Readers |-> None]
  /\ statistics = {}
  /\ found = [p \in Filters |-> {}]
  /\ second = 0 /\ commands = 0 /\ stops = 0

Tick ==
  /\ second < MaxSecond /\ second' = second + 1
  /\ UNCHANGED <<files, fetching, filtering, reading, found, commands, stops>>

Begin == commands < MaxCommands /\ commands' = commands + 1

(* fetch-all-isins *)

StartFetch(xs, explicit) ==
  /\ fetching = None /\ Begin
  /\ fetching' = [left |-> xs, got |-> {}, explicit |-> explicit, at |-> "fetch"]
  /\ UNCHANGED <<files, filtering, reading, found, second, stops>>

FetchExchange(x) ==
  /\ fetching # None /\ fetching.at = "fetch" /\ x \in fetching.left
  /\ fetching' = [fetching EXCEPT !.left = @ \ {x}, !.got = @ \cup Offered[x]]
  /\ UNCHANGED <<files, filtering, reading, found, bounds>>

\* The provider refuses the exchange with 403 or 404.
SkipExchange(x) ==
  /\ fetching # None /\ fetching.at = "fetch" /\ x \in fetching.left
  /\ ~fetching.explicit
  /\ fetching' = [fetching EXCEPT !.left = @ \ {x}]
  /\ UNCHANGED <<files, filtering, reading, found, bounds>>

\* Any other error, and any error of an exchange the caller named.
FetchFails ==
  /\ fetching # None /\ fetching.at = "fetch" /\ fetching.left # {}
  /\ fetching' = None
  /\ UNCHANGED <<files, filtering, reading, found, bounds>>

OpenAllIsins ==
  /\ fetching # None /\ fetching.at = "fetch" /\ fetching.left = {}
  /\ fetching' = [fetching EXCEPT !.at = "write"]
  /\ allIsins' = Torn
  /\ UNCHANGED <<members, manifest, pointer, statistics, filtering, reading,
                 found, bounds>>

WriteAllIsins ==
  /\ fetching # None /\ fetching.at = "write"
  /\ fetching' = None
  /\ allIsins' = fetching.got
  /\ UNCHANGED <<members, manifest, pointer, statistics, filtering, reading,
                 found, bounds>>

(* metadata-filter and univariate-filter *)

\* A list that was never fetched reads as no rows.
Source(k) ==
  IF k = "univariate" THEN statistics
  ELSE IF allIsins = None THEN {} ELSE allIsins

StartFilter(p) ==
  LET k == KindOf(p) IN
  /\ filtering[k] = None /\ Begin
  /\ Source(k) # Torn
  /\ filtering' = [filtering EXCEPT ![k] =
       [of |-> p, rows |-> Source(k) \cap Matching[p], at |-> "rows", stamp |-> second]]
  /\ found' = [found EXCEPT ![p] = @ \cup {Source(k) \cap Matching[p]}]
  /\ members' = [members EXCEPT ![p] = Torn]
  /\ UNCHANGED <<allIsins, manifest, pointer, statistics, fetching, reading,
                 second, stops>>

\* The metadata filter took its timestamp before the first write.
Stamp(k) == IF k = "metadata" THEN filtering[k].stamp ELSE second

Manifest(k) ==
  [count |-> Cardinality(filtering[k].rows), created |-> filtering[k].stamp]

\* The rows are written; the manifest is opened.
WriteSelected(k) ==
  LET f == filtering[k] IN
  /\ f # None /\ f.at = "rows"
  /\ members' = [members EXCEPT ![f.of] = f.rows]
  /\ manifest' = [manifest EXCEPT ![f.of] = Torn]
  /\ filtering' = [filtering EXCEPT ![k] = [f EXCEPT !.at = "manifest", !.stamp = Stamp(k)]]
  /\ UNCHANGED <<allIsins, pointer, statistics, fetching, reading, found, bounds>>

\* The manifest is written; the pointer is opened.
WriteManifest(k) ==
  LET f == filtering[k] IN
  /\ f # None /\ f.at = "manifest"
  /\ manifest' = [manifest EXCEPT ![f.of] = Manifest(k)]
  /\ pointer' = [pointer EXCEPT ![k] = Torn]
  /\ filtering' = [filtering EXCEPT ![k] = [f EXCEPT !.at = "pointer"]]
  /\ UNCHANGED <<allIsins, members, statistics, fetching, reading, found, bounds>>

WritePointer(k) ==
  LET f == filtering[k] IN
  /\ f # None /\ f.at = "pointer"
  /\ pointer' = [pointer EXCEPT ![k] = f.of]
  /\ filtering' = [filtering EXCEPT ![k] = None]
  /\ UNCHANGED <<allIsins, members, manifest, statistics, fetching, reading,
                 found, bounds>>

\* What a stopped command leaves: the file it was writing torn, or whole and
\* the next one not yet opened.
LeftManifest(k) ==
  LET f == filtering[k] IN
  IF f.at = "manifest" THEN {Torn, Manifest(k)} ELSE {manifest[f.of]}

\* Variant: The rows that were written before the stop can be read.
LeftRowsReadable(f) == IF f.at = "rows" THEN SUBSET f.rows ELSE {members[f.of]}

\* Variant: Half a file is removed.
LeftRowsRemoved(f) == IF f.at = "rows" THEN {None, f.rows} ELSE {members[f.of]}

LeftRows(f) == IF f.at = "rows" THEN {Torn, f.rows} ELSE {members[f.of]}

FilterStops(k) ==
  LET f == filtering[k] IN
  /\ f # None /\ stops < MaxStops /\ stops' = stops + 1
  /\ filtering' = [filtering EXCEPT ![k] = None]
  /\ \E rows \in LeftRows(f) : members' = [members EXCEPT ![f.of] = rows]
  /\ \E m \in LeftManifest(k) : manifest' = [manifest EXCEPT ![f.of] = m]
  /\ UNCHANGED <<allIsins, pointer, statistics, fetching, reading, found, second,
                 commands>>

(* The commands that work on a selection *)

Known(k) == {p \in Of(k) : manifest[p] # None}

\* The manifest with the latest timestamp; the ties go to the larger id, which
\* is a digest.  A torn manifest fails the search.
Newest(k) ==
  {p \in Known(k) :
    /\ \A q \in Known(k) : Whole(manifest[q])
    /\ \A q \in Known(k) : manifest[q].created <= manifest[p].created}

\* The selection a kind's pointer names, or the newest one when there is none.
Current(k) == IF pointer[k] = None THEN Newest(k) ELSE {pointer[k]} \ {Torn}

\* The selections a command may come to work on when it is given none.
Resolved(c) ==
  CASE c = "fetch-all-quotes" -> Newest("metadata")
    [] c = "univariate-statistics" -> Current("metadata")
    [] c = "bivariate-statistics" -> Current("univariate")

\* The selections it accepts; statistics of pairs take one of either kind.
Accepts(c) == IF c = "bivariate-statistics" THEN Filters ELSE MetadataFilters

Resolve(c) ==
  /\ reading[c] = None /\ Begin
  /\ \E p \in Resolved(c) \cup Accepts(c) : reading' = [reading EXCEPT ![c] = p]
  /\ UNCHANGED <<files, fetching, filtering, found, second, stops>>

\* Statistics are written for each listing, and no file is ever removed.
Kept(c, rows) ==
  IF c = "univariate-statistics" THEN statistics \cup rows ELSE statistics

\* The rows of a selection that is missing or torn cannot be read.
TakeSelection(c) ==
  LET p == reading[c] IN
  /\ p # None
  /\ reading' = [reading EXCEPT ![c] = None]
  /\ statistics' = IF Whole(members[p]) THEN Kept(c, members[p]) ELSE statistics
  /\ UNCHANGED <<allIsins, members, manifest, pointer, fetching, filtering, found, bounds>>

SelectionsNext ==
  \/ Tick
  \/ \E xs \in SUBSET Exchanges : StartFetch(xs, TRUE) /\ xs # {}
  \/ StartFetch(Exchanges, FALSE)
  \/ \E x \in Exchanges : FetchExchange(x) \/ SkipExchange(x)
  \/ FetchFails \/ OpenAllIsins \/ WriteAllIsins
  \/ \E p \in Filters : StartFilter(p)
  \/ \E k \in Kinds :
       WriteSelected(k) \/ WriteManifest(k) \/ WritePointer(k) \/ FilterStops(k)
  \/ \E c \in Readers : Resolve(c) \/ TakeSelection(c)

SelectionsSpec == SelectionsInit /\ [][SelectionsNext]_selections

------------------------------------------------------------------------------
\* The files and the commands keep their shape.
SelectionsTypeOK ==
  /\ allIsins \in (SUBSET Listed) \cup {None, Torn}
  /\ \A p \in Filters : members[p] \in (SUBSET Listed) \cup {None, Torn}
  /\ \A k \in Kinds : pointer[k] \in Of(k) \cup {None, Torn}
  /\ \A k \in Kinds : filtering[k] = None \/ filtering[k].of \in Of(k)
  /\ statistics \in SUBSET Listed

\* A pointer names a selection whose rows and manifest were written: the commands
\* that follow it never find the selection missing.
PointersResolve ==
  \A k \in Kinds : pointer[k] \in Of(k) =>
    members[pointer[k]] # None /\ manifest[pointer[k]] # None

\* While no filter was interrupted, the commands that follow the pointer and the
\* command that searches the manifests work on selections of the same second,
\* and the manifests count the rows.
CurrentIsNewest ==
  \A k \in Kinds : stops = 0 /\ filtering[k] = None /\ Known(k) # {} =>
    /\ pointer[k] \in Newest(k)
    /\ \A p \in Known(k) : manifest[p].count = Cardinality(members[p])

\* What a command may read of the selection it resolved is one whole result of its
\* filter, of whichever run of the filter, and never a mixture of two.
ReadersSeeResults ==
  \A c \in Readers : reading[c] # None /\ Whole(members[reading[c]]) =>
    members[reading[c]] \in found[reading[c]]

\* A listing is selected by its statistics only if it was selected by its
\* metadata before, and was on the instrument list.
SelectedByMetadataFirst ==
  \A p \in UnivariateFilters : Whole(members[p]) =>
    members[p] \subseteq UNION UNION {found[q] : q \in MetadataFilters}

\* A selection that is read is a whole result, and within what was selected before it.
SelectionsAreWhole == SelectionsTypeOK /\ ReadersSeeResults /\ SelectedByMetadataFirst

\* Both ways to a selection, by pointer and by manifests, lead to one that is there, the newest.
PointersAreCurrent == PointersResolve /\ CurrentIsNewest
=============================================================================
