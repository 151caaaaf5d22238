---------------------------- MODULE CommandProofs ----------------------------
(***************************************************************************)
(* Theorems about the commands that share the lake's tables: the           *)
(* instrument list and its selections (Selections), and the caches of      *)
(* statistics (StatisticsCaches), for every value of their constants.      *)
(*                                                                         *)
(* A selection is three files that are written one after the other, while  *)
(* readers look at any of them: what holds of the files is said by how     *)
(* far the command that writes them has come.                              *)
(*                                                                         *)
(* A row is taken from a cache when the counts and the first and last days *)
(* of its data agree with the quotes.  Rows are of days Silver has, so     *)
(* they are within what a later command reads, and equal counts of one set *)
(* within another mean that the two are equal.                             *)
(***************************************************************************)
EXTENDS StatisticsCaches, Selections, FiniteSetTheorems, TLAPS

(* Selections *)

Tables == (SUBSET Listed) \cup {None, Torn}

Fetches ==
  [left : SUBSET Exchanges, got : SUBSET Listed, explicit : BOOLEAN, at : {"fetch", "write"}]

SelectionsTyped ==
  /\ allIsins \in Tables
  /\ fetching \in Fetches \cup {None}
  /\ members \in [Filters -> Tables]
  /\ manifest \in [Filters -> Manifests \cup {None, Torn}]
  /\ pointer \in [Kinds -> Filters \cup {None, Torn}]
  /\ filtering \in [Kinds -> Filterings \cup {None}]
  /\ reading \in [Readers -> Filters \cup {None}]
  /\ statistics \in SUBSET Listed
  /\ found \in [Filters -> SUBSET SUBSET Listed]
  /\ second \in Nat /\ stops \in Nat

\* Pointers and commands are of their kind.
KindsApart ==
  /\ \A k \in Kinds :
       /\ pointer[k] \in Of(k) \cup {None, Torn}
       /\ filtering[k] # None => filtering[k].of \in Of(k)
  /\ reading["univariate-statistics"] \in MetadataFilters \cup {None}

\* Rows in a file or in a command are what the filter found.
RowsWereFound ==
  /\ \A p \in Filters : Whole(members[p]) => members[p] \in found[p]
  /\ \A k \in Kinds : filtering[k] # None => filtering[k].rows \in found[filtering[k].of]

SelectedBefore == UNION UNION {found[q] : q \in MetadataFilters}

\* Statistics, and all that was selected by them, are of listings selected before.
FoundInOrder ==
  /\ statistics \subseteq SelectedBefore
  /\ \A p \in UnivariateFilters : UNION found[p] \subseteq SelectedBefore

\* The files of a selection appear in the order they are written in.
FilesInOrder ==
  /\ \A p \in Filters : manifest[p] # None => members[p] # None
  /\ \A k \in Kinds : filtering[k] # None =>
       /\ members[filtering[k].of] # None
       /\ filtering[k].at # "rows" => manifest[filtering[k].of] # None
       /\ filtering[k].at # "rows" => members[filtering[k].of] = filtering[k].rows
       /\ filtering[k].at = "pointer" => manifest[filtering[k].of] = Manifest(k)
  /\ \A k \in Kinds : pointer[k] \in Of(k) => manifest[pointer[k]] # None

\* No selection of a kind is newer than the one that is being made.
StampsRise ==
  /\ \A p \in Filters : manifest[p] \in Manifests => manifest[p].created <= second
  /\ \A k \in Kinds : filtering[k] # None =>
       /\ filtering[k].stamp <= second
       /\ \A p \in Of(k) : manifest[p] \in Manifests => manifest[p].created <= filtering[k].stamp

Writing(p) ==
  LET f == filtering[KindOf(p)] IN f # None /\ f.of = p /\ f.at \in {"rows", "manifest"}

\* As long as no filter stopped, only the selection that is being written is torn
\* or miscounted.
CountsAgree ==
  stops = 0 => \A p \in Filters : manifest[p] # None /\ ~Writing(p) =>
    /\ manifest[p] \in Manifests
    /\ manifest[p].count = Cardinality(members[p])

\* A torn manifest is one that is being written.
PointersFollow ==
  stops = 0 => \A k \in Kinds : filtering[k] = None /\ Known(k) # {} => pointer[k] \in Newest(k)

SelectionsInv ==
  /\ SelectionsTyped /\ KindsApart /\ RowsWereFound /\ FoundInOrder
  /\ FilesInOrder /\ StampsRise /\ CountsAgree /\ PointersFollow

LEMMA FiltersHaveKinds ==
  /\ \A k \in Kinds : Of(k) \subseteq Filters
  /\ \A p \in Filters : KindOf(p) \in Kinds /\ p \in Of(KindOf(p))
  /\ \A k \in Kinds : \A p \in Of(k) : KindOf(p) = k
  /\ \A k, l \in Kinds : k # l => Of(k) \cap Of(l) = {}
BY SelectionsAssumption DEF Kinds, Of, KindOf, Filters

\* No file and half a file are told from all else.
LEMMA MarksAreApart ==
  /\ None # Torn
  /\ \A p \in Filters : p # None /\ p # Torn
  /\ \A S \in SUBSET Listed : S # None /\ S # Torn
  /\ \A m \in Manifests : m # None /\ m # Torn
  /\ \A f \in Filterings : f # None /\ f # Torn
BY SelectionsAssumption, MarksAssumption

LEMMA ManifestsAreTyped ==
  ASSUME SelectionsTyped, NEW k \in Kinds, filtering[k] # None
  PROVE  Manifest(k) \in Manifests
<1>1. filtering[k] \in Filterings
  BY DEF SelectionsTyped
<1>2. IsFiniteSet(filtering[k].rows)
  BY <1>1, FS_Subset, SelectionsAssumption DEF Filterings
<1>3. Cardinality(filtering[k].rows) \in Nat
  BY <1>2, FS_CardinalityType
<1> QED
  BY <1>1, <1>3 DEF Manifest, Manifests, Filterings

\* Whatever leads to a selection leads to one of the kind that is looked for.
LEMMA ResolvedAreFilters ==
  ASSUME SelectionsTyped, KindsApart, NEW c \in Readers
  PROVE  /\ Resolved(c) \cup Accepts(c) \subseteq Filters
         /\ c = "univariate-statistics" => Resolved(c) \cup Accepts(c) \subseteq MetadataFilters
<1>1. \A k \in Kinds : Newest(k) \subseteq Of(k)
  BY DEF Newest, Known
<1>2. \A k \in Kinds : Current(k) \subseteq Of(k)
  BY <1>1 DEF Current, KindsApart
<1>3. Of("metadata") = MetadataFilters /\ Of("univariate") = UnivariateFilters
  BY DEF Of
<1> QED
  BY <1>1, <1>2, <1>3 DEF Resolved, Accepts, Readers, Filters, Kinds

LEMMA StepSelectionsTyped ==
  SelectionsTyped /\ KindsApart /\ [SelectionsNext]_selections => SelectionsTyped'
<1> SUFFICES ASSUME SelectionsTyped, KindsApart, [SelectionsNext]_selections
             PROVE  SelectionsTyped'
  OBVIOUS
<1> USE DEF SelectionsTyped, files, bounds, Begin, Tables
<1>1. CASE UNCHANGED selections
  BY <1>1 DEF selections
<1>2. CASE Tick
  BY <1>2 DEF Tick
<1>3. ASSUME NEW xs \in SUBSET Exchanges, NEW e \in BOOLEAN, StartFetch(xs, e)
      PROVE  SelectionsTyped'
  BY <1>3 DEF StartFetch, Fetches
<1>4. ASSUME NEW x \in Exchanges, FetchExchange(x) \/ SkipExchange(x)
      PROVE  SelectionsTyped'
  <2>1. Offered[x] \subseteq Listed
    BY SelectionsAssumption DEF Listed, Range
  <2>2. fetching \in Fetches
    BY <1>4 DEF FetchExchange, SkipExchange
  <2>3. fetching.got \cup Offered[x] \subseteq Listed
    BY <2>1, <2>2 DEF Fetches
  <2>4. fetching' \in Fetches
    BY <1>4, <2>2, <2>3 DEF FetchExchange, SkipExchange, Fetches
  <2> QED
    BY <1>4, <2>4 DEF FetchExchange, SkipExchange
<1>5. CASE FetchFails \/ OpenAllIsins \/ WriteAllIsins
  BY <1>5 DEF FetchFails, OpenAllIsins, WriteAllIsins, Fetches
<1>6. ASSUME NEW p \in Filters, StartFilter(p) PROVE SelectionsTyped'
  <2> DEFINE k == KindOf(p)
             got == Source(k) \cap Matching[p]
             f == [of |-> p, rows |-> got, at |-> "rows", stamp |-> second]
  <2>1. k \in Kinds
    BY FiltersHaveKinds
  <2>2. got \in SUBSET Listed
    BY SelectionsAssumption DEF Filters
  <2>3. f \in Filterings
    BY <2>2 DEF Filterings
  <2>4. filtering' = [filtering EXCEPT ![k] = f]
    BY <1>6 DEF StartFilter
  <2>5. found' = [found EXCEPT ![p] = @ \cup {got}]
    BY <1>6 DEF StartFilter
  <2>6. members' = [members EXCEPT ![p] = Torn]
    BY <1>6 DEF StartFilter
  <2>7. UNCHANGED <<allIsins, manifest, pointer, statistics, fetching, reading, second, stops>>
    BY <1>6 DEF StartFilter
  <2> HIDE DEF k, got, f
  <2>8. found' \in [Filters -> SUBSET SUBSET Listed]
    BY <2>2, <2>5
  <2>9. members' \in [Filters -> Tables]
    BY <2>6
  <2>10. filtering' \in [Kinds -> Filterings \cup {None}]
    BY <2>1, <2>3, <2>4
  <2> QED
    BY <2>7, <2>8, <2>9, <2>10
<1>7. ASSUME NEW k \in Kinds, WriteSelected(k) PROVE SelectionsTyped'
  <2>1. filtering[k] \in Filterings
    BY <1>7 DEF WriteSelected
  <2>2. Stamp(k) \in Nat
    BY <2>1 DEF Stamp, Filterings
  <2>3. [filtering[k] EXCEPT !.at = "manifest", !.stamp = Stamp(k)] \in Filterings
    BY <2>1, <2>2 DEF Filterings
  <2>4. filtering[k].rows \in SUBSET Listed
    BY <2>1 DEF Filterings
  <2> QED
    BY <1>7, <2>3, <2>4 DEF WriteSelected
<1>8. ASSUME NEW k \in Kinds, WriteManifest(k) PROVE SelectionsTyped'
  <2>1. filtering[k] \in Filterings
    BY <1>8 DEF WriteManifest
  <2>2. [filtering[k] EXCEPT !.at = "pointer"] \in Filterings
    BY <2>1 DEF Filterings
  <2>3. Manifest(k) \in Manifests
    BY <1>8, ManifestsAreTyped DEF WriteManifest
  <2> QED
    BY <1>8, <2>2, <2>3 DEF WriteManifest
<1>9. ASSUME NEW k \in Kinds, WritePointer(k) PROVE SelectionsTyped'
  <2>1. filtering[k] \in Filterings
    BY <1>9 DEF WritePointer
  <2>2. filtering[k].of \in Filters
    BY <2>1 DEF Filterings
  <2> QED
    BY <1>9, <2>2 DEF WritePointer
<1>10. ASSUME NEW k \in Kinds, FilterStops(k) PROVE SelectionsTyped'
  <2>1. filtering[k] \in Filterings
    BY <1>10 DEF FilterStops
  <2>2. filtering[k].of \in Filters /\ filtering[k].rows \in SUBSET Listed
    BY <2>1 DEF Filterings
  <2>3. Manifest(k) \in Manifests
    BY <1>10, ManifestsAreTyped DEF FilterStops
  <2>4. LeftRows(filtering[k]) \subseteq Tables
    BY <2>2 DEF LeftRows
  <2>5. LeftManifest(k) \subseteq Manifests \cup {None, Torn}
    BY <2>2, <2>3 DEF LeftManifest
  <2> QED
    BY <1>10, <2>2, <2>4, <2>5 DEF FilterStops
<1>11. ASSUME NEW c \in Readers, Resolve(c) PROVE SelectionsTyped'
  BY <1>11, ResolvedAreFilters DEF Resolve
<1>12. ASSUME NEW c \in Readers, TakeSelection(c) PROVE SelectionsTyped'
  <2>1. reading[c] \in Filters
    BY <1>12 DEF TakeSelection
  <2>2. Whole(members[reading[c]]) => members[reading[c]] \in SUBSET Listed
    BY <2>1 DEF Whole
  <2>3. statistics' \in SUBSET Listed
    BY <1>12, <2>2 DEF TakeSelection, Kept
  <2> QED
    BY <1>12, <2>3 DEF TakeSelection
<1> QED
  BY <1>1, <1>2, <1>3, <1>4, <1>5, <1>6, <1>7, <1>8, <1>9, <1>10, <1>11, <1>12
     DEF SelectionsNext

\* The commands that fetch the list and those that look a selection up leave the
\* files of the selections alone.
Aside ==
  /\ UNCHANGED <<members, manifest, pointer, statistics, filtering, found, stops>>
  /\ second <= second'

LEMMA StepsOfSelections ==
  ASSUME SelectionsTyped, [SelectionsNext]_selections
  PROVE  \/ Aside /\ UNCHANGED reading
         \/ Aside /\ \E c \in Readers : Resolve(c)
         \/ \E p \in Filters : StartFilter(p)
         \/ \E k \in Kinds :
              WriteSelected(k) \/ WriteManifest(k) \/ WritePointer(k) \/ FilterStops(k)
         \/ \E c \in Readers : TakeSelection(c)
<1> USE DEF files, bounds, Aside, SelectionsTyped
<1>1. CASE UNCHANGED selections
  BY <1>1 DEF selections
<1>2. CASE Tick
  BY <1>2 DEF Tick
<1>3. CASE \/ \E xs \in SUBSET Exchanges : StartFetch(xs, TRUE) /\ xs # {}
           \/ StartFetch(Exchanges, FALSE)
  BY <1>3 DEF StartFetch
<1>4. CASE \E x \in Exchanges : FetchExchange(x) \/ SkipExchange(x)
  BY <1>4 DEF FetchExchange, SkipExchange
<1>5. CASE FetchFails \/ OpenAllIsins \/ WriteAllIsins
  <2>1. FetchFails => Aside /\ UNCHANGED reading
    BY DEF FetchFails
  <2>2. OpenAllIsins => Aside /\ UNCHANGED reading
    BY DEF OpenAllIsins
  <2>3. WriteAllIsins => Aside /\ UNCHANGED reading
    BY DEF WriteAllIsins
  <2> QED
    BY <1>5, <2>1, <2>2, <2>3
<1>6. CASE \E c \in Readers : Resolve(c)
  <2>1. Aside
    BY <1>6 DEF Resolve
  <2> QED
    BY <1>6, <2>1
<1> QED
  BY <1>1, <1>2, <1>3, <1>4, <1>5, <1>6 DEF SelectionsNext

\* A filter keeps what it selected and goes from file to file.
LEMMA FilteringMovesOn ==
  ASSUME SelectionsTyped, NEW k \in Kinds, WriteSelected(k) \/ WriteManifest(k)
  PROVE  /\ filtering'[k].of = filtering[k].of
         /\ filtering'[k].rows = filtering[k].rows
         /\ filtering'[k].at = IF WriteManifest(k) THEN "pointer" ELSE "manifest"
         /\ filtering'[k].stamp = IF WriteManifest(k) THEN filtering[k].stamp ELSE Stamp(k)
         /\ filtering'[k] \in Filterings
<1>1. filtering[k] \in Filterings
  BY DEF SelectionsTyped, WriteSelected, WriteManifest
<1>2. WriteManifest(k) => filtering[k].at = "manifest"
  BY DEF WriteManifest
<1>3. WriteSelected(k) => filtering[k].at = "rows"
  BY DEF WriteSelected
<1>4. Stamp(k) \in Nat
  BY <1>1 DEF Stamp, Filterings, SelectionsTyped
<1>5. CASE WriteManifest(k)
  <2>1. filtering'[k] = [filtering[k] EXCEPT !.at = "pointer"]
    BY <1>5 DEF WriteManifest, SelectionsTyped
  <2> QED
    BY <1>1, <1>5, <2>1 DEF Filterings
<1>6. CASE WriteSelected(k)
  <2>1. filtering'[k] = [filtering[k] EXCEPT !.at = "manifest", !.stamp = Stamp(k)]
    BY <1>6 DEF WriteSelected, SelectionsTyped
  <2>2. ~WriteManifest(k)
    BY <1>2, <1>3, <1>6
  <2> QED
    BY <1>1, <1>4, <2>1, <2>2 DEF Filterings
<1> QED
  BY <1>5, <1>6

LEMMA StepKindsApart ==
  SelectionsTyped /\ KindsApart /\ [SelectionsNext]_selections => KindsApart'
<1> SUFFICES ASSUME SelectionsTyped, KindsApart, [SelectionsNext]_selections
             PROVE  KindsApart'
  OBVIOUS
<1>1. CASE Aside /\ UNCHANGED reading
  BY <1>1 DEF Aside, KindsApart
<1>2. CASE Aside /\ \E c \in Readers : Resolve(c)
  <2>1. PICK c \in Readers : Resolve(c)
    BY <1>2
  <2>2. reading'["univariate-statistics"] \in MetadataFilters \cup {None}
    BY <2>1, ResolvedAreFilters DEF Resolve, SelectionsTyped, KindsApart
  <2> QED
    BY <1>2, <2>2 DEF Aside, KindsApart
<1>3. ASSUME NEW p \in Filters, StartFilter(p) PROVE KindsApart'
  BY <1>3, FiltersHaveKinds DEF StartFilter, KindsApart, SelectionsTyped
<1>4. ASSUME NEW k \in Kinds,
             WriteSelected(k) \/ WriteManifest(k) \/ WritePointer(k) \/ FilterStops(k)
      PROVE  KindsApart'
  <2>1. filtering[k] \in Filterings /\ filtering[k].of \in Of(k)
    BY <1>4 DEF WriteSelected, WriteManifest, WritePointer, FilterStops, KindsApart,
                SelectionsTyped
  <2>2. \A g \in Kinds \ {k} : filtering'[g] = filtering[g] /\ pointer'[g] = pointer[g]
    BY <1>4 DEF WriteSelected, WriteManifest, WritePointer, FilterStops, SelectionsTyped
  <2>3. filtering'[k] # None => filtering'[k].of = filtering[k].of
    <3>1. CASE WriteSelected(k) \/ WriteManifest(k)
      BY <3>1, FilteringMovesOn
    <3>2. CASE WritePointer(k) \/ FilterStops(k)
      BY <3>2 DEF WritePointer, FilterStops, SelectionsTyped
    <3> QED
      BY <1>4, <3>1, <3>2
  <2>4. pointer'[k] \in {pointer[k], Torn, filtering[k].of} /\ reading' = reading
    BY <1>4 DEF WriteSelected, WriteManifest, WritePointer, FilterStops, SelectionsTyped
  <2> QED
    BY <2>1, <2>2, <2>3, <2>4 DEF KindsApart
<1>5. ASSUME NEW c \in Readers, TakeSelection(c) PROVE KindsApart'
  BY <1>5 DEF TakeSelection, bounds, KindsApart, SelectionsTyped
<1> QED
  BY <1>1, <1>2, <1>3, <1>4, <1>5, StepsOfSelections

LEMMA StepRowsWereFound ==
  SelectionsTyped /\ RowsWereFound /\ [SelectionsNext]_selections => RowsWereFound'
<1> SUFFICES ASSUME SelectionsTyped, RowsWereFound, [SelectionsNext]_selections
             PROVE  RowsWereFound'
  OBVIOUS
<1>1. CASE Aside
  BY <1>1 DEF Aside, RowsWereFound, Whole
<1>2. ASSUME NEW p \in Filters, StartFilter(p) PROVE RowsWereFound'
  <2> DEFINE got == Source(KindOf(p)) \cap Matching[p]
  <2>1. KindOf(p) \in Kinds
    BY FiltersHaveKinds
  <2>2. /\ found'[p] = found[p] \cup {got}
        /\ \A q \in Filters \ {p} : found'[q] = found[q]
    BY <1>2 DEF StartFilter, SelectionsTyped
  <2>3. /\ members'[p] = Torn
        /\ \A q \in Filters \ {p} : members'[q] = members[q]
    BY <1>2 DEF StartFilter, SelectionsTyped
  <2>4. /\ filtering'[KindOf(p)].of = p
        /\ filtering'[KindOf(p)].rows = got
        /\ \A k \in Kinds \ {KindOf(p)} : filtering'[k] = filtering[k]
    BY <1>2, <2>1 DEF StartFilter, SelectionsTyped
  <2>5. \A k \in Kinds : filtering[k] # None => filtering[k].of \in Filters
    BY DEF SelectionsTyped, Filterings
  <2> HIDE DEF got
  <2> QED
    BY <2>2, <2>3, <2>4, <2>5 DEF RowsWereFound, Whole
<1>3. ASSUME NEW k \in Kinds, WriteSelected(k) \/ WriteManifest(k) PROVE RowsWereFound'
  <2>1. filtering[k] \in Filterings /\ filtering[k] # None
    BY <1>3 DEF WriteSelected, WriteManifest, SelectionsTyped
  <2>2. filtering[k].of \in Filters /\ filtering[k].rows \in found[filtering[k].of]
    BY <2>1 DEF Filterings, RowsWereFound
  <2>3. /\ members'[filtering[k].of] \in {filtering[k].rows, members[filtering[k].of]}
        /\ \A q \in Filters \ {filtering[k].of} : members'[q] = members[q]
    BY <1>3, <2>2 DEF WriteSelected, WriteManifest, SelectionsTyped
  <2>4. found' = found /\ \A g \in Kinds \ {k} : filtering'[g] = filtering[g]
    BY <1>3 DEF WriteSelected, WriteManifest, SelectionsTyped
  <2> QED
    BY <1>3, <2>2, <2>3, <2>4, FilteringMovesOn DEF RowsWereFound, Whole
<1>4. ASSUME NEW k \in Kinds, WritePointer(k) PROVE RowsWereFound'
  BY <1>4 DEF WritePointer, RowsWereFound, Whole, SelectionsTyped
<1>5. ASSUME NEW k \in Kinds, FilterStops(k) PROVE RowsWereFound'
  <2>1. filtering[k] \in Filterings /\ filtering[k] # None
    BY <1>5 DEF FilterStops, SelectionsTyped
  <2>2. filtering[k].of \in Filters /\ filtering[k].rows \in found[filtering[k].of]
    BY <2>1 DEF Filterings, RowsWereFound
  <2>3. PICK left \in LeftRows(filtering[k]) :
          members' = [members EXCEPT ![filtering[k].of] = left]
    BY <1>5 DEF FilterStops
  <2>4. left \in {Torn, filtering[k].rows, members[filtering[k].of]}
    BY <2>3 DEF LeftRows
  <2>5. found' = found /\ \A g \in Kinds : filtering'[g] \in {None, filtering[g]}
    BY <1>5 DEF FilterStops, SelectionsTyped
  <2> QED
    BY <2>2, <2>3, <2>4, <2>5 DEF RowsWereFound, Whole, SelectionsTyped
<1>6. ASSUME NEW c \in Readers, TakeSelection(c) PROVE RowsWereFound'
  BY <1>6 DEF TakeSelection, RowsWereFound, Whole
<1> QED
  BY <1>1, <1>2, <1>3, <1>4, <1>5, <1>6, StepsOfSelections

LEMMA StepFoundInOrder ==
  ASSUME SelectionsTyped, KindsApart, RowsWereFound, FoundInOrder, [SelectionsNext]_selections
  PROVE  FoundInOrder'
<1>1. CASE Aside
  BY <1>1 DEF Aside, FoundInOrder, SelectedBefore
<1>2. ASSUME NEW p \in Filters, StartFilter(p) PROVE FoundInOrder'
  <2> DEFINE got == Source(KindOf(p)) \cap Matching[p]
  <2>1. /\ found'[p] = found[p] \cup {got}
        /\ \A q \in Filters \ {p} : found'[q] = found[q]
    BY <1>2 DEF StartFilter, SelectionsTyped
  <2>2. SelectedBefore \subseteq SelectedBefore'
    BY <2>1 DEF SelectedBefore, Filters
  <2>3. ASSUME p \in UnivariateFilters PROVE got \subseteq SelectedBefore
    BY <2>3, SelectionsAssumption DEF KindOf, Source, FoundInOrder
  <2>4. statistics' = statistics
    BY <1>2 DEF StartFilter
  <2> HIDE DEF got
  <2>5. ASSUME NEW q \in UnivariateFilters PROVE UNION found'[q] \subseteq SelectedBefore'
    <3>1. UNION found[q] \subseteq SelectedBefore
      BY DEF FoundInOrder
    <3> QED
      BY <2>1, <2>2, <2>3, <3>1 DEF Filters
  <2> QED
    BY <2>2, <2>4, <2>5 DEF FoundInOrder
<1>3. ASSUME NEW k \in Kinds,
             WriteSelected(k) \/ WriteManifest(k) \/ WritePointer(k) \/ FilterStops(k)
      PROVE  FoundInOrder'
  <2>1. UNCHANGED <<found, statistics>>
    BY <1>3 DEF WriteSelected, WriteManifest, WritePointer, FilterStops
  <2> QED
    BY <2>1 DEF FoundInOrder, SelectedBefore
<1>4. ASSUME NEW c \in Readers, TakeSelection(c) PROVE FoundInOrder'
  <2>1. found' = found
    BY <1>4 DEF TakeSelection
  <2>2. reading[c] \in Filters /\ reading[c] # None
    BY <1>4 DEF TakeSelection, SelectionsTyped
  <2>3. CASE c = "univariate-statistics" /\ Whole(members[reading[c]])
    <3>1. reading[c] \in MetadataFilters
      BY <2>2, <2>3 DEF KindsApart
    <3>2. members[reading[c]] \in found[reading[c]]
      BY <2>2, <2>3 DEF RowsWereFound
    <3>3. members[reading[c]] \subseteq SelectedBefore
      BY <3>1, <3>2 DEF SelectedBefore
    <3>4. statistics' = statistics \cup members[reading[c]]
      BY <1>4, <2>3 DEF TakeSelection, Kept
    <3> QED
      BY <2>1, <3>3, <3>4 DEF FoundInOrder, SelectedBefore
  <2>4. CASE ~(c = "univariate-statistics" /\ Whole(members[reading[c]]))
    <3>1. statistics' = statistics
      BY <1>4, <2>4 DEF TakeSelection, Kept
    <3> QED
      BY <2>1, <3>1 DEF FoundInOrder, SelectedBefore
  <2> QED
    BY <2>3, <2>4
<1> QED
  BY <1>1, <1>2, <1>3, <1>4, StepsOfSelections

FilterStep(k) == WriteSelected(k) \/ WriteManifest(k) \/ WritePointer(k) \/ FilterStops(k)

\* A filter touches the files of its own selection and the pointer of its kind.
LEMMA OthersAreLeft ==
  ASSUME SelectionsTyped, KindsApart, NEW k \in Kinds, FilterStep(k)
  PROVE  /\ filtering[k] \in Filterings /\ filtering[k] # None
         /\ filtering[k].of \in Of(k)
         /\ \A q \in Filters \ {filtering[k].of} :
              members'[q] = members[q] /\ manifest'[q] = manifest[q]
         /\ \A g \in Kinds \ {k} : filtering'[g] = filtering[g] /\ pointer'[g] = pointer[g]
         /\ second' = second
         /\ stops' = IF FilterStops(k) THEN stops + 1 ELSE stops
<1>1. filtering[k] \in Filterings /\ filtering[k] # None
  BY DEF FilterStep, WriteSelected, WriteManifest, WritePointer, FilterStops, SelectionsTyped
<1>2. filtering[k].of \in Of(k) /\ filtering[k].of \in Filters
  BY <1>1, FiltersHaveKinds DEF KindsApart
<1>3. \A q \in Filters \ {filtering[k].of} :
        members'[q] = members[q] /\ manifest'[q] = manifest[q]
  BY <1>2 DEF FilterStep, WriteSelected, WriteManifest, WritePointer, FilterStops,
              SelectionsTyped
<1>4. \A g \in Kinds \ {k} : filtering'[g] = filtering[g] /\ pointer'[g] = pointer[g]
  BY DEF FilterStep, WriteSelected, WriteManifest, WritePointer, FilterStops, SelectionsTyped
<1>5. second' = second /\ stops' = IF FilterStops(k) THEN stops + 1 ELSE stops
  BY DEF FilterStep, WriteSelected, WriteManifest, WritePointer, FilterStops, bounds
<1> QED
  BY <1>1, <1>2, <1>3, <1>4, <1>5

LEMMA StepFilesInOrder ==
  ASSUME SelectionsTyped, KindsApart, FilesInOrder, [SelectionsNext]_selections
  PROVE  FilesInOrder'
<1>1. CASE Aside
  BY <1>1 DEF Aside, FilesInOrder, Manifest
<1>2. ASSUME NEW p \in Filters, StartFilter(p) PROVE FilesInOrder'
  <2> DEFINE k == KindOf(p)
  <2>1. k \in Kinds
    BY FiltersHaveKinds
  <2>2. /\ members'[p] = Torn
        /\ \A q \in Filters \ {p} : members'[q] = members[q]
        /\ manifest' = manifest /\ pointer' = pointer
    BY <1>2 DEF StartFilter, SelectionsTyped
  <2>3. /\ filtering[k] = None
        /\ filtering'[k].of = p /\ filtering'[k].at = "rows"
        /\ \A g \in Kinds \ {k} : filtering'[g] = filtering[g]
    BY <1>2, <2>1 DEF StartFilter, SelectionsTyped
  <2>4. \A g \in Kinds \ {k} : filtering[g] # None =>
          filtering[g].of # p /\ filtering[g].of \in Filters
    BY <2>1, FiltersHaveKinds DEF KindsApart
  <2> HIDE DEF k
  <2>5. \A q \in Filters : manifest'[q] # None => members'[q] # None
    BY <2>2, MarksAreApart DEF FilesInOrder
  <2>6. ASSUME NEW g \in Kinds, filtering'[g] # None
        PROVE  /\ members'[filtering'[g].of] # None
               /\ filtering'[g].at # "rows" => manifest'[filtering'[g].of] # None
               /\ filtering'[g].at # "rows" => members'[filtering'[g].of] = filtering'[g].rows
               /\ filtering'[g].at = "pointer" => manifest'[filtering'[g].of] = Manifest(g)'
    <3>1. CASE g = k
      BY <2>2, <2>3, <3>1, MarksAreApart
    <3>2. CASE g # k
      BY <2>2, <2>3, <2>4, <2>6, <3>2 DEF FilesInOrder, Manifest
    <3> QED
      BY <3>1, <3>2
  <2>7. \A g \in Kinds : pointer'[g] \in Of(g) => manifest'[pointer'[g]] # None
    BY <2>2 DEF FilesInOrder
  <2> QED
    BY <2>5, <2>6, <2>7 DEF FilesInOrder
<1>3. ASSUME NEW k \in Kinds, FilterStep(k) PROVE FilesInOrder'
  <2> DEFINE f == filtering[k]
  <2>1. f \in Filterings /\ f # None /\ f.of \in Of(k) /\ f.of \in Filters
        /\ f.rows # None /\ f.rows # Torn
    BY <1>3, OthersAreLeft, FiltersHaveKinds, MarksAreApart DEF Filterings
  <2>2. members[f.of] # None
    BY <2>1 DEF FilesInOrder
  <2>3. members'[f.of] # None
    BY <1>3, <2>1, <2>2, MarksAreApart
       DEF FilterStep, WriteSelected, WriteManifest, WritePointer, FilterStops, LeftRows,
           SelectionsTyped
  <2>4. Manifest(k) # None /\ Manifest(k) # Torn
    BY <2>1, ManifestsAreTyped, MarksAreApart
  <2>5. manifest[f.of] # None => manifest'[f.of] # None
    BY <1>3, <2>1, <2>4, MarksAreApart
       DEF FilterStep, WriteSelected, WriteManifest, WritePointer, FilterStops, LeftManifest,
           SelectionsTyped
  <2> HIDE DEF f
  <2>6. \A q \in Filters : manifest'[q] # None => members'[q] # None
    BY <1>3, <2>1, <2>3, OthersAreLeft DEF FilesInOrder, f
  <2>7. ASSUME NEW g \in Kinds, filtering'[g] # None
        PROVE  /\ members'[filtering'[g].of] # None
               /\ filtering'[g].at # "rows" => manifest'[filtering'[g].of] # None
               /\ filtering'[g].at # "rows" => members'[filtering'[g].of] = filtering'[g].rows
               /\ filtering'[g].at = "pointer" => manifest'[filtering'[g].of] = Manifest(g)'
    <3>1. CASE g # k
      <4>1. filtering[g].of \in Of(g) /\ filtering[g].of # f.of /\ filtering[g].of \in Filters
        BY <1>3, <2>1, <2>7, <3>1, FiltersHaveKinds, OthersAreLeft DEF KindsApart
      <4> QED
        BY <1>3, <2>7, <3>1, <4>1, OthersAreLeft DEF FilesInOrder, Manifest, f
    <3>2. CASE g = k /\ WriteSelected(k)
      <4>1. /\ members'[f.of] = f.rows
            /\ manifest'[f.of] = Torn
        BY <2>1, <3>2 DEF WriteSelected, SelectionsTyped, f
      <4>2. ~WriteManifest(k)
        BY <3>2 DEF WriteSelected, WriteManifest
      <4> QED
        BY <2>1, <3>2, <4>1, <4>2, FilteringMovesOn, MarksAreApart DEF f
    <3>3. CASE g = k /\ WriteManifest(k)
      <4>1. /\ members' = members /\ f.at = "manifest"
            /\ manifest'[f.of] = Manifest(k)
        BY <2>1, <3>3 DEF WriteManifest, SelectionsTyped, f
      <4>2. members[f.of] = f.rows
        BY <2>1, <4>1 DEF FilesInOrder, f
      <4>3. Manifest(k)' = Manifest(k)
        BY <3>3, FilteringMovesOn DEF Manifest
      <4> QED
        BY <2>2, <2>4, <3>3, <4>1, <4>2, <4>3, FilteringMovesOn DEF f
    <3>4. CASE g = k /\ (WritePointer(k) \/ FilterStops(k))
      BY <2>7, <3>4 DEF WritePointer, FilterStops, SelectionsTyped
    <3> QED
      BY <1>3, <3>1, <3>2, <3>3, <3>4 DEF FilterStep
  <2>8. ASSUME NEW g \in Kinds, pointer'[g] \in Of(g) PROVE manifest'[pointer'[g]] # None
    <3>1. pointer[g] \in Of(g) => manifest[pointer[g]] # None /\ pointer[g] \in Filters
      BY FiltersHaveKinds DEF FilesInOrder
    <3>2. CASE g = k /\ WritePointer(k)
      BY <2>1, <3>2 DEF WritePointer, FilesInOrder, SelectionsTyped, f
    <3>3. CASE pointer'[g] = pointer[g]
      BY <1>3, <2>5, <2>8, <3>1, <3>3, OthersAreLeft DEF f
    <3>4. CASE g = k /\ WriteManifest(k)
      BY <2>8, <3>4, FiltersHaveKinds, MarksAreApart DEF WriteManifest, SelectionsTyped
    <3>5. CASE g = k /\ (WriteSelected(k) \/ FilterStops(k))
      <4>1. pointer' = pointer
        BY <3>5 DEF WriteSelected, FilterStops
      <4> QED
        BY <3>3, <4>1
    <3>6. g # k => pointer'[g] = pointer[g]
      BY <1>3, OthersAreLeft
    <3> QED
      BY <1>3, <3>2, <3>3, <3>4, <3>5, <3>6 DEF FilterStep
  <2> QED
    BY <2>6, <2>7, <2>8 DEF FilesInOrder
<1>4. ASSUME NEW c \in Readers, TakeSelection(c) PROVE FilesInOrder'
  BY <1>4 DEF TakeSelection, FilesInOrder, Manifest
<1> QED
  BY <1>1, <1>2, <1>3, <1>4, StepsOfSelections DEF FilterStep

LEMMA StepStampsRise ==
  ASSUME SelectionsTyped, KindsApart, FilesInOrder, StampsRise, [SelectionsNext]_selections
  PROVE  StampsRise'
<1>1. \A p \in Filters : manifest[p] \in Manifests => manifest[p].created \in Nat
  BY DEF Manifests
<1>2. \A k \in Kinds : filtering[k] # None =>
        filtering[k].stamp \in Nat /\ filtering[k].of \in Filters
  BY DEF SelectionsTyped, Filterings
<1>3. second \in Nat
  BY DEF SelectionsTyped
<1>4. CASE Aside
  <2>1. second \in Nat /\ second' \in Nat /\ second <= second'
    BY <1>4, StepSelectionsTyped DEF Aside, SelectionsTyped
  <2> QED
    BY <1>1, <1>2, <1>4, <2>1 DEF Aside, StampsRise
<1>5. ASSUME NEW p \in Filters, StartFilter(p) PROVE StampsRise'
  <2>1. KindOf(p) \in Kinds
    BY FiltersHaveKinds
  <2>2. /\ manifest' = manifest /\ second' = second
        /\ filtering'[KindOf(p)].stamp = second
        /\ \A g \in Kinds \ {KindOf(p)} : filtering'[g] = filtering[g]
    BY <1>5, <2>1 DEF StartFilter, SelectionsTyped
  <2> QED
    BY <1>1, <1>3, <2>1, <2>2, FiltersHaveKinds DEF StampsRise
<1>6. ASSUME NEW k \in Kinds, FilterStep(k) PROVE StampsRise'
  <2> DEFINE f == filtering[k]
  <2>1. f \in Filterings /\ f # None /\ f.of \in Of(k) /\ f.of \in Filters /\ f.stamp \in Nat
    BY <1>6, OthersAreLeft, FiltersHaveKinds DEF Filterings
  <2>2. second' = second /\ f.stamp <= second
    BY <1>6, <2>1, OthersAreLeft DEF StampsRise
  <2>3. Manifest(k).created = f.stamp
    BY DEF Manifest
  <2>4. Torn \notin Manifests
    BY MarksAreApart
  <2>5. manifest'[f.of] \in {Torn, manifest[f.of], Manifest(k)}
    BY <1>6, <2>1 DEF FilterStep, WriteSelected, WriteManifest, WritePointer, FilterStops,
                      LeftManifest, SelectionsTyped
  <2>6. \A p \in Filters \ {f.of} : manifest'[p] = manifest[p]
    BY <1>6, OthersAreLeft
  <2> HIDE DEF f
  <2>7. \A p \in Filters : manifest'[p] \in Manifests => manifest'[p].created <= second'
    BY <2>1, <2>2, <2>3, <2>4, <2>5, <2>6 DEF StampsRise
  <2>8. ASSUME NEW g \in Kinds, filtering'[g] # None
        PROVE  /\ filtering'[g].stamp <= second'
               /\ \A p \in Of(g) : manifest'[p] \in Manifests =>
                    manifest'[p].created <= filtering'[g].stamp
    <3>1. CASE g # k
      <4>1. filtering'[g] = filtering[g] /\ Of(g) \subseteq Filters \ {f.of}
        BY <1>6, <2>1, <3>1, OthersAreLeft, FiltersHaveKinds
      <4> QED
        BY <2>2, <2>6, <2>8, <4>1 DEF StampsRise
    <3>2. CASE g = k
      <4>1. WriteSelected(k) \/ WriteManifest(k)
        BY <1>6, <2>8, <3>2 DEF FilterStep, WritePointer, FilterStops, SelectionsTyped
      <4>2. filtering'[k].stamp \in {f.stamp, second}
        BY <4>1, FilteringMovesOn DEF Stamp, f
      <4>3. \A p \in Of(k) : manifest[p] \in Manifests =>
              /\ manifest[p].created \in Nat
              /\ manifest[p].created <= f.stamp
        BY <1>1, <2>1, FiltersHaveKinds DEF StampsRise, f
      <4>4. \A p \in Of(k) : manifest'[p] \in Manifests =>
              manifest'[p].created \in Nat /\ manifest'[p].created <= f.stamp
        BY <2>1, <2>3, <2>4, <2>5, <2>6, <4>3, FiltersHaveKinds
      <4> QED
        BY <1>3, <2>1, <2>2, <3>2, <4>2, <4>4
    <3> QED
      BY <3>1, <3>2
  <2> QED
    BY <2>7, <2>8 DEF StampsRise
<1>7. ASSUME NEW c \in Readers, TakeSelection(c) PROVE StampsRise'
  BY <1>7 DEF TakeSelection, StampsRise, bounds
<1> QED
  BY <1>4, <1>5, <1>6, <1>7, StepsOfSelections DEF FilterStep

LEMMA StepCountsAgree ==
  ASSUME SelectionsTyped, KindsApart, FilesInOrder, CountsAgree, [SelectionsNext]_selections
  PROVE  CountsAgree'
<1>1. CASE Aside
  BY <1>1 DEF Aside, CountsAgree, Writing
<1>2. ASSUME NEW p \in Filters, StartFilter(p) PROVE CountsAgree'
  <2> DEFINE k == KindOf(p)
  <2>1. k \in Kinds
    BY FiltersHaveKinds
  <2>2. /\ \A q \in Filters \ {p} : members'[q] = members[q]
        /\ manifest' = manifest /\ stops' = stops
    BY <1>2 DEF StartFilter, SelectionsTyped
  <2>3. /\ filtering[k] = None
        /\ filtering'[k].of = p /\ filtering'[k].at = "rows" /\ filtering'[k] \in Filterings
        /\ \A g \in Kinds \ {k} : filtering'[g] = filtering[g]
    <3>1. Source(k) \cap Matching[p] \in SUBSET Listed
      BY SelectionsAssumption DEF Filters
    <3> QED
      BY <1>2, <2>1, <3>1 DEF StartFilter, SelectionsTyped, Filterings
  <2>4. filtering'[k] # None
    BY <2>3, MarksAreApart
  <2> HIDE DEF k
  <2>5. Writing(p)'
    BY <2>3, <2>4 DEF Writing, k
  <2>6. \A q \in Filters : Writing(q) => Writing(q)'
    BY <2>3, <2>4, FiltersHaveKinds DEF Writing
  <2> QED
    BY <2>2, <2>5, <2>6 DEF CountsAgree
<1>3. ASSUME NEW k \in Kinds, FilterStep(k), stops' = 0 PROVE CountsAgree'
  <2> DEFINE f == filtering[k]
  <2>0. f \in Filterings /\ f # None /\ f.of \in Of(k)
    BY <1>3, OthersAreLeft
  <2>1. PICK p \in Filters : p = f.of /\ p \in Of(k) /\ KindOf(p) = k
    BY <2>0, FiltersHaveKinds
  <2>2. stops = 0 /\ ~FilterStops(k)
    BY <1>3, OthersAreLeft DEF SelectionsTyped
  <2>3. \A q \in Filters \ {p} : members'[q] = members[q] /\ manifest'[q] = manifest[q]
    BY <1>3, <2>1, OthersAreLeft
  <2>4. ASSUME NEW q \in Filters \ {p}, Writing(q) PROVE Writing(q)'
    <3>1. KindOf(q) \in Kinds /\ KindOf(q) # k
      BY <2>1, <2>4, FiltersHaveKinds DEF Writing
    <3>2. filtering'[KindOf(q)] = filtering[KindOf(q)]
      BY <1>3, <3>1, OthersAreLeft
    <3> QED
      BY <2>4, <3>2 DEF Writing
  <2> HIDE DEF f
  <2>5. ASSUME manifest'[p] # None, ~Writing(p)'
        PROVE  /\ manifest'[p] \in Manifests
               /\ manifest'[p].count = Cardinality(members'[p])
    <3>1. CASE WriteSelected(k)
      <4>1. filtering'[k] \in Filterings /\ filtering'[k].of = p /\ ~WriteManifest(k)
        BY <2>1, <3>1, FilteringMovesOn DEF WriteSelected, WriteManifest, f
      <4>2. filtering'[k].at = "manifest" /\ filtering'[k] # None
        BY <3>1, <4>1, FilteringMovesOn, MarksAreApart
      <4> QED
        BY <2>1, <2>5, <4>1, <4>2 DEF Writing
    <3>2. CASE WriteManifest(k)
      <4>1. members' = members /\ manifest'[p] = Manifest(k) /\ f.at = "manifest"
        BY <2>1, <3>2 DEF WriteManifest, SelectionsTyped, f
      <4>2. members[p] = f.rows
        BY <2>0, <2>1, <4>1 DEF FilesInOrder, f
      <4> QED
        BY <2>0, <2>1, <4>1, <4>2, ManifestsAreTyped DEF Manifest, f
    <3>3. CASE WritePointer(k)
      <4>1. members' = members /\ manifest' = manifest /\ f.at = "pointer"
        BY <3>3 DEF WritePointer, f
      <4>2. ~Writing(p)
        BY <2>1, <4>1 DEF Writing, f
      <4> QED
        BY <2>1, <2>2, <2>5, <4>1, <4>2 DEF CountsAgree
    <3> QED
      BY <1>3, <2>2, <3>1, <3>2, <3>3 DEF FilterStep
  <2> QED
    BY <2>2, <2>3, <2>4, <2>5 DEF CountsAgree
<1>4. ASSUME NEW c \in Readers, TakeSelection(c) PROVE CountsAgree'
  BY <1>4 DEF TakeSelection, CountsAgree, Writing, bounds
<1> QED
  BY <1>1, <1>2, <1>3, <1>4, StepsOfSelections DEF FilterStep, CountsAgree

LEMMA StepPointersFollow ==
  ASSUME SelectionsInv, [SelectionsNext]_selections
  PROVE  PointersFollow'
<1> USE DEF SelectionsInv
<1>1. CASE Aside
  BY <1>1 DEF Aside, PointersFollow, Known, Newest, Whole
<1>2. ASSUME NEW p \in Filters, StartFilter(p) PROVE PointersFollow'
  <2>1. KindOf(p) \in Kinds
    BY FiltersHaveKinds
  <2>2. manifest' = manifest /\ pointer' = pointer /\ stops' = stops
    BY <1>2 DEF StartFilter
  <2>3. /\ filtering'[KindOf(p)] # None
        /\ \A g \in Kinds \ {KindOf(p)} : filtering'[g] = filtering[g]
    <3>1. Source(KindOf(p)) \cap Matching[p] \in SUBSET Listed
      BY SelectionsAssumption DEF Filters
    <3>2. [of |-> p, rows |-> Source(KindOf(p)) \cap Matching[p], at |-> "rows",
           stamp |-> second] \in Filterings
      BY <3>1 DEF Filterings, SelectionsTyped
    <3> QED
      BY <1>2, <2>1, <3>2, MarksAreApart DEF StartFilter, SelectionsTyped
  <2> QED
    BY <2>2, <2>3 DEF PointersFollow, Known, Newest, Whole
<1>3. ASSUME NEW k \in Kinds, FilterStep(k), stops' = 0,
             NEW g \in Kinds, filtering'[g] = None, Known(g)' # {}
      PROVE  pointer'[g] \in Newest(g)'
  <2>1. stops = 0 /\ ~FilterStops(k)
    BY <1>3, OthersAreLeft DEF SelectionsTyped
  <2>2. CASE g # k
    <3>1. filtering'[g] = filtering[g] /\ pointer'[g] = pointer[g]
      BY <1>3, <2>2, OthersAreLeft
    <3>2. \A q \in Of(g) : manifest'[q] = manifest[q]
      BY <1>3, <2>2, OthersAreLeft, FiltersHaveKinds
    <3>3. Known(g)' = Known(g) /\ Newest(g)' = Newest(g)
      BY <3>2 DEF Known, Newest, Whole
    <3> QED
      BY <1>3, <2>1, <3>1, <3>3 DEF PointersFollow
  <2>3. CASE g = k
    <3> DEFINE f == filtering[k]
    <3>1. f # None /\ f \in Filterings /\ f.of \in Of(k) /\ f.of \in Filters
      BY <1>3, OthersAreLeft, FiltersHaveKinds
    <3>2. WritePointer(k)
      <4>1. WriteSelected(k) \/ WriteManifest(k) => filtering'[k] \in Filterings
        BY FilteringMovesOn
      <4> QED
        BY <1>3, <2>1, <2>3, <4>1, MarksAreApart DEF FilterStep
    <3>3. manifest' = manifest /\ pointer'[k] = f.of /\ f.at = "pointer"
      BY <3>2 DEF WritePointer, SelectionsTyped
    <3>4. manifest[f.of] = Manifest(k) /\ Manifest(k) \in Manifests
      BY <3>1, <3>3, ManifestsAreTyped DEF FilesInOrder
    <3>5. \A q \in Known(k) : manifest[q] \in Manifests /\ manifest[q].created <= f.stamp
      <4>1. \A q \in Of(k) : ~Writing(q)
        BY <3>3, FiltersHaveKinds DEF Writing
      <4>2. \A q \in Known(k) : manifest[q] \in Manifests
        BY <2>1, <4>1, FiltersHaveKinds DEF CountsAgree, Known
      <4> QED
        BY <3>1, <4>2 DEF StampsRise, Known
    <3>6. manifest[f.of].created = f.stamp
      BY <3>4 DEF Manifest
    <3>7. f.of \in Known(k)
      BY <3>1, <3>4, MarksAreApart DEF Known
    <3>8. f.of \in Newest(k)
      <4>1. \A q \in Known(k) : Whole(manifest[q])
        BY <3>5, MarksAreApart DEF Whole
      <4> QED
        BY <3>5, <3>6, <3>7, <4>1 DEF Newest
    <3>9. Newest(k)' = Newest(k)
      BY <3>3 DEF Newest, Known, Whole
    <3> QED
      BY <2>3, <3>3, <3>8, <3>9
  <2> QED
    BY <2>2, <2>3
<1>4. ASSUME NEW c \in Readers, TakeSelection(c) PROVE PointersFollow'
  BY <1>4 DEF TakeSelection, PointersFollow, Known, Newest, Whole, bounds
<1>5. (\E k \in Kinds : FilterStep(k)) => PointersFollow'
  BY <1>3 DEF PointersFollow
<1> QED
  BY <1>1, <1>2, <1>4, <1>5, StepsOfSelections DEF FilterStep

LEMMA InitSelectionsInv == SelectionsInit => SelectionsInv
<1> SUFFICES ASSUME SelectionsInit PROVE SelectionsInv
  OBVIOUS
<1> USE DEF SelectionsInit
<1>1. SelectionsTyped
  BY DEF SelectionsTyped, Tables
<1>2. KindsApart /\ FilesInOrder /\ StampsRise /\ CountsAgree
  BY MarksAreApart, FiltersHaveKinds
     DEF KindsApart, FilesInOrder, StampsRise, CountsAgree, Readers
<1>3. RowsWereFound /\ FoundInOrder
  BY DEF RowsWereFound, FoundInOrder, Whole, Filters
<1>4. PointersFollow
  BY DEF PointersFollow, Known, Of, Filters, Kinds
<1> QED
  BY <1>1, <1>2, <1>3, <1>4 DEF SelectionsInv

LEMMA StepSelectionsInv == SelectionsInv /\ [SelectionsNext]_selections => SelectionsInv'
BY StepSelectionsTyped, StepKindsApart, StepRowsWereFound, StepFoundInOrder, StepFilesInOrder,
   StepStampsRise, StepCountsAgree, StepPointersFollow DEF SelectionsInv

\* Whatever fetches, filters and readers run between each other's writes, and
\* wherever a filter stops, a selection that can be read is one whole result of
\* its filter, and is within what was selected before it.
THEOREM SelectionsAreWholeCorrect == SelectionsSpec => []SelectionsAreWhole
<1>1. SelectionsInv => SelectionsAreWhole
  <2> SUFFICES ASSUME SelectionsInv PROVE SelectionsAreWhole
    OBVIOUS
  <2> USE DEF SelectionsInv
  <2>1. SelectionsTypeOK
    BY DEF SelectionsTyped, KindsApart, SelectionsTypeOK, Tables
  <2>2. ReadersSeeResults
    BY DEF ReadersSeeResults, SelectionsTyped, RowsWereFound
  <2>3. SelectedByMetadataFirst
    <3> SUFFICES ASSUME NEW p \in UnivariateFilters, Whole(members[p])
                 PROVE  members[p] \subseteq SelectedBefore
      BY DEF SelectedByMetadataFirst, SelectedBefore
    <3>1. members[p] \in found[p]
      BY DEF RowsWereFound, Filters
    <3>2. UNION found[p] \subseteq SelectedBefore
      BY DEF FoundInOrder
    <3> QED
      BY <3>1, <3>2
  <2> QED
    BY <2>1, <2>2, <2>3 DEF SelectionsAreWhole
<1> QED
  BY <1>1, InitSelectionsInv, StepSelectionsInv, PTL DEF SelectionsSpec

\* A pointer leads to a selection that is there, and as long as no filter
\* stopped, to the newest of its kind, which the search of the manifests finds.
THEOREM PointersAreCurrentCorrect == SelectionsSpec => []PointersAreCurrent
<1>1. SelectionsInv => PointersAreCurrent
  <2> SUFFICES ASSUME SelectionsInv PROVE PointersAreCurrent
    OBVIOUS
  <2> USE DEF SelectionsInv
  <2>1. PointersResolve
    BY FiltersHaveKinds DEF PointersResolve, FilesInOrder
  <2>2. ASSUME NEW k \in Kinds, stops = 0, filtering[k] = None, Known(k) # {}
        PROVE  /\ pointer[k] \in Newest(k)
               /\ \A p \in Known(k) : manifest[p].count = Cardinality(members[p])
    <3>1. \A p \in Of(k) : ~Writing(p)
      BY <2>2, FiltersHaveKinds DEF Writing
    <3> QED
      BY <2>2, <3>1, FiltersHaveKinds DEF PointersFollow, CountsAgree, Known
  <2> QED
    BY <2>1, <2>2 DEF PointersAreCurrent, CurrentIsNewest
<1> QED
  BY <1>1, InitSelectionsInv, StepSelectionsInv, PTL DEF SelectionsSpec

(* The caches of statistics *)

RowWriters == {"univariate", "multivariate"}
PairWriters == {"bivariate", "multivariate"}

\* Where each command can be.
Places ==
  [univariate |-> {"idle", "rows", "writing rows"},
   bivariate |-> {"idle", "pairs", "writing pairs"},
   multivariate |-> {"idle", "rows", "writing rows", "pairs", "writing pairs", "view",
                     "reading", "delivered"}]

RowsStarted == {"writing rows", "pairs", "writing pairs", "view", "reading", "delivered"}
PairsStarted == {"writing pairs", "view", "reading", "delivered"}

PairRows ==
  [pair : Listings \X Listings, ids : (0 .. Len(Order)) \X (0 .. Len(Order)),
   bucket : Buckets, seen : SUBSET (Days \X Days \X Days)]

SnapOf(Q) == \A l \in DOMAIN Q : Q[l] \in (SUBSET Days) \ {{}}

CachesTyped ==
  /\ quotes \in [Listings -> SUBSET Days]
  /\ rows \in [Files -> UniRow \cup {None, Torn}]
  /\ \A f \in Files : rows[f] \in UniRow => FileOf[rows[f].listing] = f
  /\ DOMAIN buckets = Buckets
  /\ \A b \in Buckets : buckets[b] # Torn =>
       buckets[b] \subseteq PairRows /\ \A r \in buckets[b] : r.bucket = b
  /\ DOMAIN at = Commands /\ DOMAIN selected = Commands /\ DOMAIN snap = Commands
  /\ DOMAIN todo = Commands /\ DOMAIN final = Commands /\ DOMAIN dirty = Commands
  /\ DOMAIN alone = Commands
  /\ \A c \in Commands :
       /\ at[c] \in Places[c]
       /\ selected[c] \in Selections \cup {{}}
       /\ DOMAIN snap[c] \subseteq selected[c] /\ SnapOf(snap[c])
       /\ todo[c] \subseteq UniRow
       /\ dirty[c] \subseteq Buckets
       /\ DOMAIN final[c] = Buckets
       /\ alone[c] \in BOOLEAN
  /\ runs \in 0 .. MaxRuns /\ crashes \in 0 .. MaxCrashes

\* A command that is alone works while its rivals do not.
AloneWorks ==
  \A c \in Commands : alone[c] =>
    at[c] # "idle" /\ \A r \in Rivals[c] : at[r] = "idle"

\* Rows and readings are of days that Silver has.
DaysAreKnown ==
  /\ \A f \in Files : rows[f] \in UniRow =>
       rows[f].days # {} /\ rows[f].days \subseteq quotes[rows[f].listing]
  /\ \A c \in Commands : \A l \in DOMAIN snap[c] : snap[c][l] \subseteq quotes[l]

\* What a command that is alone finds in the files is not newer than what it read.
RowsAreOlder ==
  \A c \in RowWriters : alone[c] =>
    \A f \in Files : rows[f] \in UniRow /\ rows[f].listing \in selected[c] =>
      /\ rows[f].listing \in DOMAIN snap[c]
      /\ rows[f].days \subseteq snap[c][rows[f].listing]

\* The rows to be written are those the command's quotes give.
TodoIsRight ==
  \A c \in Commands :
    /\ todo[c] # {} => at[c] = "writing rows"
    /\ \A r \in todo[c] :
         r.listing \in DOMAIN snap[c] /\ r = UnivariateRow(c, r.listing, snap[c][r.listing])

\* Each row is right or still to be written.
RowsAreRight ==
  IsInjective(FileOf) => \A c \in RowWriters : alone[c] /\ at[c] \in RowsStarted =>
    \A l \in DOMAIN snap[c] : Exact(c, l) \/ \E r \in todo[c] : r.listing = l

OnePerPair(R) == \A r, s \in R : r.pair = s.pair => r = s

PairsIn(c, b) == {q \in PairsOf(Universe(snap[c])) : BucketOf(Universe(snap[c]), q) = b}

\* A file has at most one row of a pair.
PairsAreSingle == \A b \in Buckets : buckets[b] # Torn => OnePerPair(buckets[b])

\* The rows a bucket is to have, one for each pair of the bucket.
FinalIsWhole ==
  \A c \in Commands :
    /\ dirty[c] # {} => at[c] = "writing pairs"
    /\ at[c] \in PairsStarted => \A b \in Buckets :
         /\ final[c][b] \subseteq PairRows
         /\ \A r \in final[c][b] : r.bucket = b
         /\ OnePerPair(final[c][b])
         /\ Keys(final[c][b]) = PairsIn(c, b)

\* As long as days arrive in order, the observations of a pair only grow.
PairsAreKnown ==
  ~Backfills =>
    /\ \A b \in Buckets : buckets[b] # Torn =>
         \A r \in buckets[b] : r.seen \subseteq Observations(quotes, r.pair)
    /\ \A c \in Commands : \A l, k \in DOMAIN snap[c] :
         Common(snap[c][l], snap[c][k]) \subseteq Common(quotes[l], quotes[k])
    /\ \A c \in Commands : at[c] \in PairsStarted =>
         \A b \in Buckets : \A r \in final[c][b] : r.seen \subseteq Observations(quotes, r.pair)

\* What a command that is alone finds of a pair is not newer than what it read.
PairsAreOlder ==
  ~Backfills => \A c \in PairWriters : alone[c] =>
    \A b \in Buckets : buckets[b] # Torn => \A r \in buckets[b] :
      r.pair[1] \in DOMAIN snap[c] /\ r.pair[2] \in DOMAIN snap[c] =>
        r.seen \subseteq Observations(snap[c], r.pair)

FinalIsRight ==
  ~Backfills => \A c \in PairWriters : alone[c] /\ at[c] \in PairsStarted =>
    \A b \in Buckets : \A r \in final[c][b] : r.seen = Observations(snap[c], r.pair)

\* Each bucket is as it is to be, or still to be written.
BucketsAreDone ==
  \A c \in PairWriters : alone[c] /\ at[c] \in PairsStarted =>
    \A b \in Buckets \ dirty[c] : buckets[b] = final[c][b]

\* A selection that was seen to be complete has rows of all its listings.
ViewIsComplete ==
  \A c \in Commands : at[c] \in {"reading", "delivered"} =>
    /\ \A l \in selected[c] : rows[FileOf[l]] # None
    /\ alone[c] => selected[c] = DOMAIN snap[c]

CachesInv ==
  /\ CachesTyped /\ AloneWorks /\ DaysAreKnown /\ RowsAreOlder /\ TodoIsRight /\ RowsAreRight
  /\ PairsAreSingle /\ FinalIsWhole /\ PairsAreKnown /\ PairsAreOlder /\ FinalIsRight
  /\ BucketsAreDone /\ ViewIsComplete

(* Lemmas about the data *)

LEMMA LeastExists ==
  ASSUME NEW T \in SUBSET Nat, T # {}
  PROVE  \E m \in T : \A n \in T : m <= n
<1> DEFINE Upto(n) == 0 .. n
           Down == {Upto(n) : n \in T}
<1>1. Down \subseteq FiniteSubsetsOf(Nat) /\ Down # {}
  <2>1. ASSUME NEW n \in T PROVE Upto(n) \in SUBSET Nat /\ IsFiniteSet(Upto(n))
    BY <2>1, FS_Interval
  <2> QED
    BY <2>1 DEF FiniteSubsetsOf
<1>2. IsWellFoundedOn(StrictSubsetOrdering(Nat), FiniteSubsetsOf(Nat))
  BY FS_StrictSubsetOrderingWellFounded
<1> HIDE DEF Down
<1>3. \E x \in Down : \A y \in Down : ~ (<<y, x>> \in StrictSubsetOrdering(Nat))
  BY <1>1, <1>2, WFMin
<1>4. PICK m \in T : \A y \in Down : ~ (<<y, Upto(m)>> \in StrictSubsetOrdering(Nat))
  BY <1>3 DEF Down
<1>5. ASSUME NEW n \in T, n < m PROVE FALSE
  <2>1. Upto(n) \in SUBSET Nat /\ Upto(m) \in SUBSET Nat
    BY DEF Upto
  <2>2. Upto(n) \subseteq Upto(m) /\ m \in Upto(m) /\ m \notin Upto(n)
    BY <1>5 DEF Upto
  <2>3. Upto(n) \in Down
    BY DEF Down
  <2>4. <<Upto(n), Upto(m)>> \in StrictSubsetOrdering(Nat)
    BY <2>1, <2>2 DEF StrictSubsetOrdering
  <2> QED
    BY <1>4, <2>3, <2>4
<1>6. \A n \in T : m <= n
  BY <1>5
<1> QED
  BY <1>6

LEMMA GreatestExists ==
  ASSUME NEW N \in Nat, NEW T \in SUBSET (0 .. N), T # {}
  PROVE  \E m \in T : \A n \in T : m >= n
<1> DEFINE R == {N - n : n \in T}
<1>1. R \in SUBSET Nat /\ R # {}
  <2>1. \A n \in T : N - n \in Nat
    OBVIOUS
  <2> QED
    BY <2>1
<1>2. PICK k \in R : \A n \in R : k <= n
  BY <1>1, LeastExists
<1>3. PICK m \in T : k = N - m
  BY <1>2
<1>4. \A n \in T : m >= n
  BY <1>2, <1>3
<1> QED
  BY <1>4

LEMMA MinIsLeast ==
  ASSUME NEW T \in SUBSET Nat, T # {}
  PROVE  Min(T) \in T
BY LeastExists DEF Min

LEMMA MaxIsGreatest ==
  ASSUME NEW N \in Nat, NEW T \in SUBSET (0 .. N), T # {}
  PROVE  Max(T) \in T
BY GreatestExists DEF Max

LEMMA RanksOrder ==
  /\ Len(Order) \in Nat /\ DOMAIN Order = 1 .. Len(Order)
  /\ \A l \in Listings : Rank(l) \in 1 .. Len(Order) /\ Order[Rank(l)] = l
<1>1. Len(Order) \in Nat /\ DOMAIN Order = 1 .. Len(Order)
  BY CachesAssumption
<1>2. ASSUME NEW l \in Listings PROVE Rank(l) \in DOMAIN Order /\ Order[Rank(l)] = l
  <2>1. \E i \in DOMAIN Order : Order[i] = l
    BY DEF Listings
  <2> QED
    BY <2>1 DEF Rank
<1> QED
  BY <1>1, <1>2

LEMMA ListingsAreFinite == IsFiniteSet(Listings) /\ Cardinality(Listings) <= Len(Order)
<1>1. IsFiniteSet(1 .. Len(Order)) /\ Cardinality(1 .. Len(Order)) = Len(Order)
  <2>1. /\ IsFiniteSet(1 .. Len(Order))
        /\ Cardinality(1 .. Len(Order)) = IF 1 > Len(Order) THEN 0 ELSE Len(Order) - 1 + 1
    BY RanksOrder, FS_Interval
  <2> QED
    BY <2>1, RanksOrder
<1>2. Order \in Surjection(1 .. Len(Order), Listings)
  BY CachesAssumption, RanksOrder DEF Surjection, Listings
<1> QED
  BY <1>1, <1>2, FS_Surjection

LEMMA IdsAreBounded ==
  ASSUME NEW U \in SUBSET Listings, NEW l
  PROVE  Id(U, l) \in 0 .. Len(Order)
<1> DEFINE S == {k \in U : Rank(k) < Rank(l)}
<1>1. S \in SUBSET Listings
  OBVIOUS
<1>2. IsFiniteSet(S) /\ Cardinality(S) <= Cardinality(Listings)
  BY <1>1, ListingsAreFinite, FS_Subset
<1>3. Cardinality(S) \in Nat /\ Cardinality(Listings) \in Nat
  BY <1>2, ListingsAreFinite, FS_CardinalityType
<1> QED
  BY <1>2, <1>3, ListingsAreFinite, RanksOrder DEF Id

LEMMA BucketsAreInRange ==
  ASSUME NEW U \in SUBSET Listings, NEW p
  PROVE  BucketOf(U, p) \in Buckets
<1>1. Id(U, p[1]) \in Nat
  BY IdsAreBounded, RanksOrder
<1>2. BucketCount \in Nat /\ BucketCount > 0
  BY CachesAssumption
<1>3. \A n \in Nat : n % BucketCount \in 0 .. BucketCount - 1
  BY <1>2
<1> QED
  BY <1>1, <1>3 DEF BucketOf, Buckets

LEMMA NextRowIsTodo ==
  ASSUME NEW c \in Commands, todo[c] \subseteq UniRow, todo[c] # {}
  PROVE  NextRow(c) \in todo[c]
<1> DEFINE S == {r.listing : r \in todo[c]}
           T == {Rank(l) : l \in S}
<1>1. S \subseteq Listings /\ S # {}
  BY DEF UniRow
<1>2. T \in SUBSET Nat /\ T # {}
  BY <1>1, RanksOrder
<1>3. PICK m \in T : \A n \in T : m <= n
  BY <1>2, LeastExists
<1>4. \E l \in S : \A k \in S : Rank(l) <= Rank(k)
  BY <1>3
<1>5. First(S) \in S
  BY <1>4 DEF First
<1>6. PICK r \in todo[c] : r.listing = First(S)
  BY <1>5
<1> QED
  BY <1>6 DEF NextRow

LEMMA DaysAreFinite == Days \subseteq Nat /\ IsFiniteSet(Days)
BY CachesAssumption, FS_Interval DEF Days

LEMMA StartsAreDays ==
  ASSUME NEW P \in SUBSET Days, NEW d \in ReturnDays(P)
  PROVE  StartOf(P, d) \in P
<1> DEFINE T == {e \in P : e < d}
<1>1. T \in SUBSET (0 .. LastDay) /\ T # {} /\ LastDay \in Nat
  <2>1. LastDay \in Nat
    BY CachesAssumption
  <2>2. T \subseteq 1 .. LastDay
    BY DEF Days
  <2>3. T # {}
    BY DEF ReturnDays
  <2> QED
    BY <2>1, <2>2, <2>3
<1> HIDE DEF T
<1>2. Max(T) \in T
  BY <1>1, MaxIsGreatest
<1> QED
  BY <1>2 DEF StartOf, T

LEMMA ObservationsAreDays ==
  ASSUME NEW P \in SUBSET Days, NEW Q \in SUBSET Days
  PROVE  Common(P, Q) \in SUBSET (Days \X Days \X Days)
BY StartsAreDays DEF Common, ReturnDays

\* A day after all others leaves the observations there were.
LEMMA ObservationsGrow ==
  ASSUME NEW P \in SUBSET Days, NEW Q \in SUBSET Days, NEW d \in Days, \A e \in P : e < d
  PROVE  /\ Common(P, Q) \subseteq Common(P \cup {d}, Q)
         /\ Common(Q, P) \subseteq Common(Q, P \cup {d})
<1>1. \A x \in P : {e \in P \cup {d} : e < x} = {e \in P : e < x}
  BY DEF Days
<1>2. ReturnDays(P) \subseteq P /\ ReturnDays(P) \subseteq ReturnDays(P \cup {d})
  BY DEF ReturnDays
<1>3. \A x \in ReturnDays(P) : StartOf(P \cup {d}, x) = StartOf(P, x)
  BY <1>1, <1>2 DEF StartOf
<1> QED
  BY <1>2, <1>3 DEF Common

\* A pair has one observation on a day.
LEMMA ObservationsByDay ==
  ASSUME NEW P \in SUBSET Days, NEW Q \in SUBSET Days
  PROVE  /\ IsFiniteSet(Common(P, Q))
         /\ Cardinality({o[1] : o \in Common(P, Q)}) = Cardinality(Common(P, Q))
<1> DEFINE D == ReturnDays(P) \cap ReturnDays(Q)
           f == [d \in D |-> <<d, StartOf(P, d), StartOf(Q, d)>>]
<1>1. D \in SUBSET Days
  BY DEF ReturnDays
<1>2. IsFiniteSet(D)
  BY <1>1, DaysAreFinite, FS_Subset
<1>3. f \in Surjection(D, Common(P, Q)) /\ f \in Injection(D, Common(P, Q))
  BY DEF Common, Surjection, Injection, IsInjective
<1>4. {o[1] : o \in Common(P, Q)} = D
  <2>1. \A o \in Common(P, Q) : o[1] \in D
    BY DEF Common
  <2>2. \A d \in D : f[d] \in Common(P, Q) /\ f[d][1] = d
    BY DEF Common
  <2> QED
    BY <2>1, <2>2
<1> HIDE DEF D, f
<1>5. IsFiniteSet(Common(P, Q)) /\ Cardinality(Common(P, Q)) = Cardinality(D)
  BY <1>2, <1>3, FS_Surjection
<1> QED
  BY <1>4, <1>5

LEMMA EqualCounts ==
  ASSUME NEW T, IsFiniteSet(T), NEW S, S \subseteq T, Cardinality(S) = Cardinality(T)
  PROVE  S = T
BY FS_Subset

\* A set of rows with one row for each pair is as large as the set of the pairs.
LEMMA RowsAreCounted ==
  ASSUME NEW R, OnePerPair(R), IsFiniteSet(Keys(R))
  PROVE  Cardinality(R) = Cardinality(Keys(R))
<1> DEFINE f == [p \in Keys(R) |-> CHOOSE r \in R : r.pair = p]
<1>1. \A p \in Keys(R) : f[p] \in R /\ f[p].pair = p
  BY DEF Keys
<1>2. \A r \in R : r.pair \in Keys(R) /\ f[r.pair] = r
  <2>1. ASSUME NEW r \in R PROVE r.pair \in Keys(R)
    BY DEF Keys
  <2>2. ASSUME NEW r \in R PROVE f[r.pair] = r
    <3>1. f[r.pair] \in R /\ f[r.pair].pair = r.pair
      BY <1>1, <2>1
    <3> HIDE DEF f
    <3> QED
      BY <3>1 DEF OnePerPair
  <2> QED
    BY <2>1, <2>2
<1>3. f \in [Keys(R) -> R]
  BY <1>1
<1> HIDE DEF f
<1>4. f \in Surjection(Keys(R), R) /\ f \in Injection(Keys(R), R)
  BY <1>1, <1>2, <1>3 DEF Surjection, Injection, IsInjective
<1> QED
  BY <1>4, FS_Surjection

(* What the steps of a command leave alone *)

Works(c) == Univariate(c) \/ Bivariate(c) \/ Readback(c) \/ Raise(c) \/ Crash(c)

\* The command is done; it holds nothing.
Done(c) ==
  /\ at'[c] = "idle" /\ selected'[c] = {} /\ snap'[c] = <<>> /\ todo'[c] = {}
  /\ final'[c] = [b \in Buckets |-> {}] /\ dirty'[c] = {} /\ alone'[c] = FALSE

\* The command goes on with what it read.
GoesOn(c) ==
  /\ at'[c] # "idle" /\ at[c] # "idle"
  /\ selected'[c] = selected[c] /\ snap'[c] = snap[c] /\ alone'[c] = alone[c]

Stays(c) ==
  /\ at'[c] = at[c] /\ selected'[c] = selected[c] /\ snap'[c] = snap[c]
  /\ todo'[c] = todo[c] /\ final'[c] = final[c] /\ dirty'[c] = dirty[c]

LEMMA LeaveIsDone ==
  ASSUME CachesTyped, NEW c \in Commands, Leave(c)
  PROVE  /\ Done(c)
         /\ \A d \in Commands \ {c} : Stays(d) /\ alone'[d] = alone[d]
         /\ DOMAIN at' = Commands /\ DOMAIN selected' = Commands /\ DOMAIN snap' = Commands
         /\ DOMAIN todo' = Commands /\ DOMAIN final' = Commands /\ DOMAIN dirty' = Commands
         /\ DOMAIN alone' = Commands
BY DEF CachesTyped, Leave, Goto, Done, Stays

LEMMA WorkIsLocal ==
  ASSUME CachesTyped, NEW c \in Commands, Works(c)
  PROVE  /\ quotes' = quotes
         /\ Done(c) \/ GoesOn(c)
         /\ \A d \in Commands \ {c} : Stays(d) /\ alone'[d] = alone[d]
         /\ DOMAIN at' = Commands /\ DOMAIN selected' = Commands /\ DOMAIN snap' = Commands
         /\ DOMAIN todo' = Commands /\ DOMAIN final' = Commands /\ DOMAIN dirty' = Commands
         /\ DOMAIN alone' = Commands
         /\ runs' = runs
         /\ crashes' \in 0 .. MaxCrashes
<1>1. /\ quotes' = quotes
      /\ runs' = runs
      /\ crashes' \in 0 .. MaxCrashes
  <2>1. Univariate(c) => UNCHANGED <<quotes, runs, crashes>>
    BY DEF Univariate, CheckRows, WriteRow, RowsWritten, counts
  <2>2. Bivariate(c) => UNCHANGED <<quotes, runs, crashes>>
    BY DEF Bivariate, ReadBuckets, WriteBucket, PairsWritten, counts
  <2>3. Readback(c) => UNCHANGED <<quotes, runs, crashes>>
    BY DEF Readback, BuildView, ReadSelection, Deliver, counts
  <2>4. Raise(c) => UNCHANGED <<quotes, runs, crashes>>
    BY DEF Raise, counts
  <2>0. crashes \in 0 .. MaxCrashes /\ MaxCrashes \in Nat
    BY CachesAssumption DEF CachesTyped
  <2>5. CASE Crash(c)
    <3>1. quotes' = quotes /\ runs' = runs /\ crashes < MaxCrashes /\ crashes' = crashes + 1
      BY <2>5 DEF Crash
    <3> QED
      BY <2>0, <3>1
  <2> QED
    BY <2>0, <2>1, <2>2, <2>3, <2>4, <2>5 DEF Works
<1>2. CASE Leave(c)
  BY <1>1, <1>2, LeaveIsDone
<1>3. CASE ~Leave(c)
  <2>1. CheckRows(c) \/ WriteRow(c) \/ RowsWritten(c) \/ ReadBuckets(c) \/ WriteBucket(c)
        \/ PairsWritten(c) \/ BuildView(c) \/ ReadSelection(c)
    BY <1>3 DEF Works, Univariate, Bivariate, Readback, Deliver, Raise, Crash
  <2>2. selected' = selected /\ snap' = snap /\ alone' = alone
    BY <1>3, <2>1 DEF CheckRows, WriteRow, RowsWritten, ReadBuckets, WriteBucket, PairsWritten,
                      BuildView, ReadSelection
  <2>3. /\ at[c] # "idle"
        /\ at' = at \/ \E x \in RowsStarted : at' = [at EXCEPT ![c] = x]
    BY <1>3, <2>1 DEF CheckRows, WriteRow, RowsWritten, ReadBuckets, WriteBucket, PairsWritten,
                      BuildView, ReadSelection, Goto, RowsStarted
  <2>4. todo' = todo \/ \E x : todo' = [todo EXCEPT ![c] = x]
    BY <1>3, <2>1 DEF CheckRows, WriteRow, RowsWritten, ReadBuckets, WriteBucket, PairsWritten,
                      BuildView, ReadSelection
  <2>5. final' = final \/ \E x : final' = [final EXCEPT ![c] = x]
    BY <1>3, <2>1 DEF CheckRows, WriteRow, RowsWritten, ReadBuckets, WriteBucket, PairsWritten,
                      BuildView, ReadSelection
  <2>6. dirty' = dirty \/ \E x : dirty' = [dirty EXCEPT ![c] = x]
    BY <1>3, <2>1 DEF CheckRows, WriteRow, RowsWritten, ReadBuckets, WriteBucket, PairsWritten,
                      BuildView, ReadSelection
  <2>7. /\ DOMAIN at = Commands /\ DOMAIN selected = Commands /\ DOMAIN snap = Commands
        /\ DOMAIN todo = Commands /\ DOMAIN final = Commands /\ DOMAIN dirty = Commands
        /\ DOMAIN alone = Commands
    BY DEF CachesTyped
  <2>8. GoesOn(c)
    BY <2>2, <2>3, <2>7 DEF GoesOn, RowsStarted
  <2>9. \A d \in Commands \ {c} : Stays(d) /\ alone'[d] = alone[d]
    BY <2>2, <2>3, <2>4, <2>5, <2>6, <2>7 DEF Stays
  <2>10. /\ DOMAIN at' = Commands /\ DOMAIN todo' = Commands
         /\ DOMAIN final' = Commands /\ DOMAIN dirty' = Commands
    BY <2>3, <2>4, <2>5, <2>6, <2>7
  <2> QED
    BY <1>1, <2>2, <2>7, <2>8, <2>9, <2>10
<1> QED
  BY <1>2, <1>3

\* A row is written whole, and is no longer to be written, or is left torn by a
\* process that died.
WritesRow(c, r) ==
  /\ at[c] = "writing rows" /\ r \in todo[c]
  /\ rows' = [rows EXCEPT ![FileOf[r.listing]] = rows'[FileOf[r.listing]]]
  /\ \A f \in Files \ {FileOf[r.listing]} : rows'[f] = rows[f]
  /\ \/ rows'[FileOf[r.listing]] = r /\ todo'[c] = todo[c] \ {r} /\ GoesOn(c)
     \/ rows'[FileOf[r.listing]] = Torn /\ Done(c)

LEMMA RowsChange ==
  ASSUME CachesTyped, NEW c \in Commands, Works(c)
  PROVE  /\ rows' = rows \/ \E r \in todo[c] : WritesRow(c, r)
         /\ WriteRow(c) => \E r \in todo[c] : WritesRow(c, r)
<1>1. CASE WriteRow(c)
  <2>1. NextRow(c) \in todo[c] /\ NextRow(c) \in UniRow
    BY <1>1, NextRowIsTodo DEF CachesTyped, WriteRow
  <2>2. FileOf[NextRow(c).listing] \in Files
    BY <2>1 DEF UniRow, Files
  <2>3. WritesRow(c, NextRow(c))
    BY <1>1, <2>1, <2>2 DEF WriteRow, WritesRow, CachesTyped, GoesOn
  <2> QED
    BY <2>1, <2>3
<1>2. CASE Crash(c) /\ rows' # rows
  <2>1. at[c] = "writing rows" /\ todo[c] # {} /\ Leave(c)
        /\ rows' = [rows EXCEPT ![FileOf[NextRow(c).listing]] = Torn]
    BY <1>2 DEF Crash
  <2>2. NextRow(c) \in todo[c] /\ NextRow(c) \in UniRow
    BY <2>1, NextRowIsTodo DEF CachesTyped
  <2>3. FileOf[NextRow(c).listing] \in Files
    BY <2>2 DEF UniRow, Files
  <2>4. WritesRow(c, NextRow(c))
    BY <2>1, <2>2, <2>3, LeaveIsDone DEF WritesRow, CachesTyped
  <2> QED
    BY <2>2, <2>4
<1>3. CASE ~WriteRow(c) /\ ~Crash(c)
  BY <1>3 DEF Works, Univariate, Bivariate, Readback, CheckRows, RowsWritten, ReadBuckets,
              WriteBucket, PairsWritten, BuildView, ReadSelection, Deliver, Raise
<1> QED
  BY <1>1, <1>2, <1>3

WritesBucket(c, b) ==
  /\ at[c] = "writing pairs" /\ b \in dirty[c]
  /\ DOMAIN buckets' = Buckets
  /\ \A x \in Buckets \ {b} : buckets'[x] = buckets[x]
  /\ \/ /\ buckets'[b] = final[c][b] /\ dirty'[c] = dirty[c] \ {b} /\ final'[c] = final[c]
        /\ at'[c] = at[c] /\ GoesOn(c)
     \/ buckets'[b] = Torn /\ Done(c)

LEMMA BucketsChange ==
  ASSUME CachesTyped, NEW c \in Commands, Works(c)
  PROVE  /\ buckets' = buckets \/ \E b \in dirty[c] : WritesBucket(c, b)
         /\ WriteBucket(c) => \E b \in dirty[c] : WritesBucket(c, b)
<1> DEFINE b == Min(dirty[c])
<1>1. dirty[c] # {} => b \in dirty[c] /\ b \in Buckets
  <2>1. dirty[c] \in SUBSET Nat
    BY CachesAssumption DEF CachesTyped, Buckets
  <2> QED
    BY <2>1, MinIsLeast DEF CachesTyped
<1>2. CASE WriteBucket(c)
  <2>1. dirty[c] # {}
    BY <1>2 DEF WriteBucket
  <2>2. buckets' = [buckets EXCEPT ![b] = final[c][b]] /\ dirty'[c] = dirty[c] \ {b}
    BY <1>2 DEF WriteBucket, CachesTyped
  <2>3. at[c] = "writing pairs" /\ at' = at /\ final' = final /\ GoesOn(c)
    BY <1>2 DEF WriteBucket, GoesOn
  <2> HIDE DEF b
  <2>4. WritesBucket(c, b)
    BY <1>1, <2>1, <2>2, <2>3 DEF WritesBucket, CachesTyped
  <2> QED
    BY <1>1, <2>1, <2>4
<1>3. CASE Crash(c) /\ buckets' # buckets
  <2>1. at[c] = "writing pairs" /\ dirty[c] # {} /\ Leave(c)
        /\ buckets' = [buckets EXCEPT ![b] = Torn]
    BY <1>3 DEF Crash
  <2> HIDE DEF b
  <2>2. WritesBucket(c, b)
    BY <1>1, <2>1, LeaveIsDone DEF WritesBucket, CachesTyped
  <2> QED
    BY <1>1, <2>1, <2>2
<1>4. CASE ~WriteBucket(c) /\ ~Crash(c)
  BY <1>4 DEF Works, Univariate, Bivariate, Readback, CheckRows, WriteRow, RowsWritten,
              ReadBuckets, PairsWritten, BuildView, ReadSelection, Deliver, Raise
<1> QED
  BY <1>2, <1>3, <1>4

\* A command that starts reads Silver as it is.
LEMMA StartIsLocal ==
  ASSUME CachesTyped, NEW c \in Commands, NEW S \in Selections, Start(c, S)
  PROVE  /\ UNCHANGED <<quotes, rows, buckets, todo, final, dirty, crashes>>
         /\ runs' \in 0 .. MaxRuns
         /\ at[c] = "idle" /\ at'[c] = IF c = "bivariate" THEN "pairs" ELSE "rows"
         /\ selected'[c] = S
         /\ DOMAIN snap'[c] = {l \in S : quotes[l] # {}}
         /\ \A l \in DOMAIN snap'[c] : snap'[c][l] = quotes[l]
         /\ alone'[c] = (\A r \in Rivals[c] : at[r] = "idle")
         /\ \A d \in Commands \ {c} : Stays(d) /\ alone'[d] = (alone[d] /\ d \notin Rivals[c])
         /\ DOMAIN at' = Commands /\ DOMAIN selected' = Commands /\ DOMAIN snap' = Commands
         /\ DOMAIN alone' = Commands
<1>1. /\ UNCHANGED <<quotes, rows, buckets, todo, final, dirty, crashes>>
      /\ at[c] = "idle" /\ at'[c] = IF c = "bivariate" THEN "pairs" ELSE "rows"
      /\ selected'[c] = S
      /\ DOMAIN at' = Commands /\ DOMAIN selected' = Commands /\ DOMAIN snap' = Commands
  BY DEF Start, Goto, CachesTyped
<1>2. snap'[c] = [l \in {k \in S : quotes[k] # {}} |-> quotes[l]]
  BY DEF Start, CachesTyped
<1>3. /\ alone'[c] = (\A r \in Rivals[c] : at[r] = "idle")
      /\ \A d \in Commands \ {c} : alone'[d] = (alone[d] /\ d \notin Rivals[c])
      /\ DOMAIN alone' = Commands
  BY DEF Start
<1>4. \A d \in Commands \ {c} : Stays(d)
  BY DEF Start, Goto, CachesTyped, Stays
<1>5. runs' \in 0 .. MaxRuns
  <2>1. runs < MaxRuns /\ runs' = runs + 1
    BY DEF Start
  <2>2. runs \in 0 .. MaxRuns /\ MaxRuns \in Nat
    BY CachesAssumption DEF CachesTyped
  <2> QED
    BY <2>1, <2>2
<1> QED
  BY <1>1, <1>2, <1>3, <1>4, <1>5

LEMMA StepsOfCaches ==
  ASSUME [Next]_vars
  PROVE  \/ UNCHANGED vars
         \/ \E l \in Listings, d \in Days : GrowSilver(l, d)
         \/ \E c \in Commands : \E S \in Selections : Start(c, S)
         \/ \E c \in Commands : Works(c)
BY DEF Next, Works

LEMMA SelectedAreListings ==
  ASSUME CachesTyped, NEW c \in Commands
  PROVE  /\ selected[c] \subseteq Listings /\ DOMAIN snap[c] \subseteq Listings
         /\ \A l \in DOMAIN snap[c] : snap[c][l] \in SUBSET Days /\ snap[c][l] # {}
         /\ Universe(snap[c]) \subseteq DOMAIN snap[c]
<1>1. selected[c] \subseteq Listings
  BY CachesAssumption DEF CachesTyped
<1>2. DOMAIN snap[c] \subseteq selected[c] /\ SnapOf(snap[c])
  BY DEF CachesTyped
<1> QED
  BY <1>1, <1>2 DEF SnapOf, Universe

(* What a command makes of its quotes *)

LEMMA RowsAreTyped ==
  ASSUME NEW c, NEW l \in Listings, NEW Q \in SUBSET Days
  PROVE  UnivariateRow(c, l, Q) \in UniRow
BY DEF UnivariateRow, UniRow, Level

\* A row is taken from the cache if the days it was computed from are as many, and
\* no others.
LEMMA CachedIsExact ==
  ASSUME NEW c, NEW l \in Listings, NEW Q \in SUBSET Days, NEW r \in UniRow,
         r.days \subseteq Q, CachedRow(c, l, Q, r)
  PROVE  r = UnivariateRow(c, l, Q)
<1>1. IsFiniteSet(Q)
  BY DaysAreFinite, FS_Subset
<1>2. r.days = Q
  BY <1>1, EqualCounts DEF CachedRow
<1> QED
  BY <1>2 DEF CachedRow, UnivariateRow, UniRow

LEMMA PairsAreTyped ==
  ASSUME CachesTyped, NEW c \in Commands, NEW p \in PairsOf(Universe(snap[c]))
  PROVE  /\ PairRow(snap[c], p) \in PairRows
         /\ PairRow(snap[c], p).pair = p
         /\ PairRow(snap[c], p).bucket = BucketOf(Universe(snap[c]), p)
         /\ PairRow(snap[c], p).seen = Observations(snap[c], p)
         /\ p \in Listings \X Listings
         /\ p[1] \in DOMAIN snap[c] /\ p[2] \in DOMAIN snap[c]
<1> DEFINE U == Universe(snap[c])
<1>1. U \in SUBSET Listings /\ U \subseteq DOMAIN snap[c]
  BY SelectedAreListings
<1>2. p \in U \X U
  BY DEF PairsOf
<1>3. snap[c][p[1]] \in SUBSET Days /\ snap[c][p[2]] \in SUBSET Days
  BY <1>1, <1>2, SelectedAreListings
<1>4. Observations(snap[c], p) \in SUBSET (Days \X Days \X Days)
  BY <1>3, ObservationsAreDays DEF Observations
<1>5. <<Id(U, p[1]), Id(U, p[2])>> \in (0 .. Len(Order)) \X (0 .. Len(Order))
  BY <1>1, IdsAreBounded
<1>6. BucketOf(U, p) \in Buckets
  BY <1>1, BucketsAreInRange
<1> QED
  BY <1>1, <1>2, <1>4, <1>5, <1>6 DEF PairRow, PairRows

LEMMA NothingIsDiscarded ==
  ASSUME CachesTyped, Readable(Buckets, buckets), NEW b \in Buckets
  PROVE  Existing(b) = buckets[b] /\ buckets[b] # Torn
BY DEF CachesTyped, Readable, Existing

\* The row a pair is looked up by is a row of its bucket.
LEMMA CachedIsFound ==
  ASSUME CachesTyped, Readable(Buckets, buckets), NEW Q, NEW p, CachedFor(Q, p) # None,
         BucketOf(Universe(Q), p) \in Buckets
  PROVE  LET r == CachedFor(Q, p) IN
         /\ r \in buckets[BucketOf(Universe(Q), p)]
         /\ r.pair = p
         /\ CacheRowMatches(r, Q, p)
<1> DEFINE holding == {b \in Buckets : p \in Keys(Existing(b))}
           row == CHOOSE r \in Existing(Max(holding)) : r.pair = p
<1>1. holding # {} /\ CacheRowMatches(row, Q, p) /\ CachedFor(Q, p) = row
  BY DEF CachedFor
<1>2. holding \in SUBSET (0 .. BucketCount - 1) /\ BucketCount - 1 \in Nat
  BY CachesAssumption DEF Buckets
<1> HIDE DEF holding
<1>3. Max(holding) \in holding
  BY <1>1, <1>2, MaxIsGreatest
<1>4. Max(holding) \in Buckets /\ p \in Keys(Existing(Max(holding)))
  BY <1>3 DEF holding
<1>5. row \in Existing(Max(holding)) /\ row.pair = p
  BY <1>4 DEF Keys
<1> HIDE DEF row
<1>6. row \in buckets[Max(holding)] /\ row.bucket = Max(holding)
  BY <1>4, <1>5, NothingIsDiscarded DEF CachesTyped
<1>7. row.bucket = BucketOf(Universe(Q), p)
  BY <1>1 DEF CacheRowMatches
<1> QED
  BY <1>1, <1>5, <1>6, <1>7

FinalRow(Q, p) == IF CachedFor(Q, p) # None THEN CachedFor(Q, p) ELSE PairRow(Q, p)

\* What a bucket is to hold: one row for each of its pairs.
LEMMA FinalsAreWhole ==
  ASSUME CachesTyped, Readable(Buckets, buckets), NEW c \in Commands, NEW b \in Buckets
  PROVE  LET F == FinalBuckets(snap[c])[b] IN
         /\ F = {FinalRow(snap[c], p) : p \in PairsIn(c, b)}
         /\ \A p \in PairsIn(c, b) : FinalRow(snap[c], p).pair = p
         /\ F \subseteq PairRows
         /\ \A r \in F : r.bucket = b
         /\ OnePerPair(F)
         /\ Keys(F) = PairsIn(c, b)
<1> DEFINE F == FinalBuckets(snap[c])[b]
<1>1. F = {FinalRow(snap[c], p) : p \in PairsIn(c, b)}
  BY DEF FinalBuckets, FinalRow, PairsIn
<1>2. ASSUME NEW p \in PairsIn(c, b)
      PROVE  /\ FinalRow(snap[c], p) \in PairRows
             /\ FinalRow(snap[c], p).pair = p
             /\ FinalRow(snap[c], p).bucket = b
  <2>1. p \in PairsOf(Universe(snap[c])) /\ BucketOf(Universe(snap[c]), p) = b
    BY DEF PairsIn
  <2>2. CASE CachedFor(snap[c], p) # None
    <3>1. CachedFor(snap[c], p) \in buckets[b] /\ CachedFor(snap[c], p).pair = p
      BY <2>1, <2>2, CachedIsFound
    <3>2. buckets[b] \subseteq PairRows /\ \A r \in buckets[b] : r.bucket = b
      BY NothingIsDiscarded DEF CachesTyped
    <3> QED
      BY <2>2, <3>1, <3>2 DEF FinalRow
  <2>3. CASE CachedFor(snap[c], p) = None
    BY <2>1, <2>3, PairsAreTyped DEF FinalRow
  <2> QED
    BY <2>2, <2>3
<1> HIDE DEF F
<1>3. F \subseteq PairRows /\ (\A r \in F : r.bucket = b) /\ OnePerPair(F)
  BY <1>1, <1>2 DEF OnePerPair
<1>4. Keys(F) = PairsIn(c, b)
  BY <1>1, <1>2 DEF Keys
<1> QED
  BY <1>1, <1>2, <1>3, <1>4 DEF F

\* What is not written is there already.
LEMMA CleanBucketsAreFinal ==
  ASSUME CachesTyped, PairsAreSingle, Readable(Buckets, buckets),
         NEW c \in Commands, NEW b \in Buckets \ DirtyBuckets(snap[c])
  PROVE  buckets[b] = FinalBuckets(snap[c])[b]
<1> DEFINE F == FinalBuckets(snap[c])[b]
<1>1. /\ \A r \in F : CachedFor(snap[c], r.pair) # None
      /\ Keys(buckets[b]) = Keys(F)
  BY NothingIsDiscarded DEF DirtyBuckets
<1>2. /\ F = {FinalRow(snap[c], p) : p \in PairsIn(c, b)}
      /\ \A p \in PairsIn(c, b) : FinalRow(snap[c], p).pair = p
      /\ Keys(F) = PairsIn(c, b)
  BY FinalsAreWhole
<1> HIDE DEF F
<1>3. ASSUME NEW p \in PairsIn(c, b)
      PROVE  FinalRow(snap[c], p) \in buckets[b]
  <2>1. CachedFor(snap[c], p) # None /\ FinalRow(snap[c], p) = CachedFor(snap[c], p)
    BY <1>1, <1>2 DEF FinalRow
  <2>2. BucketOf(Universe(snap[c]), p) = b
    BY DEF PairsIn
  <2> QED
    BY <2>1, <2>2, CachedIsFound
<1>4. F \subseteq buckets[b]
  BY <1>2, <1>3
<1>5. ASSUME NEW r \in buckets[b] PROVE r \in F
  <2>1. r.pair \in PairsIn(c, b)
    BY <1>1, <1>2 DEF Keys
  <2>2. FinalRow(snap[c], r.pair) \in buckets[b] /\ FinalRow(snap[c], r.pair).pair = r.pair
    BY <1>2, <1>3, <2>1
  <2>3. OnePerPair(buckets[b])
    BY NothingIsDiscarded DEF PairsAreSingle
  <2>4. r = FinalRow(snap[c], r.pair)
    BY <2>2, <2>3 DEF OnePerPair
  <2> QED
    BY <1>2, <2>1, <2>4
<1> QED
  BY <1>4, <1>5 DEF F

\* A row is taken from the cache if its observations are as many, and no others.
LEMMA FinalsAreExact ==
  ASSUME CachesTyped, Readable(Buckets, buckets), NEW c \in Commands, NEW b \in Buckets,
         \A r \in buckets[b] :
           r.pair[1] \in DOMAIN snap[c] /\ r.pair[2] \in DOMAIN snap[c] =>
             r.seen \subseteq Observations(snap[c], r.pair)
  PROVE  \A r \in FinalBuckets(snap[c])[b] : r.seen = Observations(snap[c], r.pair)
<1> SUFFICES ASSUME NEW p \in PairsIn(c, b)
             PROVE  /\ FinalRow(snap[c], p).seen = Observations(snap[c], p)
                    /\ FinalRow(snap[c], p).pair = p
  BY FinalsAreWhole
<1>1. p \in PairsOf(Universe(snap[c])) /\ BucketOf(Universe(snap[c]), p) = b
  BY DEF PairsIn
<1>2. CASE CachedFor(snap[c], p) = None
  BY <1>1, <1>2, PairsAreTyped DEF FinalRow
<1>3. CASE CachedFor(snap[c], p) # None
  <2> DEFINE r == CachedFor(snap[c], p)
             O == Observations(snap[c], p)
  <2>1. r \in buckets[b] /\ r.pair = p /\ CacheRowMatches(r, snap[c], p)
    BY <1>1, <1>3, CachedIsFound
  <2>2. p[1] \in DOMAIN snap[c] /\ p[2] \in DOMAIN snap[c]
    BY <1>1, PairsAreTyped
  <2>3. r.seen \subseteq O
    BY <2>1, <2>2
  <2>4. snap[c][p[1]] \in SUBSET Days /\ snap[c][p[2]] \in SUBSET Days
    BY <2>2, SelectedAreListings
  <2>5. IsFiniteSet(O) /\ Cardinality({o[1] : o \in O}) = Cardinality(O)
    BY <2>4, ObservationsByDay DEF Observations
  <2>6. Cardinality(r.seen) = Cardinality(O)
    BY <2>1, <2>5 DEF CacheRowMatches
  <2>7. r.seen = O
    BY <2>3, <2>5, <2>6, EqualCounts
  <2> QED
    BY <1>3, <2>1, <2>7 DEF FinalRow
<1> QED
  BY <1>2, <1>3

\* The steps after which a command goes on, and what of its own they change.
LEMMA Moves ==
  ASSUME CachesTyped, NEW c \in Commands, Works(c), GoesOn(c)
  PROVE  \/ /\ CheckRows(c) /\ at[c] = "rows" /\ at'[c] = "writing rows"
            /\ todo'[c] = {UnivariateRow(c, l, snap[c][l]) : l \in
                 {k \in DOMAIN snap[c] : ~CachedRow(c, k, snap[c][k], rows[FileOf[k]])}}
            /\ UNCHANGED <<rows, buckets, final, dirty, delivered>>
         \/ /\ WriteRow(c) /\ at[c] = "writing rows" /\ at'[c] = "writing rows"
            /\ todo'[c] \subseteq todo[c]
            /\ UNCHANGED <<buckets, final, dirty, delivered>>
         \/ /\ RowsWritten(c) /\ at[c] = "writing rows" /\ at'[c] = "pairs" /\ c # "univariate"
            /\ todo[c] = {}
            /\ UNCHANGED <<rows, buckets, todo, final, dirty, delivered>>
         \/ /\ ReadBuckets(c) /\ at[c] = "pairs" /\ at'[c] = "writing pairs"
            /\ Readable(Buckets, buckets)
            /\ final'[c] = FinalBuckets(snap[c]) /\ dirty'[c] = DirtyBuckets(snap[c])
            /\ UNCHANGED <<rows, buckets, todo, delivered>>
         \/ /\ WriteBucket(c) /\ at[c] = "writing pairs" /\ at'[c] = "writing pairs"
            /\ dirty'[c] \subseteq dirty[c]
            /\ UNCHANGED <<rows, todo, final, delivered>>
         \/ /\ PairsWritten(c) /\ at[c] = "writing pairs" /\ at'[c] = "view" /\ c # "bivariate"
            /\ dirty[c] = {}
            /\ UNCHANGED <<rows, buckets, todo, final, dirty, delivered>>
         \/ /\ BuildView(c) /\ at[c] = "view" /\ at'[c] = "reading"
            /\ Present(selected[c])
            /\ UNCHANGED <<rows, buckets, todo, final, dirty, delivered>>
         \/ /\ ReadSelection(c) /\ at[c] = "reading" /\ at'[c] = "delivered"
            /\ UNCHANGED <<rows, buckets, todo, final, dirty>>
<1>1. ~Leave(c)
  BY LeaveIsDone DEF GoesOn, Done
<1>2. DOMAIN at = Commands /\ DOMAIN todo = Commands /\ DOMAIN final = Commands
      /\ DOMAIN dirty = Commands
  BY DEF CachesTyped
<1> USE DEF Goto
<1>3. CASE CheckRows(c)
  BY <1>2, <1>3 DEF CheckRows
<1>4. CASE WriteRow(c)
  BY <1>2, <1>4 DEF WriteRow
<1>5. CASE RowsWritten(c)
  BY <1>1, <1>2, <1>5 DEF RowsWritten
<1>6. CASE ReadBuckets(c)
  BY <1>2, <1>6 DEF ReadBuckets
<1>7. CASE WriteBucket(c)
  BY <1>2, <1>7 DEF WriteBucket
<1>8. CASE PairsWritten(c)
  BY <1>1, <1>2, <1>8 DEF PairsWritten
<1>9. CASE BuildView(c)
  BY <1>2, <1>9 DEF BuildView
<1>10. CASE ReadSelection(c)
  BY <1>2, <1>10 DEF ReadSelection
<1>11. ~Deliver(c) /\ ~Raise(c) /\ ~Crash(c)
  BY <1>1 DEF Deliver, Raise, Crash
<1> QED
  BY <1>3, <1>4, <1>5, <1>6, <1>7, <1>8, <1>9, <1>10, <1>11
     DEF Works, Univariate, Bivariate, Readback

LEMMA PlacesOfCommands ==
  /\ Places["univariate"] = {"idle", "rows", "writing rows"}
  /\ Places["bivariate"] = {"idle", "pairs", "writing pairs"}
  /\ Places["multivariate"] = {"idle", "rows", "writing rows", "pairs", "writing pairs", "view",
                               "reading", "delivered"}
  /\ \A c \in Commands : c = "univariate" \/ c = "bivariate" \/ c = "multivariate"
BY DEF Places, Commands

LEMMA StepCachesTyped ==
  ASSUME CachesTyped, FinalIsWhole, [Next]_vars
  PROVE  CachesTyped'
<1>1. CASE UNCHANGED vars
  BY <1>1 DEF vars, locals, counts, CachesTyped, SnapOf
<1>2. ASSUME NEW l \in Listings, NEW d \in Days, GrowSilver(l, d) PROVE CachesTyped'
  <2>1. quotes' \in [Listings -> SUBSET Days]
    BY <1>2 DEF GrowSilver, CachesTyped
  <2>2. UNCHANGED <<rows, buckets, at, selected, snap, todo, final, dirty, alone, runs, crashes>>
    BY <1>2 DEF GrowSilver, locals, counts
  <2> QED
    BY <2>1, <2>2 DEF CachesTyped, SnapOf
<1>3. ASSUME NEW c \in Commands, NEW S \in Selections, Start(c, S) PROVE CachesTyped'
  <2>2. ASSUME NEW d \in Commands
        PROVE  /\ at'[d] \in Places[d]
               /\ selected'[d] \in Selections \cup {{}}
               /\ DOMAIN snap'[d] \subseteq selected'[d] /\ SnapOf(snap'[d])
               /\ alone'[d] \in BOOLEAN
    <3>1. CASE d = c
      <4>1. S \subseteq Listings
        BY CachesAssumption
      <4>2. /\ DOMAIN snap'[c] = {l \in S : quotes[l] # {}}
            /\ \A l \in DOMAIN snap'[c] : snap'[c][l] = quotes[l]
        BY <1>3, StartIsLocal
      <4>3. \A l \in S : quotes[l] \in SUBSET Days
        BY <4>1 DEF CachesTyped
      <4>4. SnapOf(snap'[c])
        BY <4>2, <4>3 DEF SnapOf
      <4>5. at'[c] \in Places[c]
        BY <1>3, StartIsLocal, PlacesOfCommands
      <4>6. alone'[c] \in BOOLEAN
        BY <1>3, StartIsLocal
      <4>7. selected'[c] = S
        BY <1>3, StartIsLocal
      <4> QED
        BY <3>1, <4>2, <4>4, <4>5, <4>6, <4>7
    <3>2. CASE d # c
      <4>1. Stays(d) /\ alone'[d] = (alone[d] /\ d \notin Rivals[c])
        BY <1>3, <3>2, StartIsLocal
      <4> QED
        BY <4>1 DEF CachesTyped, Stays
    <3> QED
      BY <3>1, <3>2
  <2>3. /\ UNCHANGED <<quotes, rows, buckets, todo, final, dirty, crashes>>
        /\ runs' \in 0 .. MaxRuns
        /\ DOMAIN at' = Commands /\ DOMAIN selected' = Commands /\ DOMAIN snap' = Commands
        /\ DOMAIN alone' = Commands
    BY <1>3, StartIsLocal
  <2> QED
    BY <2>2, <2>3 DEF CachesTyped
<1>4. ASSUME NEW c \in Commands, Works(c) PROVE CachesTyped'
  <2>1. /\ quotes' \in [Listings -> SUBSET Days]
        /\ runs' \in 0 .. MaxRuns /\ crashes' \in 0 .. MaxCrashes
        /\ DOMAIN at' = Commands /\ DOMAIN selected' = Commands /\ DOMAIN snap' = Commands
        /\ DOMAIN todo' = Commands /\ DOMAIN final' = Commands /\ DOMAIN dirty' = Commands
        /\ DOMAIN alone' = Commands
    BY <1>4, WorkIsLocal DEF CachesTyped
  <2>2. /\ rows' \in [Files -> UniRow \cup {None, Torn}]
        /\ \A f \in Files : rows'[f] \in UniRow => FileOf[rows'[f].listing] = f
    <3>1. ASSUME NEW r \in todo[c], WritesRow(c, r)
          PROVE  /\ rows' \in [Files -> UniRow \cup {None, Torn}]
                 /\ \A f \in Files : rows'[f] \in UniRow => FileOf[rows'[f].listing] = f
      <4>1. r \in UniRow /\ Torn \notin UniRow /\ FileOf[r.listing] \in Files
        BY CachesAssumption DEF CachesTyped, UniRow, Files
      <4>2. rows'[FileOf[r.listing]] \in {r, Torn}
        BY <3>1 DEF WritesRow
      <4>3. PICK x \in {r, Torn} : rows' = [rows EXCEPT ![FileOf[r.listing]] = x]
        BY <3>1, <4>2 DEF WritesRow
      <4>4. rows \in [Files -> UniRow \cup {None, Torn}]
        BY DEF CachesTyped
      <4>5. rows' \in [Files -> UniRow \cup {None, Torn}]
        BY <4>1, <4>3, <4>4
      <4>6. ASSUME NEW f \in Files, rows'[f] \in UniRow PROVE FileOf[rows'[f].listing] = f
        <5>1. CASE f = FileOf[r.listing]
          BY <4>1, <4>3, <4>4, <4>6, <5>1
        <5>2. CASE f # FileOf[r.listing]
          <6>1. rows'[f] = rows[f]
            BY <4>3, <4>4, <5>2
          <6> QED
            BY <4>6, <6>1 DEF CachesTyped
        <5> QED
          BY <5>1, <5>2
      <4> QED
        BY <4>5, <4>6
    <3> QED
      BY <1>4, <3>1, RowsChange DEF CachesTyped
  <2>3. /\ DOMAIN buckets' = Buckets
        /\ \A b \in Buckets : buckets'[b] # Torn =>
             buckets'[b] \subseteq PairRows /\ \A r \in buckets'[b] : r.bucket = b
    <3>1. ASSUME NEW b \in dirty[c], WritesBucket(c, b), NEW x \in Buckets, buckets'[x] # Torn
          PROVE  buckets'[x] \subseteq PairRows /\ \A r \in buckets'[x] : r.bucket = x
      <4>1. CASE x = b
        BY <3>1, <4>1 DEF WritesBucket, FinalIsWhole, PairsStarted
      <4>2. CASE x # b
        BY <3>1, <4>2 DEF WritesBucket, CachesTyped
      <4> QED
        BY <4>1, <4>2
    <3>2. CASE buckets' = buckets
      BY <3>2 DEF CachesTyped
    <3> QED
      BY <1>4, <3>1, <3>2, BucketsChange DEF WritesBucket
  <2>4. ASSUME NEW d \in Commands \ {c}
        PROVE  /\ at'[d] \in Places[d]
               /\ selected'[d] \in Selections \cup {{}}
               /\ DOMAIN snap'[d] \subseteq selected'[d] /\ SnapOf(snap'[d])
               /\ todo'[d] \subseteq UniRow
               /\ dirty'[d] \subseteq Buckets
               /\ DOMAIN final'[d] = Buckets
               /\ alone'[d] \in BOOLEAN
    BY <1>4, WorkIsLocal DEF CachesTyped, Stays
  <2>5. CASE Done(c)
    <3>1. at'[c] \in Places[c] /\ DOMAIN snap'[c] = {}
      <4>1. at'[c] = "idle" /\ snap'[c] = <<>>
        BY <2>5 DEF Done
      <4>2. DOMAIN <<>> = {}
        OBVIOUS
      <4> QED
        BY <4>1, <4>2, PlacesOfCommands
    <3>2. SnapOf(snap'[c]) /\ DOMAIN final'[c] = Buckets
      BY <2>5, <3>1 DEF Done, SnapOf
    <3> QED
      BY <2>1, <2>2, <2>3, <2>4, <2>5, <3>1, <3>2 DEF CachesTyped, Done
  <2>6. CASE GoesOn(c)
    <3>1. /\ selected'[c] \in Selections \cup {{}}
          /\ DOMAIN snap'[c] \subseteq selected'[c] /\ SnapOf(snap'[c])
          /\ alone'[c] \in BOOLEAN
      BY <2>6 DEF GoesOn, CachesTyped
    <3>2. at'[c] \in Places[c]
      <4>1. at[c] \in Places[c]
        BY DEF CachesTyped
      <4> QED
        BY <1>4, <2>6, <4>1, Moves, PlacesOfCommands
    <3>3. todo'[c] \subseteq UniRow
      <4>1. todo[c] \subseteq UniRow
        BY DEF CachesTyped
      <4>2. \A l \in DOMAIN snap[c] : UnivariateRow(c, l, snap[c][l]) \in UniRow
        BY SelectedAreListings, RowsAreTyped
      <4>3. \/ todo'[c] = {UnivariateRow(c, l, snap[c][l]) : l \in
                 {k \in DOMAIN snap[c] : ~CachedRow(c, k, snap[c][k], rows[FileOf[k]])}}
            \/ todo'[c] \subseteq todo[c]
        BY <1>4, <2>6, Moves
      <4> QED
        BY <4>1, <4>2, <4>3
    <3>4. dirty'[c] \subseteq Buckets /\ DOMAIN final'[c] = Buckets
      <4>1. dirty[c] \subseteq Buckets /\ DOMAIN final[c] = Buckets
        BY DEF CachesTyped
      <4>2. DirtyBuckets(snap[c]) \subseteq Buckets /\ DOMAIN FinalBuckets(snap[c]) = Buckets
        BY DEF DirtyBuckets, FinalBuckets
      <4> QED
        BY <1>4, <2>6, <4>1, <4>2, Moves
    <3> QED
      BY <2>1, <2>2, <2>3, <2>4, <3>1, <3>2, <3>3, <3>4 DEF CachesTyped
  <2> QED
    BY <1>4, <2>5, <2>6, WorkIsLocal
<1> QED
  BY <1>1, <1>2, <1>3, <1>4, StepsOfCaches

LEMMA RivalsAreMutual ==
  /\ \A c \in Commands : Rivals[c] \subseteq Commands \ {c}
  /\ \A c, d \in Commands : d \in Rivals[c] => c \in Rivals[d]
  /\ \A c, d \in RowWriters : c # d => d \in Rivals[c]
  /\ \A c, d \in PairWriters : c # d => d \in Rivals[c]
BY DEF Rivals, Commands, RowWriters, PairWriters

\* Nobody else writes while a command is alone.
LEMMA OnlyOneWrites ==
  ASSUME CachesTyped, AloneWorks, NEW c \in Commands, alone[c], NEW d \in Commands
  PROVE  /\ c \in RowWriters /\ at[d] = "writing rows" => d = c
         /\ c \in PairWriters /\ at[d] = "writing pairs" => d = c
<1>1. at[d] \in Places[d]
  BY DEF CachesTyped
<1>2. at[d] = "writing rows" => d \in RowWriters
  BY <1>1, PlacesOfCommands DEF RowWriters
<1>3. at[d] = "writing pairs" => d \in PairWriters
  BY <1>1, PlacesOfCommands DEF PairWriters
<1>4. d \in Rivals[c] => at[d] = "idle"
  BY DEF AloneWorks
<1> QED
  BY <1>2, <1>3, <1>4, RivalsAreMutual

LEMMA StepAloneWorks ==
  ASSUME CachesTyped, AloneWorks, [Next]_vars
  PROVE  AloneWorks'
<1>1. CASE UNCHANGED <<at, alone>>
  BY <1>1 DEF AloneWorks
<1>2. ASSUME NEW c \in Commands, NEW S \in Selections, Start(c, S) PROVE AloneWorks'
  <2>1. /\ at'[c] # "idle" /\ alone'[c] = (\A r \in Rivals[c] : at[r] = "idle")
        /\ \A d \in Commands \ {c} : at'[d] = at[d] /\ alone'[d] = (alone[d] /\ d \notin Rivals[c])
    BY <1>2, StartIsLocal DEF Stays
  <2>2. ASSUME NEW d \in Commands, alone'[d]
        PROVE  at'[d] # "idle" /\ \A r \in Rivals[d] : at'[r] = "idle"
    <3>1. CASE d = c
      BY <2>1, <2>2, <3>1, RivalsAreMutual
    <3>2. CASE d # c
      <4>1. alone[d] /\ d \notin Rivals[c] /\ at'[d] = at[d]
        BY <2>1, <2>2, <3>2
      <4>2. c \notin Rivals[d]
        BY <4>1, RivalsAreMutual
      <4> QED
        BY <2>1, <4>1, <4>2, RivalsAreMutual DEF AloneWorks
    <3> QED
      BY <3>1, <3>2
  <2> QED
    BY <2>2 DEF AloneWorks
<1>3. ASSUME NEW c \in Commands, Works(c) PROVE AloneWorks'
  <2>1. Done(c) \/ GoesOn(c)
    BY <1>3, WorkIsLocal
  <2>2. \A d \in Commands \ {c} : at'[d] = at[d] /\ alone'[d] = alone[d]
    BY <1>3, WorkIsLocal DEF Stays
  <2>3. ASSUME NEW d \in Commands, alone'[d]
        PROVE  at'[d] # "idle" /\ \A r \in Rivals[d] : at'[r] = "idle"
    <3>1. CASE d = c
      <4>1. GoesOn(c) /\ alone[c]
        BY <2>1, <2>3, <3>1 DEF Done, GoesOn
      <4> QED
        BY <2>2, <3>1, <4>1, RivalsAreMutual DEF AloneWorks, GoesOn
    <3>2. CASE d # c
      <4>1. alone[d] /\ at'[d] = at[d] /\ at[d] # "idle" /\ \A r \in Rivals[d] : at[r] = "idle"
        BY <2>2, <2>3, <3>2 DEF AloneWorks
      <4>2. c \in Rivals[d] => Done(c)
        BY <2>1, <4>1 DEF GoesOn
      <4> QED
        BY <2>2, <4>1, <4>2, RivalsAreMutual DEF Done
    <3> QED
      BY <3>1, <3>2
  <2> QED
    BY <2>3 DEF AloneWorks
<1>4. ASSUME NEW l \in Listings, NEW d \in Days, GrowSilver(l, d) PROVE AloneWorks'
  BY <1>1, <1>4 DEF GrowSilver, locals
<1> QED
  BY <1>1, <1>2, <1>3, <1>4, StepsOfCaches DEF vars, locals

\* A row that is written is of the quotes of its command.
LEMMA WrittenRow ==
  ASSUME CachesTyped, TodoIsRight, NEW c \in Commands, NEW r \in todo[c]
  PROVE  /\ r \in UniRow /\ r.listing \in DOMAIN snap[c] /\ FileOf[r.listing] \in Files
         /\ r = UnivariateRow(c, r.listing, snap[c][r.listing])
         /\ r.days = snap[c][r.listing] /\ r.days # {}
<1>1. r \in UniRow
  BY DEF CachesTyped
<1>2. r.listing \in DOMAIN snap[c] /\ r = UnivariateRow(c, r.listing, snap[c][r.listing])
  BY DEF TodoIsRight
<1>3. r.days = snap[c][r.listing]
  BY <1>2 DEF UnivariateRow
<1>4. snap[c][r.listing] # {}
  BY <1>2, SelectedAreListings
<1> QED
  BY <1>1, <1>2, <1>3, <1>4 DEF UniRow, Files

LEMMA QuotesGrow ==
  ASSUME CachesTyped, [Next]_vars
  PROVE  \A l \in Listings : quotes[l] \subseteq quotes'[l]
<1>1. ASSUME NEW l \in Listings, NEW d \in Days, GrowSilver(l, d)
      PROVE  \A k \in Listings : quotes[k] \subseteq quotes'[k]
  BY <1>1 DEF GrowSilver, CachesTyped
<1>2. ASSUME NEW c \in Commands, NEW S \in Selections, Start(c, S) PROVE quotes' = quotes
  BY <1>2 DEF Start
<1>3. ASSUME NEW c \in Commands, Works(c) PROVE quotes' = quotes
  BY <1>3, WorkIsLocal
<1> QED
  BY <1>1, <1>2, <1>3, StepsOfCaches DEF vars

LEMMA StepDaysAreKnown ==
  ASSUME CachesTyped, DaysAreKnown, TodoIsRight, [Next]_vars
  PROVE  DaysAreKnown'
<1>1. \A l \in Listings : quotes[l] \subseteq quotes'[l]
  BY QuotesGrow
<1>2. ASSUME rows' = rows
      PROVE  \A f \in Files : rows'[f] \in UniRow =>
               rows'[f].days # {} /\ rows'[f].days \subseteq quotes'[rows'[f].listing]
  <2>1. \A f \in Files : rows[f] \in UniRow => rows[f].listing \in Listings
    BY DEF UniRow
  <2> QED
    BY <1>1, <1>2, <2>1 DEF DaysAreKnown
<1>3. ASSUME snap' = snap
      PROVE  \A c \in Commands : \A l \in DOMAIN snap'[c] : snap'[c][l] \subseteq quotes'[l]
  <2>1. \A c \in Commands : DOMAIN snap[c] \subseteq Listings
    BY SelectedAreListings
  <2> QED
    BY <1>1, <1>3, <2>1 DEF DaysAreKnown
<1>4. ASSUME NEW c \in Commands, NEW S \in Selections, Start(c, S) PROVE DaysAreKnown'
  <2>1. rows' = rows /\ quotes' = quotes
    BY <1>4 DEF Start
  <2>2. \A l \in DOMAIN snap'[c] : snap'[c][l] = quotes[l]
    BY <1>4, StartIsLocal
  <2>3. \A d \in Commands \ {c} : snap'[d] = snap[d]
    BY <1>4, StartIsLocal DEF Stays
  <2>4. \A d \in Commands : \A l \in DOMAIN snap'[d] : snap'[d][l] \subseteq quotes'[l]
    BY <2>1, <2>2, <2>3 DEF DaysAreKnown
  <2> QED
    BY <1>2, <2>1, <2>4 DEF DaysAreKnown
<1>5. ASSUME NEW c \in Commands, Works(c) PROVE DaysAreKnown'
  <2>1. quotes' = quotes
    BY <1>5, WorkIsLocal
  <2>2. \A d \in Commands : \A l \in DOMAIN snap'[d] : snap'[d][l] \subseteq quotes'[l]
    <3>1. snap'[c] = <<>> \/ snap'[c] = snap[c]
      BY <1>5, WorkIsLocal DEF Done, GoesOn
    <3>2. DOMAIN <<>> = {}
      OBVIOUS
    <3>3. \A d \in Commands \ {c} : snap'[d] = snap[d]
      BY <1>5, WorkIsLocal DEF Stays
    <3> QED
      BY <2>1, <3>1, <3>2, <3>3 DEF DaysAreKnown
  <2>3. ASSUME NEW r \in todo[c], WritesRow(c, r), NEW f \in Files, rows'[f] \in UniRow
        PROVE  rows'[f].days # {} /\ rows'[f].days \subseteq quotes'[rows'[f].listing]
    <3>1. r.days # {} /\ r.days \subseteq quotes[r.listing]
      BY WrittenRow DEF DaysAreKnown
    <3>2. CASE f = FileOf[r.listing]
      <4>1. rows'[f] = r
        BY <2>3, <3>2, CachesAssumption DEF WritesRow
      <4> QED
        BY <2>1, <3>1, <4>1
    <3>3. CASE f # FileOf[r.listing]
      <4>1. rows'[f] = rows[f]
        BY <2>3, <3>3 DEF WritesRow
      <4> QED
        BY <2>1, <2>3, <4>1 DEF DaysAreKnown
    <3> QED
      BY <3>2, <3>3
  <2>4. \A f \in Files : rows'[f] \in UniRow =>
          rows'[f].days # {} /\ rows'[f].days \subseteq quotes'[rows'[f].listing]
    BY <1>2, <1>5, <2>3, RowsChange
  <2> QED
    BY <2>2, <2>4 DEF DaysAreKnown
<1>6. CASE UNCHANGED <<rows, snap>>
  BY <1>2, <1>3, <1>6 DEF DaysAreKnown
<1>7. ASSUME NEW l \in Listings, NEW d \in Days, GrowSilver(l, d) PROVE UNCHANGED <<rows, snap>>
  BY <1>7 DEF GrowSilver, locals
<1> QED
  BY <1>4, <1>5, <1>6, <1>7, StepsOfCaches DEF vars, locals

LEMMA StepRowsAreOlder ==
  ASSUME CachesTyped, AloneWorks, DaysAreKnown, TodoIsRight, RowsAreOlder, [Next]_vars
  PROVE  RowsAreOlder'
<1>1. CASE UNCHANGED <<rows, selected, snap, alone>>
  BY <1>1 DEF RowsAreOlder
<1>2. ASSUME NEW d \in Commands, NEW S \in Selections, Start(d, S),
             NEW c \in RowWriters, alone'[c], NEW f \in Files, rows'[f] \in UniRow,
             rows'[f].listing \in selected'[c]
      PROVE  /\ rows'[f].listing \in DOMAIN snap'[c]
             /\ rows'[f].days \subseteq snap'[c][rows'[f].listing]
  <2>1. rows' = rows /\ c \in Commands
    BY <1>2 DEF Start, RowWriters, Commands
  <2>2. CASE c = d
    <3>1. rows[f].days # {} /\ rows[f].days \subseteq quotes[rows[f].listing]
      BY <1>2, <2>1 DEF DaysAreKnown
    <3>2. /\ selected'[d] = S /\ DOMAIN snap'[d] = {l \in S : quotes[l] # {}}
          /\ \A l \in DOMAIN snap'[d] : snap'[d][l] = quotes[l]
      BY <1>2, StartIsLocal
    <3> QED
      BY <1>2, <2>1, <2>2, <3>1, <3>2
  <2>3. CASE c # d
    <3>1. selected'[c] = selected[c] /\ snap'[c] = snap[c] /\ alone[c]
      BY <1>2, <2>1, <2>3, StartIsLocal DEF Stays
    <3> QED
      BY <1>2, <2>1, <3>1 DEF RowsAreOlder
  <2> QED
    BY <2>2, <2>3
<1>3. ASSUME NEW d \in Commands, Works(d),
             NEW c \in RowWriters, alone'[c], NEW f \in Files, rows'[f] \in UniRow,
             rows'[f].listing \in selected'[c]
      PROVE  /\ rows'[f].listing \in DOMAIN snap'[c]
             /\ rows'[f].days \subseteq snap'[c][rows'[f].listing]
  <2>1. c \in Commands
    BY DEF RowWriters, Commands
  <2>2. selected'[c] = selected[c] /\ snap'[c] = snap[c] /\ alone[c]
    BY <1>3, <2>1, WorkIsLocal DEF Stays, Done, GoesOn
  <2>3. CASE rows'[f] = rows[f]
    BY <1>3, <2>2, <2>3 DEF RowsAreOlder
  <2>4. CASE rows'[f] # rows[f]
    <3>1. PICK r \in todo[d] : WritesRow(d, r)
      BY <1>3, <2>4, RowsChange
    <3>2. f = FileOf[r.listing] /\ rows'[f] = r
      BY <1>3, <2>4, <3>1, CachesAssumption DEF WritesRow
    <3>3. d = c
      BY <2>1, <2>2, <3>1, OnlyOneWrites DEF WritesRow
    <3> QED
      BY <2>2, <3>2, <3>3, WrittenRow
  <2> QED
    BY <2>3, <2>4
<1>4. ASSUME NEW l \in Listings, NEW d \in Days, GrowSilver(l, d)
      PROVE  UNCHANGED <<rows, selected, snap, alone>>
  BY <1>4 DEF GrowSilver, locals
<1> QED
  BY <1>1, <1>2, <1>3, <1>4, StepsOfCaches DEF RowsAreOlder, vars, locals

LEMMA StepTodoIsRight ==
  ASSUME CachesTyped, TodoIsRight, [Next]_vars
  PROVE  TodoIsRight'
<1> DEFINE Right(c) ==
      /\ todo'[c] # {} => at'[c] = "writing rows"
      /\ \A r \in todo'[c] :
           r.listing \in DOMAIN snap'[c] /\ r = UnivariateRow(c, r.listing, snap'[c][r.listing])
<1>1. ASSUME NEW c \in Commands, todo'[c] \subseteq todo[c], snap'[c] = snap[c],
             at'[c] = at[c] \/ todo'[c] = {}
      PROVE  Right(c)
  BY <1>1 DEF TodoIsRight
<1>2. ASSUME NEW d \in Commands, NEW S \in Selections, Start(d, S), NEW c \in Commands
      PROVE  Right(c)
  <2>1. CASE c = d
    <3>1. todo' = todo /\ at[c] = "idle"
      BY <1>2, <2>1 DEF Start
    <3>2. todo'[c] = {}
      BY <3>1 DEF TodoIsRight
    <3> QED
      BY <3>2
  <2>2. CASE c # d
    <3>1. todo'[c] = todo[c] /\ snap'[c] = snap[c] /\ at'[c] = at[c]
      BY <1>2, <2>2, StartIsLocal DEF Stays
    <3> QED
      BY <1>1, <3>1
  <2> QED
    BY <2>1, <2>2
<1>3. ASSUME NEW d \in Commands, Works(d), NEW c \in Commands
      PROVE  Right(c)
  <2>1. CASE c # d
    <3>1. todo'[c] = todo[c] /\ snap'[c] = snap[c] /\ at'[c] = at[c]
      BY <1>3, <2>1, WorkIsLocal DEF Stays
    <3> QED
      BY <1>1, <3>1
  <2>2. CASE c = d /\ Done(d)
    BY <2>2 DEF Done
  <2>3. CASE c = d /\ GoesOn(d)
    <3>1. snap'[c] = snap[c]
      BY <2>3 DEF GoesOn
    <3>2. at[c] # "writing rows" => todo[c] = {}
      BY DEF TodoIsRight
    <3>3. \/ /\ at'[c] = "writing rows"
             /\ todo'[c] = {UnivariateRow(c, l, snap[c][l]) : l \in
                  {k \in DOMAIN snap[c] : ~CachedRow(c, k, snap[c][k], rows[FileOf[k]])}}
          \/ todo'[c] \subseteq todo[c] /\ at'[c] = at[c]
          \/ todo'[c] = todo[c] /\ todo[c] = {}
      BY <1>3, <2>3, <3>2, Moves
    <3>4. CASE /\ at'[c] = "writing rows"
               /\ todo'[c] = {UnivariateRow(c, l, snap[c][l]) : l \in
                    {k \in DOMAIN snap[c] : ~CachedRow(c, k, snap[c][k], rows[FileOf[k]])}}
      <4>1. \A l \in DOMAIN snap[c] : UnivariateRow(c, l, snap[c][l]).listing = l
        BY DEF UnivariateRow
      <4> QED
        BY <3>1, <3>4, <4>1
    <3> QED
      BY <1>1, <3>1, <3>3, <3>4
  <2> QED
    BY <1>3, <2>1, <2>2, <2>3, WorkIsLocal
<1>4. ASSUME UNCHANGED <<todo, snap, at>>, NEW c \in Commands PROVE Right(c)
  BY <1>1, <1>4
<1>5. ASSUME NEW l \in Listings, NEW d \in Days, GrowSilver(l, d)
      PROVE  UNCHANGED <<todo, snap, at>>
  BY <1>5 DEF GrowSilver, locals
<1>6. UNCHANGED vars => UNCHANGED <<todo, snap, at>>
  BY DEF vars, locals
<1>7. \A c \in Commands : Right(c)
  BY <1>2, <1>3, <1>4, <1>5, <1>6, StepsOfCaches
<1> QED
  BY <1>7 DEF TodoIsRight

LEMMA StepRowsAreRight ==
  ASSUME CachesTyped, AloneWorks, RowsAreOlder, TodoIsRight, RowsAreRight, [Next]_vars
  PROVE  RowsAreRight'
<1> SUFFICES ASSUME IsInjective(FileOf), NEW c \in RowWriters, alone'[c], at'[c] \in RowsStarted,
                    NEW l \in DOMAIN snap'[c]
             PROVE  Exact(c, l)' \/ \E r \in todo'[c] : r.listing = l
  BY DEF RowsAreRight
<1>0. c \in Commands
  BY DEF RowWriters, Commands
<1>1. ASSUME alone[c], snap'[c] = snap[c], at[c] \in RowsStarted,
             rows'[FileOf[l]] = rows[FileOf[l]], todo'[c] = todo[c]
      PROVE  Exact(c, l)' \/ \E r \in todo'[c] : r.listing = l
  BY <1>1 DEF RowsAreRight, Exact
<1>2. ASSUME NEW d \in Commands, NEW S \in Selections, Start(d, S)
      PROVE  Exact(c, l)' \/ \E r \in todo'[c] : r.listing = l
  <2>1. c # d
    <3>1. at'[d] \in {"pairs", "rows"} /\ (at'[d] = "pairs" => d = "bivariate")
      BY <1>2, StartIsLocal
    <3>2. "rows" \notin RowsStarted /\ "bivariate" \notin RowWriters
      BY DEF RowsStarted, RowWriters
    <3> QED
      BY <3>1, <3>2
  <2>2. Stays(c) /\ alone[c] /\ rows' = rows
    BY <1>0, <1>2, <2>1, StartIsLocal
  <2> QED
    BY <1>1, <2>2 DEF Stays
<1>3. ASSUME NEW d \in Commands, Works(d), c # d
      PROVE  Exact(c, l)' \/ \E r \in todo'[c] : r.listing = l
  <2>1. Stays(c) /\ alone[c]
    BY <1>0, <1>3, WorkIsLocal
  <2>2. ~(\E r \in todo[d] : WritesRow(d, r))
    BY <1>0, <1>3, <2>1, OnlyOneWrites DEF WritesRow
  <2>3. rows' = rows
    BY <1>3, <2>2, RowsChange
  <2> QED
    BY <1>1, <2>1, <2>3 DEF Stays
<1>4. ASSUME Works(c) PROVE Exact(c, l)' \/ \E r \in todo'[c] : r.listing = l
  <2>1. GoesOn(c) /\ alone[c] /\ snap'[c] = snap[c]
    BY <1>0, <1>4, WorkIsLocal DEF Done, GoesOn
  <2>2. l \in Listings /\ l \in selected[c] /\ FileOf[l] \in Files
        /\ snap[c][l] \in SUBSET Days
    BY <1>0, <2>1, SelectedAreListings DEF CachesTyped, Files
  <2>3. ASSUME CheckRows(c), rows' = rows,
               todo'[c] = {UnivariateRow(c, k, snap[c][k]) : k \in
                 {k \in DOMAIN snap[c] : ~CachedRow(c, k, snap[c][k], rows[FileOf[k]])}}
        PROVE  Exact(c, l)' \/ \E r \in todo'[c] : r.listing = l
    <3>1. CASE CachedRow(c, l, snap[c][l], rows[FileOf[l]])
      <4>1. rows[FileOf[l]] # None /\ rows[FileOf[l]] # Torn
        BY <2>1, <2>3, <3>1 DEF CachedRow, CheckRows, Readable
      <4>2. rows[FileOf[l]] \in UniRow /\ rows[FileOf[l]].listing = l
        BY <2>2, <3>1, <4>1 DEF CachesTyped, CachedRow
      <4>3. rows[FileOf[l]].days \subseteq snap[c][l]
        BY <2>1, <2>2, <4>2 DEF RowsAreOlder
      <4>4. rows[FileOf[l]] = UnivariateRow(c, l, snap[c][l])
        BY <2>2, <3>1, <4>2, <4>3, CachedIsExact
      <4> QED
        BY <2>1, <2>3, <4>4 DEF Exact
    <3>2. CASE ~CachedRow(c, l, snap[c][l], rows[FileOf[l]])
      <4>1. UnivariateRow(c, l, snap[c][l]) \in todo'[c]
        BY <2>1, <2>3, <3>2
      <4>2. UnivariateRow(c, l, snap[c][l]).listing = l
        BY DEF UnivariateRow
      <4> QED
        BY <4>1, <4>2
    <3> QED
      BY <3>1, <3>2
  <2>4. ASSUME WriteRow(c)
        PROVE  Exact(c, l)' \/ \E r \in todo'[c] : r.listing = l
    <3>1. PICK r \in todo[c] : WritesRow(c, r)
      BY <1>0, <1>4, <2>4, RowsChange
    <3>2. rows'[FileOf[r.listing]] = r /\ todo'[c] = todo[c] \ {r}
      BY <2>1, <3>1 DEF WritesRow, GoesOn, Done
    <3>3. r.listing \in DOMAIN snap[c] /\ r = UnivariateRow(c, r.listing, snap[c][r.listing])
      BY <1>0 DEF TodoIsRight
    <3>4. CASE r.listing = l
      BY <2>1, <3>2, <3>3, <3>4 DEF Exact
    <3>5. CASE r.listing # l
      <4>1. r.listing \in Listings
        BY <1>0, <3>3, SelectedAreListings
      <4>2. FileOf[l] # FileOf[r.listing]
        BY <2>2, <3>5, <4>1, CachesAssumption DEF IsInjective
      <4>3. rows'[FileOf[l]] = rows[FileOf[l]]
        BY <2>2, <3>1, <4>2 DEF WritesRow
      <4>4. at[c] \in RowsStarted
        BY <2>4 DEF WriteRow, RowsStarted
      <4>5. Exact(c, l) \/ \E x \in todo[c] : x.listing = l
        BY <2>1, <4>4 DEF RowsAreRight
      <4> QED
        BY <2>1, <3>2, <3>5, <4>3, <4>5 DEF Exact
    <3> QED
      BY <3>4, <3>5
  <2>5. \/ /\ CheckRows(c) /\ rows' = rows
           /\ todo'[c] = {UnivariateRow(c, k, snap[c][k]) : k \in
                {k \in DOMAIN snap[c] : ~CachedRow(c, k, snap[c][k], rows[FileOf[k]])}}
        \/ WriteRow(c)
        \/ rows' = rows /\ todo' = todo /\ at[c] \in RowsStarted
    BY <1>0, <1>4, <2>1, Moves DEF RowsStarted
  <2> QED
    BY <1>1, <2>1, <2>3, <2>4, <2>5
<1>5. ASSUME UNCHANGED <<rows, at, snap, todo, alone>>
      PROVE  Exact(c, l)' \/ \E r \in todo'[c] : r.listing = l
  BY <1>1, <1>5
<1>6. ASSUME NEW k \in Listings, NEW d \in Days, GrowSilver(k, d)
      PROVE  UNCHANGED <<rows, at, snap, todo, alone>>
  BY <1>6 DEF GrowSilver, locals
<1>7. UNCHANGED vars => UNCHANGED <<rows, at, snap, todo, alone>>
  BY DEF vars, locals
<1>8. ASSUME NEW d \in Commands, Works(d)
      PROVE  Exact(c, l)' \/ \E r \in todo'[c] : r.listing = l
  BY <1>3, <1>4, <1>8
<1> QED
  BY <1>2, <1>5, <1>6, <1>7, <1>8, StepsOfCaches

LEMMA StepPairsAreSingle ==
  ASSUME CachesTyped, FinalIsWhole, PairsAreSingle, [Next]_vars
  PROVE  PairsAreSingle'
<1>1. ASSUME buckets' = buckets PROVE PairsAreSingle'
  BY <1>1 DEF PairsAreSingle, OnePerPair
<1>2. ASSUME NEW c \in Commands, NEW b \in dirty[c], WritesBucket(c, b) PROVE PairsAreSingle'
  <2>1. ASSUME NEW x \in Buckets, buckets'[x] # Torn PROVE OnePerPair(buckets'[x])
    <3>1. CASE x = b
      <4>1. OnePerPair(final[c][b])
        BY <1>2, <2>1, <3>1 DEF WritesBucket, FinalIsWhole, PairsStarted
      <4>2. buckets'[x] = final[c][b]
        BY <1>2, <2>1, <3>1 DEF WritesBucket
      <4> QED
        BY <4>1, <4>2
    <3>2. CASE x # b
      <4>1. buckets'[x] = buckets[x]
        BY <1>2, <3>2 DEF WritesBucket
      <4> QED
        BY <2>1, <4>1 DEF PairsAreSingle
    <3> QED
      BY <3>1, <3>2
  <2> QED
    BY <2>1 DEF PairsAreSingle, OnePerPair
<1>3. ASSUME NEW c \in Commands, Works(c) PROVE PairsAreSingle'
  BY <1>1, <1>2, <1>3, BucketsChange
<1>4. ASSUME NEW c \in Commands, NEW S \in Selections, Start(c, S) PROVE buckets' = buckets
  BY <1>4 DEF Start
<1>5. ASSUME NEW l \in Listings, NEW d \in Days, GrowSilver(l, d) PROVE buckets' = buckets
  BY <1>5 DEF GrowSilver
<1> QED
  BY <1>1, <1>3, <1>4, <1>5, StepsOfCaches DEF vars

\* The rows that a command computed and has still to write, in the next state.
WholeNext(c) ==
  /\ dirty'[c] # {} => at'[c] = "writing pairs"
  /\ at'[c] \in PairsStarted => \A b \in Buckets :
       /\ final'[c][b] \subseteq PairRows
       /\ \A r \in final'[c][b] : r.bucket = b
       /\ OnePerPair(final'[c][b])
       /\ Keys(final'[c][b]) = PairsIn(c, b)'

LEMMA StepFinalIsWhole ==
  ASSUME CachesTyped, FinalIsWhole, [Next]_vars
  PROVE  FinalIsWhole'
<1>1. ASSUME NEW c \in Commands, snap'[c] = snap[c], final'[c] = final[c],
             at'[c] \in PairsStarted => at[c] \in PairsStarted,
             dirty'[c] # {} => at'[c] = "writing pairs"
      PROVE  WholeNext(c)
  <2>1. \A b \in Buckets : PairsIn(c, b)' = PairsIn(c, b)
    BY <1>1 DEF PairsIn, PairsOf, Universe, BucketOf, Id, Rank
  <2> QED
    BY <1>1, <2>1 DEF FinalIsWhole, WholeNext
<1>2. ASSUME NEW c \in Commands, Stays(c) PROVE WholeNext(c)
  <2>1. dirty'[c] # {} => at'[c] = "writing pairs"
    BY <1>2 DEF FinalIsWhole, Stays
  <2> QED
    BY <1>1, <1>2, <2>1 DEF Stays
<1>3. ASSUME NEW d \in Commands, NEW S \in Selections, Start(d, S), NEW c \in Commands
      PROVE  WholeNext(c)
  <2>1. CASE c = d
    <3>1. dirty' = dirty /\ at[c] = "idle" /\ at'[c] \in {"pairs", "rows"}
      BY <1>3, <2>1, StartIsLocal
    <3>2. dirty'[c] = {}
      BY <3>1 DEF FinalIsWhole
    <3> QED
      BY <3>1, <3>2 DEF WholeNext, PairsStarted
  <2>2. CASE c # d
    BY <1>2, <1>3, <2>2, StartIsLocal
  <2> QED
    BY <2>1, <2>2
<1>4. ASSUME NEW d \in Commands, Works(d), NEW c \in Commands PROVE WholeNext(c)
  <2>1. CASE c # d
    BY <1>2, <1>4, <2>1, WorkIsLocal
  <2>2. CASE c = d /\ Done(d)
    BY <2>2 DEF Done, WholeNext, PairsStarted
  <2>3. CASE c = d /\ GoesOn(d)
    <3>1. snap'[c] = snap[c]
      BY <2>3 DEF GoesOn
    <3>2. at[c] # "writing pairs" => dirty[c] = {}
      BY DEF FinalIsWhole
    <3>3. \/ /\ at'[c] = "writing pairs" /\ Readable(Buckets, buckets)
             /\ final'[c] = FinalBuckets(snap[c])
          \/ /\ final'[c] = final[c] /\ dirty'[c] \subseteq dirty[c]
             /\ at'[c] \in PairsStarted => at[c] \in PairsStarted
             /\ at'[c] = at[c] \/ dirty[c] = {}
      BY <1>4, <2>3, <3>2, Moves DEF PairsStarted
    <3>4. CASE /\ final'[c] = final[c] /\ dirty'[c] \subseteq dirty[c]
               /\ at'[c] \in PairsStarted => at[c] \in PairsStarted
               /\ at'[c] = at[c] \/ dirty[c] = {}
      <4>1. dirty'[c] # {} => at'[c] = "writing pairs"
        BY <3>2, <3>4
      <4> QED
        BY <1>1, <3>1, <3>4, <4>1
    <3>5. CASE /\ at'[c] = "writing pairs" /\ Readable(Buckets, buckets)
               /\ final'[c] = FinalBuckets(snap[c])
      <4>1. \A b \in Buckets : PairsIn(c, b)' = PairsIn(c, b)
        BY <3>1 DEF PairsIn, PairsOf, Universe, BucketOf, Id, Rank
      <4>2. ASSUME NEW b \in Buckets
            PROVE  /\ final'[c][b] \subseteq PairRows
                   /\ \A r \in final'[c][b] : r.bucket = b
                   /\ OnePerPair(final'[c][b])
                   /\ Keys(final'[c][b]) = PairsIn(c, b)
        BY <3>5, FinalsAreWhole
      <4> QED
        BY <3>5, <4>1, <4>2 DEF WholeNext
    <3> QED
      BY <3>3, <3>4, <3>5
  <2> QED
    BY <1>4, <2>1, <2>2, <2>3, WorkIsLocal
<1>5. ASSUME UNCHANGED <<at, selected, snap, todo, final, dirty>>, NEW c \in Commands
      PROVE  WholeNext(c)
  BY <1>2, <1>5 DEF Stays
<1>6. ASSUME NEW l \in Listings, NEW d \in Days, GrowSilver(l, d)
      PROVE  UNCHANGED <<at, selected, snap, todo, final, dirty>>
  BY <1>6 DEF GrowSilver, locals
<1>7. UNCHANGED vars => UNCHANGED <<at, selected, snap, todo, final, dirty>>
  BY DEF vars, locals
<1>8. \A c \in Commands : WholeNext(c)
  BY <1>3, <1>4, <1>5, <1>6, <1>7, StepsOfCaches
<1> QED
  BY <1>8 DEF FinalIsWhole, WholeNext, OnePerPair, Keys

\* Days that come in order add observations to each pair, and take none.
LEMMA KnownPairsGrow ==
  ASSUME CachesTyped, ~Backfills, [Next]_vars
  PROVE  \A l, k \in Listings :
           Common(quotes[l], quotes[k]) \subseteq Common(quotes'[l], quotes'[k])
<1>1. ASSUME NEW x \in Listings, NEW d \in Days, GrowSilver(x, d), NEW l \in Listings,
             NEW k \in Listings
      PROVE  Common(quotes[l], quotes[k]) \subseteq Common(quotes'[l], quotes'[k])
  <2>1. \A e \in quotes[x] : e < d
    BY <1>1 DEF GrowSilver
  <2>2. quotes'[x] = quotes[x] \cup {d} /\ \A y \in Listings \ {x} : quotes'[y] = quotes[y]
    BY <1>1 DEF GrowSilver, CachesTyped
  <2>3. \A y \in Listings : quotes[y] \in SUBSET Days
    BY DEF CachesTyped
  <2>4. CASE l = x /\ k # x
    BY <2>1, <2>2, <2>3, <2>4, ObservationsGrow
  <2>5. CASE l # x /\ k = x
    BY <2>1, <2>2, <2>3, <2>5, ObservationsGrow
  <2>6. CASE l = x /\ k = x
    <3>1. Common(quotes[x], quotes[x]) \subseteq Common(quotes'[x], quotes[x])
      BY <2>1, <2>2, <2>3, ObservationsGrow
    <3>2. quotes'[x] \in SUBSET Days
      BY <2>2, <2>3
    <3>3. Common(quotes'[x], quotes[x]) \subseteq Common(quotes'[x], quotes'[x])
      BY <2>1, <2>2, <2>3, <3>2, ObservationsGrow
    <3> QED
      BY <2>6, <3>1, <3>3
  <2>7. CASE l # x /\ k # x
    BY <2>2, <2>7
  <2> QED
    BY <2>4, <2>5, <2>6, <2>7
<1>2. ASSUME NEW c \in Commands, NEW S \in Selections, Start(c, S) PROVE quotes' = quotes
  BY <1>2 DEF Start
<1>3. ASSUME NEW c \in Commands, Works(c) PROVE quotes' = quotes
  BY <1>3, WorkIsLocal
<1> QED
  BY <1>1, <1>2, <1>3, StepsOfCaches DEF vars

\* A row that a command computed is of days that Silver has.
LEMMA FinalsAreKnown ==
  ASSUME CachesTyped, ~Backfills, PairsAreKnown, Readable(Buckets, buckets),
         NEW c \in Commands, NEW b \in Buckets, NEW r \in FinalBuckets(snap[c])[b]
  PROVE  r.seen \subseteq Observations(quotes, r.pair)
<1>1. PICK p \in PairsIn(c, b) : r = FinalRow(snap[c], p)
  BY FinalsAreWhole
<1>2. p \in PairsOf(Universe(snap[c])) /\ BucketOf(Universe(snap[c]), p) = b
  BY DEF PairsIn
<1>3. CASE CachedFor(snap[c], p) # None
  <2>1. r \in buckets[b]
    BY <1>1, <1>2, <1>3, CachedIsFound DEF FinalRow
  <2>2. buckets[b] # Torn
    BY NothingIsDiscarded
  <2> QED
    BY <2>1, <2>2 DEF PairsAreKnown
<1>4. CASE CachedFor(snap[c], p) = None
  <2>1. r.seen = Observations(snap[c], p) /\ r.pair = p
    BY <1>1, <1>2, <1>4, PairsAreTyped DEF FinalRow
  <2>2. p[1] \in DOMAIN snap[c] /\ p[2] \in DOMAIN snap[c]
    BY <1>2, PairsAreTyped
  <2>3. Common(snap[c][p[1]], snap[c][p[2]]) \subseteq Common(quotes[p[1]], quotes[p[2]])
    BY <2>2 DEF PairsAreKnown
  <2> QED
    BY <2>1, <2>3 DEF Observations
<1> QED
  BY <1>3, <1>4

\* Observations of the quotes as they are next.
KnownNext(r) == r.seen \subseteq Common(quotes'[r.pair[1]], quotes'[r.pair[2]])

LEMMA StepPairsAreKnown ==
  ASSUME CachesTyped, FinalIsWhole, PairsAreKnown, [Next]_vars
  PROVE  PairsAreKnown'
<1> SUFFICES ASSUME ~Backfills
             PROVE  /\ \A b \in Buckets : buckets'[b] # Torn => \A r \in buckets'[b] : KnownNext(r)
                    /\ \A c \in Commands : \A l, k \in DOMAIN snap'[c] :
                         Common(snap'[c][l], snap'[c][k]) \subseteq Common(quotes'[l], quotes'[k])
                    /\ \A c \in Commands : at'[c] \in PairsStarted =>
                         \A b \in Buckets : \A r \in final'[c][b] : KnownNext(r)
  BY DEF PairsAreKnown, KnownNext, Observations
<1>1. \A l, k \in Listings : Common(quotes[l], quotes[k]) \subseteq Common(quotes'[l], quotes'[k])
  BY KnownPairsGrow
<1>2. ASSUME NEW r \in PairRows, r.seen \subseteq Observations(quotes, r.pair)
      PROVE  KnownNext(r)
  <2>1. r.pair[1] \in Listings /\ r.pair[2] \in Listings
    BY DEF PairRows
  <2> QED
    BY <1>1, <1>2, <2>1 DEF KnownNext, Observations
<1>3. ASSUME NEW b \in Buckets, buckets[b] # Torn, NEW r \in buckets[b] PROVE KnownNext(r)
  <2>1. r \in PairRows
    BY <1>3 DEF CachesTyped
  <2> QED
    BY <1>2, <1>3, <2>1 DEF PairsAreKnown
<1>4. ASSUME NEW c \in Commands, at[c] \in PairsStarted, NEW b \in Buckets,
             NEW r \in final[c][b]
      PROVE  KnownNext(r)
  <2>1. r \in PairRows
    BY <1>4 DEF FinalIsWhole
  <2> QED
    BY <1>2, <1>4, <2>1 DEF PairsAreKnown
<1>5. \A b \in Buckets : buckets'[b] # Torn => \A r \in buckets'[b] : KnownNext(r)
  <2>1. ASSUME buckets' = buckets
        PROVE  \A b \in Buckets : buckets'[b] # Torn => \A r \in buckets'[b] : KnownNext(r)
    BY <1>3, <2>1
  <2>2. ASSUME NEW c \in Commands, NEW x \in dirty[c], WritesBucket(c, x),
               NEW b \in Buckets, buckets'[b] # Torn, NEW r \in buckets'[b]
        PROVE  KnownNext(r)
    <3>1. CASE b = x
      <4>1. r \in final[c][b] /\ at[c] \in PairsStarted
        BY <2>2, <3>1 DEF WritesBucket, PairsStarted
      <4> QED
        BY <1>4, <4>1
    <3>2. CASE b # x
      <4>1. buckets'[b] = buckets[b]
        BY <2>2, <3>2 DEF WritesBucket
      <4> QED
        BY <1>3, <2>2, <4>1
    <3> QED
      BY <3>1, <3>2
  <2>3. ASSUME NEW c \in Commands, Works(c)
        PROVE  buckets' = buckets \/ \E x \in dirty[c] : WritesBucket(c, x)
    BY <2>3, BucketsChange
  <2>4. ASSUME NEW c \in Commands, NEW S \in Selections, Start(c, S) PROVE buckets' = buckets
    BY <2>4 DEF Start
  <2>5. ASSUME NEW l \in Listings, NEW d \in Days, GrowSilver(l, d) PROVE buckets' = buckets
    BY <2>5 DEF GrowSilver
  <2>6. UNCHANGED vars => buckets' = buckets
    BY DEF vars
  <2>7. buckets' = buckets \/ \E c \in Commands : \E x \in dirty[c] : WritesBucket(c, x)
    BY <2>3, <2>4, <2>5, <2>6, StepsOfCaches
  <2> QED
    BY <2>1, <2>2, <2>7
<1>6. ASSUME NEW c \in Commands, snap'[c] = snap[c], NEW l \in DOMAIN snap'[c],
             NEW k \in DOMAIN snap'[c]
      PROVE  Common(snap'[c][l], snap'[c][k]) \subseteq Common(quotes'[l], quotes'[k])
  <2>1. l \in Listings /\ k \in Listings
    BY <1>6, SelectedAreListings
  <2>2. Common(snap[c][l], snap[c][k]) \subseteq Common(quotes[l], quotes[k])
    BY <1>6 DEF PairsAreKnown
  <2> QED
    BY <1>1, <1>6, <2>1, <2>2
<1>7. ASSUME NEW c \in Commands, NEW l \in DOMAIN snap'[c], NEW k \in DOMAIN snap'[c]
      PROVE  Common(snap'[c][l], snap'[c][k]) \subseteq Common(quotes'[l], quotes'[k])
  <2>1. ASSUME NEW d \in Commands, NEW S \in Selections, Start(d, S)
        PROVE  Common(snap'[c][l], snap'[c][k]) \subseteq Common(quotes'[l], quotes'[k])
    <3>1. CASE c = d
      <4>1. (\A x \in DOMAIN snap'[d] : snap'[d][x] = quotes[x]) /\ quotes' = quotes
        BY <2>1, StartIsLocal
      <4> QED
        BY <3>1, <4>1
    <3>2. CASE c # d
      <4>1. \A x \in Commands \ {d} : snap'[x] = snap[x]
        BY <2>1, StartIsLocal DEF Stays
      <4> QED
        BY <1>6, <3>2, <4>1
    <3> QED
      BY <3>1, <3>2
  <2>2. ASSUME NEW d \in Commands, Works(d) PROVE snap'[c] = snap[c]
    <3>1. snap'[c] = <<>> \/ snap'[c] = snap[c]
      BY <2>2, WorkIsLocal DEF Stays, Done, GoesOn
    <3>2. DOMAIN <<>> = {}
      OBVIOUS
    <3> QED
      BY <3>1, <3>2
  <2>3. ASSUME NEW x \in Listings, NEW d \in Days, GrowSilver(x, d) PROVE snap'[c] = snap[c]
    BY <2>3 DEF GrowSilver, locals
  <2>4. UNCHANGED vars => snap'[c] = snap[c]
    BY DEF vars, locals
  <2> QED
    BY <1>6, <2>1, <2>2, <2>3, <2>4, StepsOfCaches
<1>8. ASSUME NEW c \in Commands, at'[c] \in PairsStarted, NEW b \in Buckets,
             NEW r \in final'[c][b]
      PROVE  KnownNext(r)
  <2>1. ASSUME final'[c] = final[c], at[c] \in PairsStarted PROVE KnownNext(r)
    BY <1>4, <1>8, <2>1
  <2>2. ASSUME NEW d \in Commands, NEW S \in Selections, Start(d, S) PROVE KnownNext(r)
    <3>1. c # d
      BY <1>8, <2>2, StartIsLocal DEF PairsStarted
    <3>2. \A x \in Commands \ {d} : final'[x] = final[x] /\ at'[x] = at[x]
      BY <2>2, StartIsLocal DEF Stays
    <3> QED
      BY <1>8, <2>1, <3>1, <3>2
  <2>3. ASSUME NEW d \in Commands, Works(d) PROVE KnownNext(r)
    <3>1. CASE c # d
      <4>1. final'[c] = final[c] /\ at'[c] = at[c]
        BY <2>3, <3>1, WorkIsLocal DEF Stays
      <4> QED
        BY <1>8, <2>1, <4>1
    <3>2. CASE c = d
      <4>1. GoesOn(c)
        BY <1>8, <2>3, <3>2, WorkIsLocal DEF Done, PairsStarted
      <4>2. \/ Readable(Buckets, buckets) /\ final'[c] = FinalBuckets(snap[c])
            \/ final'[c] = final[c] /\ at[c] \in PairsStarted
        BY <1>8, <2>3, <3>2, <4>1, Moves DEF PairsStarted
      <4>3. CASE Readable(Buckets, buckets) /\ final'[c] = FinalBuckets(snap[c])
        <5>1. r.seen \subseteq Observations(quotes, r.pair)
          BY <1>8, <4>3, FinalsAreKnown
        <5>2. r \in PairRows
          BY <1>8, <4>3, FinalsAreWhole
        <5> QED
          BY <1>2, <5>1, <5>2
      <4> QED
        BY <2>1, <4>2, <4>3
    <3> QED
      BY <3>1, <3>2
  <2>4. ASSUME NEW x \in Listings, NEW d \in Days, GrowSilver(x, d)
        PROVE  final'[c] = final[c] /\ at'[c] = at[c]
    BY <2>4 DEF GrowSilver, locals
  <2>5. UNCHANGED vars => final'[c] = final[c] /\ at'[c] = at[c]
    BY DEF vars, locals
  <2> QED
    BY <1>8, <2>1, <2>2, <2>3, <2>4, <2>5, StepsOfCaches
<1> QED
  BY <1>5, <1>7, <1>8

LEMMA StepPairsAreOlder ==
  ASSUME CachesTyped, AloneWorks, PairsAreKnown, FinalIsRight, PairsAreOlder, [Next]_vars
  PROVE  PairsAreOlder'
<1> SUFFICES ASSUME ~Backfills, NEW c \in PairWriters, alone'[c], NEW b \in Buckets,
                    buckets'[b] # Torn, NEW r \in buckets'[b],
                    r.pair[1] \in DOMAIN snap'[c], r.pair[2] \in DOMAIN snap'[c]
             PROVE  r.seen \subseteq Common(snap'[c][r.pair[1]], snap'[c][r.pair[2]])
  BY DEF PairsAreOlder, Observations
<1>0. c \in Commands
  BY DEF PairWriters, Commands
<1>1. ASSUME alone[c], snap'[c] = snap[c], buckets'[b] = buckets[b]
      PROVE  r.seen \subseteq Common(snap'[c][r.pair[1]], snap'[c][r.pair[2]])
  BY <1>1 DEF PairsAreOlder, Observations
<1>2. ASSUME NEW d \in Commands, NEW S \in Selections, Start(d, S)
      PROVE  r.seen \subseteq Common(snap'[c][r.pair[1]], snap'[c][r.pair[2]])
  <2>1. buckets' = buckets
    BY <1>2 DEF Start
  <2>2. CASE c = d
    <3>1. \A l \in DOMAIN snap'[c] : snap'[c][l] = quotes[l]
      BY <1>2, <2>2, StartIsLocal
    <3>2. r.seen \subseteq Observations(quotes, r.pair)
      BY <2>1 DEF PairsAreKnown
    <3> QED
      BY <3>1, <3>2 DEF Observations
  <2>3. CASE c # d
    <3>1. snap'[c] = snap[c] /\ alone[c]
      BY <1>0, <1>2, <2>3, StartIsLocal DEF Stays
    <3> QED
      BY <1>1, <2>1, <3>1
  <2> QED
    BY <2>2, <2>3
<1>3. ASSUME NEW d \in Commands, Works(d)
      PROVE  r.seen \subseteq Common(snap'[c][r.pair[1]], snap'[c][r.pair[2]])
  <2>1. snap'[c] = snap[c] /\ alone[c]
    BY <1>0, <1>3, WorkIsLocal DEF Stays, Done, GoesOn
  <2>2. CASE buckets'[b] # buckets[b]
    <3>1. PICK x \in dirty[d] : WritesBucket(d, x)
      BY <1>3, <2>2, BucketsChange
    <3>2. x = b /\ r \in final[d][b] /\ at[d] = "writing pairs"
      BY <2>2, <3>1 DEF WritesBucket
    <3>3. d = c
      BY <1>0, <2>1, <3>2, OnlyOneWrites
    <3>4. r.seen = Observations(snap[c], r.pair)
      BY <2>1, <3>2, <3>3 DEF FinalIsRight, PairsStarted
    <3> QED
      BY <2>1, <3>4 DEF Observations
  <2> QED
    BY <1>1, <2>1, <2>2
<1>4. ASSUME NEW l \in Listings, NEW d \in Days, GrowSilver(l, d)
      PROVE  UNCHANGED <<buckets, snap, alone>>
  BY <1>4 DEF GrowSilver, locals
<1>5. UNCHANGED vars => UNCHANGED <<buckets, snap, alone>>
  BY DEF vars, locals
<1> QED
  BY <1>1, <1>2, <1>3, <1>4, <1>5, StepsOfCaches

LEMMA StepFinalIsRight ==
  ASSUME CachesTyped, PairsAreOlder, FinalIsRight, [Next]_vars
  PROVE  FinalIsRight'
<1> SUFFICES ASSUME ~Backfills, NEW c \in PairWriters, alone'[c], at'[c] \in PairsStarted,
                    NEW b \in Buckets, NEW r \in final'[c][b]
             PROVE  r.seen = Common(snap'[c][r.pair[1]], snap'[c][r.pair[2]])
  BY DEF FinalIsRight, Observations
<1>0. c \in Commands
  BY DEF PairWriters, Commands
<1>1. ASSUME alone[c], snap'[c] = snap[c], final'[c] = final[c], at[c] \in PairsStarted
      PROVE  r.seen = Common(snap'[c][r.pair[1]], snap'[c][r.pair[2]])
  BY <1>1 DEF FinalIsRight, Observations
<1>2. ASSUME NEW d \in Commands, NEW S \in Selections, Start(d, S)
      PROVE  r.seen = Common(snap'[c][r.pair[1]], snap'[c][r.pair[2]])
  <2>1. c # d
    BY <1>2, StartIsLocal DEF PairsStarted
  <2>2. Stays(c) /\ alone[c]
    BY <1>0, <1>2, <2>1, StartIsLocal
  <2> QED
    BY <1>1, <2>2 DEF Stays
<1>3. ASSUME NEW d \in Commands, Works(d), c # d
      PROVE  r.seen = Common(snap'[c][r.pair[1]], snap'[c][r.pair[2]])
  <2>1. Stays(c) /\ alone[c]
    BY <1>0, <1>3, WorkIsLocal
  <2> QED
    BY <1>1, <2>1 DEF Stays
<1>4. ASSUME Works(c)
      PROVE  r.seen = Common(snap'[c][r.pair[1]], snap'[c][r.pair[2]])
  <2>1. GoesOn(c) /\ alone[c] /\ snap'[c] = snap[c]
    BY <1>0, <1>4, WorkIsLocal DEF Done, GoesOn
  <2>2. \/ Readable(Buckets, buckets) /\ final'[c] = FinalBuckets(snap[c])
        \/ final'[c] = final[c] /\ at[c] \in PairsStarted
    BY <1>0, <1>4, <2>1, Moves DEF PairsStarted
  <2>3. CASE Readable(Buckets, buckets) /\ final'[c] = FinalBuckets(snap[c])
    <3>1. buckets[b] # Torn
      BY <1>0, <2>3, NothingIsDiscarded
    <3>2. \A x \in buckets[b] :
            x.pair[1] \in DOMAIN snap[c] /\ x.pair[2] \in DOMAIN snap[c] =>
              x.seen \subseteq Observations(snap[c], x.pair)
      BY <2>1, <3>1 DEF PairsAreOlder
    <3>3. r.seen = Observations(snap[c], r.pair)
      BY <1>0, <2>3, <3>2, FinalsAreExact
    <3> QED
      BY <2>1, <3>3 DEF Observations
  <2> QED
    BY <1>1, <2>1, <2>2, <2>3
<1>5. ASSUME NEW l \in Listings, NEW d \in Days, GrowSilver(l, d)
      PROVE  UNCHANGED <<at, final, snap, alone>>
  BY <1>5 DEF GrowSilver, locals
<1>6. UNCHANGED vars => UNCHANGED <<at, final, snap, alone>>
  BY DEF vars, locals
<1>7. ASSUME NEW d \in Commands, Works(d)
      PROVE  r.seen = Common(snap'[c][r.pair[1]], snap'[c][r.pair[2]])
  BY <1>3, <1>4, <1>7
<1> QED
  BY <1>1, <1>2, <1>5, <1>6, <1>7, StepsOfCaches

LEMMA StepBucketsAreDone ==
  ASSUME CachesTyped, AloneWorks, PairsAreSingle, BucketsAreDone, [Next]_vars
  PROVE  BucketsAreDone'
<1> SUFFICES ASSUME NEW c \in PairWriters, alone'[c], at'[c] \in PairsStarted,
                    NEW b \in Buckets \ dirty'[c]
             PROVE  buckets'[b] = final'[c][b]
  BY DEF BucketsAreDone
<1>0. c \in Commands
  BY DEF PairWriters, Commands
<1>1. ASSUME alone[c], at[c] \in PairsStarted, final'[c] = final[c], dirty'[c] = dirty[c],
             buckets'[b] = buckets[b]
      PROVE  buckets'[b] = final'[c][b]
  BY <1>1 DEF BucketsAreDone
<1>2. ASSUME NEW d \in Commands, NEW S \in Selections, Start(d, S)
      PROVE  buckets'[b] = final'[c][b]
  <2>1. c # d
    BY <1>2, StartIsLocal DEF PairsStarted
  <2>2. Stays(c) /\ alone[c] /\ buckets' = buckets
    BY <1>0, <1>2, <2>1, StartIsLocal
  <2> QED
    BY <1>1, <2>2 DEF Stays
<1>3. ASSUME NEW d \in Commands, Works(d), c # d PROVE buckets'[b] = final'[c][b]
  <2>1. Stays(c) /\ alone[c]
    BY <1>0, <1>3, WorkIsLocal
  <2>2. ~(\E x \in dirty[d] : WritesBucket(d, x))
    BY <1>0, <1>3, <2>1, OnlyOneWrites DEF WritesBucket
  <2>3. buckets' = buckets
    BY <1>3, <2>2, BucketsChange
  <2> QED
    BY <1>1, <2>1, <2>3 DEF Stays
<1>4. ASSUME Works(c) PROVE buckets'[b] = final'[c][b]
  <2>1. GoesOn(c) /\ alone[c]
    BY <1>0, <1>4, WorkIsLocal DEF Done, GoesOn
  <2>2. CASE WriteBucket(c)
    <3>1. PICK x \in dirty[c] : WritesBucket(c, x)
      BY <1>0, <1>4, <2>2, BucketsChange
    <3>2. /\ buckets'[x] = final[c][x] /\ dirty'[c] = dirty[c] \ {x} /\ final'[c] = final[c]
          /\ \A y \in Buckets \ {x} : buckets'[y] = buckets[y]
      BY <2>1, <3>1 DEF WritesBucket, GoesOn, Done
    <3>3. CASE b = x
      BY <3>2, <3>3
    <3>4. CASE b # x
      <4>1. b \notin dirty[c] /\ at[c] \in PairsStarted
        BY <3>1, <3>2, <3>4 DEF WritesBucket, PairsStarted
      <4>2. buckets[b] = final[c][b]
        BY <2>1, <4>1 DEF BucketsAreDone
      <4> QED
        BY <3>2, <3>4, <4>2
    <3> QED
      BY <3>3, <3>4
  <2>3. CASE ~WriteBucket(c)
    <3>1. \/ /\ Readable(Buckets, buckets) /\ buckets' = buckets
             /\ final'[c] = FinalBuckets(snap[c]) /\ dirty'[c] = DirtyBuckets(snap[c])
          \/ /\ buckets' = buckets /\ final' = final /\ dirty' = dirty
             /\ at[c] \in PairsStarted
      BY <1>0, <1>4, <2>1, <2>3, Moves DEF PairsStarted
    <3>2. CASE /\ Readable(Buckets, buckets) /\ buckets' = buckets
               /\ final'[c] = FinalBuckets(snap[c]) /\ dirty'[c] = DirtyBuckets(snap[c])
      BY <1>0, <3>2, CleanBucketsAreFinal
    <3> QED
      BY <1>1, <2>1, <3>1, <3>2
  <2> QED
    BY <2>2, <2>3
<1>5. ASSUME NEW l \in Listings, NEW d \in Days, GrowSilver(l, d)
      PROVE  UNCHANGED <<buckets, at, final, dirty, alone>>
  BY <1>5 DEF GrowSilver, locals
<1>6. UNCHANGED vars => UNCHANGED <<buckets, at, final, dirty, alone>>
  BY DEF vars, locals
<1>7. ASSUME NEW d \in Commands, Works(d) PROVE buckets'[b] = final'[c][b]
  BY <1>3, <1>4, <1>7
<1> QED
  BY <1>1, <1>2, <1>5, <1>6, <1>7, StepsOfCaches

LEMMA StepViewIsComplete ==
  ASSUME CachesTyped, RowsAreOlder, ViewIsComplete, [Next]_vars
  PROVE  ViewIsComplete'
<1> SUFFICES ASSUME NEW c \in Commands, at'[c] \in {"reading", "delivered"}
             PROVE  /\ \A l \in selected'[c] : rows'[FileOf[l]] # None
                    /\ alone'[c] => selected'[c] = DOMAIN snap'[c]
  BY DEF ViewIsComplete
<1>1. \A f \in Files : rows[f] # None => rows'[f] # None
  <2>1. ASSUME NEW d \in Commands, NEW r \in todo[d], WritesRow(d, r), NEW f \in Files,
               rows'[f] = None
        PROVE  rows[f] = None
    <3>1. r # None
      BY CachesAssumption DEF CachesTyped
    <3> QED
      BY <2>1, <3>1, MarksAssumption DEF WritesRow
  <2>2. ASSUME NEW d \in Commands, Works(d) PROVE \A f \in Files : rows[f] # None => rows'[f] # None
    BY <2>1, <2>2, RowsChange
  <2>3. ASSUME NEW d \in Commands, NEW S \in Selections, Start(d, S) PROVE rows' = rows
    BY <2>3 DEF Start
  <2>4. ASSUME NEW l \in Listings, NEW d \in Days, GrowSilver(l, d) PROVE rows' = rows
    BY <2>4 DEF GrowSilver
  <2> QED
    BY <2>2, <2>3, <2>4, StepsOfCaches DEF vars
<1>2. ASSUME selected'[c] = selected[c], snap'[c] = snap[c], alone'[c] => alone[c],
             at[c] \in {"reading", "delivered"}
      PROVE  /\ \A l \in selected'[c] : rows'[FileOf[l]] # None
             /\ alone'[c] => selected'[c] = DOMAIN snap'[c]
  <2>1. \A l \in selected[c] : FileOf[l] \in Files
    BY SelectedAreListings DEF Files
  <2> QED
    BY <1>1, <1>2, <2>1 DEF ViewIsComplete
<1>3. ASSUME NEW d \in Commands, NEW S \in Selections, Start(d, S)
      PROVE  /\ \A l \in selected'[c] : rows'[FileOf[l]] # None
             /\ alone'[c] => selected'[c] = DOMAIN snap'[c]
  <2>1. c # d
    BY <1>3, StartIsLocal
  <2>2. Stays(c) /\ (alone'[c] => alone[c])
    BY <1>3, <2>1, StartIsLocal
  <2> QED
    BY <1>2, <2>2 DEF Stays
<1>4. ASSUME NEW d \in Commands, Works(d), c # d
      PROVE  /\ \A l \in selected'[c] : rows'[FileOf[l]] # None
             /\ alone'[c] => selected'[c] = DOMAIN snap'[c]
  <2>1. Stays(c) /\ alone'[c] = alone[c]
    BY <1>4, WorkIsLocal
  <2> QED
    BY <1>2, <2>1 DEF Stays
<1>5. ASSUME Works(c)
      PROVE  /\ \A l \in selected'[c] : rows'[FileOf[l]] # None
             /\ alone'[c] => selected'[c] = DOMAIN snap'[c]
  <2>1. GoesOn(c) /\ selected'[c] = selected[c] /\ snap'[c] = snap[c] /\ alone'[c] = alone[c]
    BY <1>5, WorkIsLocal DEF Done, GoesOn
  <2>2. \/ at[c] = "view" /\ Present(selected[c]) /\ rows' = rows
        \/ at[c] \in {"reading", "delivered"}
    BY <1>5, <2>1, Moves
  <2>3. CASE at[c] = "view" /\ Present(selected[c]) /\ rows' = rows
    <3>1. c \in RowWriters
      <4>1. at[c] \in Places[c]
        BY DEF CachesTyped
      <4> QED
        BY <2>3, <4>1, PlacesOfCommands DEF RowWriters
    <3>2. ASSUME NEW l \in selected[c]
          PROVE  /\ rows[FileOf[l]] # None
                 /\ alone[c] => l \in DOMAIN snap[c]
      <4>1. Whole(rows[FileOf[l]]) /\ rows[FileOf[l]].listing = l
        BY <2>3 DEF Present
      <4>2. FileOf[l] \in Files
        BY SelectedAreListings DEF Files
      <4>3. rows[FileOf[l]] \in UniRow
        BY <4>1, <4>2 DEF CachesTyped, Whole
      <4> QED
        BY <3>1, <4>1, <4>2, <4>3 DEF RowsAreOlder, Whole
    <3>3. DOMAIN snap[c] \subseteq selected[c]
      BY DEF CachesTyped
    <3> QED
      BY <2>1, <2>3, <3>2, <3>3
  <2> QED
    BY <1>2, <2>1, <2>2, <2>3
<1>6. ASSUME NEW l \in Listings, NEW d \in Days, GrowSilver(l, d)
      PROVE  UNCHANGED <<at, selected, snap, alone>>
  BY <1>6 DEF GrowSilver, locals
<1>7. UNCHANGED vars => UNCHANGED <<at, selected, snap, alone>>
  BY DEF vars, locals
<1>8. ASSUME NEW d \in Commands, Works(d)
      PROVE  /\ \A l \in selected'[c] : rows'[FileOf[l]] # None
             /\ alone'[c] => selected'[c] = DOMAIN snap'[c]
  BY <1>4, <1>5, <1>8
<1> QED
  BY <1>2, <1>3, <1>6, <1>7, <1>8, StepsOfCaches

LEMMA InitCachesInv == Init => CachesInv
<1> SUFFICES ASSUME Init PROVE CachesInv
  OBVIOUS
<1>1. DOMAIN <<>> = {} /\ \A c \in Commands : "idle" \in Places[c]
  <2>1. DOMAIN <<>> = {}
    OBVIOUS
  <2>2. \A c \in Commands : "idle" \in Places[c]
    BY PlacesOfCommands
  <2> QED
    BY <2>1, <2>2
<1>2. None \notin UniRow
  BY CachesAssumption
<1>3. \A f \in Files : rows[f] = None
  BY DEF Init
<1>4. \A c \in Commands : at[c] = "idle" /\ snap[c] = <<>> /\ todo[c] = {} /\ dirty[c] = {}
                          /\ alone[c] = FALSE /\ selected[c] = {}
                          /\ final[c] = [b \in Buckets |-> {}]
  BY DEF Init
<1>5. \A b \in Buckets : buckets[b] = {}
  BY DEF Init
<1>6. CachesTyped
  <2>1. quotes \in [Listings -> SUBSET Days] /\ runs \in 0 .. MaxRuns
        /\ crashes \in 0 .. MaxCrashes
    BY CachesAssumption DEF Init
  <2>2. rows \in [Files -> UniRow \cup {None, Torn}] /\ DOMAIN buckets = Buckets
    BY DEF Init
  <2>3. /\ DOMAIN at = Commands /\ DOMAIN selected = Commands /\ DOMAIN snap = Commands
        /\ DOMAIN todo = Commands /\ DOMAIN final = Commands /\ DOMAIN dirty = Commands
        /\ DOMAIN alone = Commands
    BY DEF Init
  <2> QED
    BY <1>1, <1>2, <1>3, <1>4, <1>5, <2>1, <2>2, <2>3 DEF CachesTyped, SnapOf
<1>7. \A c \in Commands : at[c] \notin PairsStarted /\ at[c] \notin {"reading", "delivered"}
  BY <1>4 DEF PairsStarted
<1>8. RowWriters \subseteq Commands /\ PairWriters \subseteq Commands
  BY DEF RowWriters, PairWriters, Commands
<1>9. AloneWorks /\ RowsAreOlder /\ RowsAreRight /\ PairsAreOlder /\ FinalIsRight /\ BucketsAreDone
  BY <1>4, <1>8 DEF AloneWorks, RowsAreOlder, RowsAreRight, PairsAreOlder, FinalIsRight,
                    BucketsAreDone
<1>10. DaysAreKnown /\ TodoIsRight /\ PairsAreKnown
  BY <1>1, <1>2, <1>3, <1>4, <1>5, <1>7 DEF DaysAreKnown, TodoIsRight, PairsAreKnown
<1>11. PairsAreSingle /\ FinalIsWhole /\ ViewIsComplete
  BY <1>4, <1>5, <1>7 DEF PairsAreSingle, OnePerPair, FinalIsWhole, ViewIsComplete
<1> QED
  BY <1>6, <1>9, <1>10, <1>11 DEF CachesInv

LEMMA StepCachesInv == CachesInv /\ [Next]_vars => CachesInv'
BY StepCachesTyped, StepAloneWorks, StepDaysAreKnown, StepRowsAreOlder, StepTodoIsRight,
   StepRowsAreRight, StepPairsAreSingle, StepFinalIsWhole, StepPairsAreKnown,
   StepPairsAreOlder, StepFinalIsRight, StepBucketsAreDone, StepViewIsComplete DEF CachesInv

LEMMA PairsAreFinite ==
  ASSUME NEW U \in SUBSET Listings
  PROVE  \A S \in SUBSET PairsOf(U) : IsFiniteSet(S)
<1>1. IsFiniteSet(Listings \X Listings)
  BY ListingsAreFinite, FS_Product
<1>2. PairsOf(U) \subseteq Listings \X Listings
  BY DEF PairsOf
<1> QED
  BY <1>1, <1>2, FS_Subset

LEMMA InvIsExact == CachesInv => CachesAreExact
<1> SUFFICES ASSUME CachesInv PROVE CachesAreExact
  OBVIOUS
<1> USE DEF CachesInv
<1>1. TypeOK
  <2>1. \A r \in PairRows : IsPairRow(r)
    BY DEF PairRows, IsPairRow
  <2>2. \A c \in Commands : at[c] \in {"idle", "rows", "writing rows", "pairs", "writing pairs",
                                       "view", "reading", "delivered"}
    <3>1. \A c \in Commands : at[c] \in Places[c]
      BY DEF CachesTyped
    <3> QED
      BY <3>1, PlacesOfCommands
  <2>3. \A f \in Files : rows[f] \in UniRow \cup {None, Torn}
    BY DEF CachesTyped
  <2> QED
    BY <2>1, <2>2, <2>3 DEF CachesTyped, TypeOK
<1>2. UnivariateIsExact
  <2> SUFFICES ASSUME NEW c \in Commands, at[c] = "writing rows", todo[c] = {}, alone[c],
                      IsInjective(FileOf), NEW l \in DOMAIN snap[c]
               PROVE  Exact(c, l)
    BY DEF UnivariateIsExact
  <2>1. c \in RowWriters
    <3>1. at[c] \in Places[c]
      BY DEF CachesTyped
    <3> QED
      BY <3>1, PlacesOfCommands DEF RowWriters
  <2> QED
    BY <2>1 DEF RowsAreRight, RowsStarted
<1>3. BucketsAreExact
  <2> SUFFICES ASSUME NEW c \in Commands, at[c] = "writing pairs", dirty[c] = {}, alone[c],
                      ~Backfills, NEW b \in Buckets
               PROVE  /\ {<<r.pair, r.seen>> : r \in buckets[b]} =
                           {<<p, Observations(snap[c], p)>> : p \in PairsIn(c, b)}
                      /\ Cardinality(buckets[b]) = Cardinality(Keys(buckets[b]))
    BY DEF BucketsAreExact, PairsIn
  <2>1. c \in PairWriters
    <3>1. at[c] \in Places[c]
      BY DEF CachesTyped
    <3> QED
      BY <3>1, PlacesOfCommands DEF PairWriters
  <2>2. buckets[b] = final[c][b]
    BY <2>1 DEF BucketsAreDone, PairsStarted
  <2>3. OnePerPair(buckets[b]) /\ Keys(buckets[b]) = PairsIn(c, b)
    BY <2>2 DEF FinalIsWhole, PairsStarted
  <2>4. \A r \in buckets[b] : r.seen = Observations(snap[c], r.pair)
    BY <2>1, <2>2 DEF FinalIsRight, PairsStarted
  <2>5. \A r \in buckets[b] : r.pair \in PairsIn(c, b)
    BY <2>3 DEF Keys
  <2>6. \A p \in PairsIn(c, b) : \E r \in buckets[b] : r.pair = p
    BY <2>3 DEF Keys
  <2>7. IsFiniteSet(PairsIn(c, b))
    <3>1. Universe(snap[c]) \in SUBSET Listings
      BY SelectedAreListings
    <3>2. PairsIn(c, b) \in SUBSET PairsOf(Universe(snap[c]))
      BY DEF PairsIn
    <3> QED
      BY <3>1, <3>2, PairsAreFinite
  <2>8. Cardinality(buckets[b]) = Cardinality(Keys(buckets[b]))
    <3>1. IsFiniteSet(Keys(buckets[b]))
      BY <2>3, <2>7
    <3> QED
      BY <2>3, <3>1, RowsAreCounted
  <2> DEFINE seen(p) == Observations(snap[c], p)
  <2>9. \A r \in buckets[b] : <<r.pair, r.seen>> = <<r.pair, seen(r.pair)>>
    BY <2>4
  <2> HIDE DEF seen
  <2>10. {<<r.pair, r.seen>> : r \in buckets[b]} = {<<p, seen(p)>> : p \in PairsIn(c, b)}
    <3>1. \A r \in buckets[b] : <<r.pair, r.seen>> \in {<<p, seen(p)>> : p \in PairsIn(c, b)}
      BY <2>5, <2>9
    <3>2. \A p \in PairsIn(c, b) : <<p, seen(p)>> \in {<<r.pair, r.seen>> : r \in buckets[b]}
      BY <2>6, <2>9
    <3> QED
      BY <3>1, <3>2
  <2> QED
    BY <2>8, <2>10 DEF seen
<1> QED
  BY <1>1, <1>2, <1>3 DEF CachesAreExact

\* What write_univariate_statistics and write_bivariate_statistics leave after a run without a
\* rival is what they would compute without a cache, for every sequence of runs, growth of
\* Silver and crash before it: the rows of the selection are those of the quotes that were
\* read, and the buckets hold one row for each pair, of all its common days.
THEOREM CachesAreExactCorrect == Spec => []CachesAreExact
<1>1. Init => CachesInv
  BY InitCachesInv
<1>2. CachesInv /\ [Next]_vars => CachesInv'
  BY StepCachesInv
<1>3. CachesInv => CachesAreExact
  BY InvIsExact
<1> QED
  BY <1>1, <1>2, <1>3, PTL DEF Spec

(* What the cached multivariate command delivers *)

\* What is read back of a selection is there, and of its own listings and pairs.
LEMMA DeliveryIsComplete ==
  ASSUME CachesInv, IsInjective(FileOf), NEW c \in Commands, ReadSelection(c)
  PROVE  /\ \A l \in selected[c] : rows[FileOf[l]].listing = l
         /\ \A p \in PairsOf(selected[c]) :
              LET b == Max({x \in Buckets : p \in Keys(buckets[x])})
                  r == CHOOSE r \in buckets[b] : r.pair = p
              IN b \in Buckets /\ buckets[b] # Torn /\ r \in buckets[b] /\ r.pair = p
<1> USE DEF CachesInv
<1>1. /\ at[c] = "reading" /\ PairsOf(selected[c]) \subseteq Keys(PairIndex)
      /\ Readable({FileOf[l] : l \in selected[c]}, rows) /\ Readable(Buckets, buckets)
  BY DEF ReadSelection
<1>2. ASSUME NEW l \in selected[c] PROVE rows[FileOf[l]].listing = l
  <2>1. l \in Listings /\ FileOf[l] \in Files
    BY SelectedAreListings DEF Files
  <2>2. rows[FileOf[l]] # None
    BY <1>1 DEF ViewIsComplete
  <2>3. rows[FileOf[l]] # Torn
    BY <1>1 DEF Readable
  <2>4. rows[FileOf[l]] \in UniRow
    BY <2>1, <2>2, <2>3 DEF CachesTyped
  <2>5. FileOf[rows[FileOf[l]].listing] = FileOf[l]
    BY <2>1, <2>4 DEF CachesTyped
  <2>6. rows[FileOf[l]].listing \in Listings
    BY <2>4 DEF UniRow
  <2> QED
    BY <2>1, <2>5, <2>6, CachesAssumption DEF IsInjective
<1>3. ASSUME NEW p \in PairsOf(selected[c])
      PROVE  LET b == Max({x \in Buckets : p \in Keys(buckets[x])})
                 r == CHOOSE r \in buckets[b] : r.pair = p
             IN b \in Buckets /\ buckets[b] # Torn /\ r \in buckets[b] /\ r.pair = p
  <2> DEFINE holding == {x \in Buckets : p \in Keys(buckets[x])}
             b == Max(holding)
  <2>1. holding \in SUBSET (0 .. BucketCount - 1) /\ BucketCount - 1 \in Nat
    BY CachesAssumption DEF Buckets
  <2>2. holding # {}
    <3>1. PICK r \in PairIndex : r.pair = p
      BY <1>1 DEF Keys
    <3>2. PICK x \in Buckets : r \in buckets[x]
      BY <3>1 DEF PairIndex
    <3> QED
      BY <3>1, <3>2 DEF Keys
  <2> HIDE DEF holding
  <2>3. b \in holding
    BY <2>1, <2>2, MaxIsGreatest
  <2>4. b \in Buckets /\ p \in Keys(buckets[b])
    BY <2>3 DEF holding
  <2> HIDE DEF b
  <2>5. \E r \in buckets[b] : r.pair = p
    BY <2>4 DEF Keys
  <2>6. buckets[b] # Torn
    BY <1>1, <2>4 DEF Readable
  <2> QED
    BY <2>4, <2>5, <2>6 DEF b, holding
<1> QED
  BY <1>2, <1>3

LEMMA StepDeliveredIsComplete ==
  ASSUME CachesInv, IsInjective(FileOf), DeliveredIsComplete, [Next]_vars
  PROVE  DeliveredIsComplete'
<1>1. ASSUME delivered' = delivered \/ delivered' = None PROVE DeliveredIsComplete'
  BY <1>1 DEF DeliveredIsComplete, Keys, PairsOf, Rank
<1>2. ASSUME NEW c \in Commands, ReadSelection(c) PROVE DeliveredIsComplete'
  <2>1. delivered' = Delivery(c)
    BY <1>2 DEF ReadSelection
  <2> DEFINE Found(p) == CHOOSE r \in buckets[Max({x \in Buckets : p \in Keys(buckets[x])})] :
                           r.pair = p
  <2>2. /\ delivered'.of = selected[c]
        /\ delivered'.rows = {rows[FileOf[l]] : l \in selected[c]}
        /\ delivered'.pairs = {Found(p) : p \in PairsOf(selected[c]) \cap Keys(PairIndex)}
    BY <2>1 DEF Delivery
  <2>3. PairsOf(selected[c]) \cap Keys(PairIndex) = PairsOf(selected[c])
    BY <1>2 DEF ReadSelection
  <2>4. \A l \in selected[c] : rows[FileOf[l]].listing = l
    BY <1>2, DeliveryIsComplete
  <2>5. \A p \in PairsOf(selected[c]) : Found(p).pair = p
    BY <1>2, DeliveryIsComplete
  <2> HIDE DEF Found
  <2>6. {r.listing : r \in delivered'.rows} = delivered'.of
    BY <2>2, <2>4
  <2>7. Keys(delivered'.pairs) = PairsOf(delivered'.of)
    BY <2>2, <2>3, <2>5 DEF Keys
  <2> QED
    BY <2>6, <2>7 DEF DeliveredIsComplete, Keys, PairsOf, Rank
<1>3. ASSUME NEW c \in Commands, Works(c), ~ReadSelection(c) PROVE delivered' = delivered
  BY <1>3 DEF Works, Univariate, Bivariate, Readback, CheckRows, WriteRow, RowsWritten,
              ReadBuckets, WriteBucket, PairsWritten, BuildView, Deliver, Raise, Crash
<1>4. ASSUME NEW c \in Commands, NEW S \in Selections, Start(c, S)
      PROVE  delivered' = delivered \/ delivered' = None
  BY <1>4 DEF Start
<1>5. ASSUME NEW l \in Listings, NEW d \in Days, GrowSilver(l, d) PROVE delivered' = delivered
  BY <1>5 DEF GrowSilver, locals
<1>6. UNCHANGED vars => delivered' = delivered
  BY DEF vars, locals
<1> QED
  BY <1>1, <1>2, <1>3, <1>4, <1>5, <1>6, StepsOfCaches

\* What was delivered, of the quotes that a command has read.
AgreesWith(D, Q) ==
  /\ DOMAIN Q = D.of
  /\ \A r \in D.rows : r.days = Q[r.listing]
  /\ \A r \in D.pairs : r.seen = Common(Q[r.pair[1]], Q[r.pair[2]])

LEMMA DeliveryAgrees ==
  ASSUME CachesInv, IsInjective(FileOf), ~Backfills, NEW c \in Commands, ReadSelection(c),
         alone[c]
  PROVE  AgreesWith(Delivery(c), snap[c])
<1> USE DEF CachesInv
<1>1. at[c] = "reading" /\ PairsOf(selected[c]) \subseteq Keys(PairIndex)
  BY DEF ReadSelection
<1>2. c \in RowWriters /\ c \in PairWriters
  <2>1. at[c] \in Places[c]
    BY DEF CachesTyped
  <2> QED
    BY <1>1, <2>1, PlacesOfCommands DEF RowWriters, PairWriters
<1>3. DOMAIN snap[c] = selected[c]
  BY <1>1 DEF ViewIsComplete
<1>4. ASSUME NEW l \in selected[c]
      PROVE  rows[FileOf[l]].days = snap[c][l] /\ rows[FileOf[l]].listing = l
  <2>1. todo[c] = {}
    BY <1>1 DEF TodoIsRight
  <2>2. Exact(c, l)
    BY <1>1, <1>2, <1>3, <2>1 DEF RowsAreRight, RowsStarted
  <2> QED
    BY <2>2 DEF Exact, UnivariateRow
<1> DEFINE Found(p) == CHOOSE r \in buckets[Max({x \in Buckets : p \in Keys(buckets[x])})] :
                         r.pair = p
<1>5. ASSUME NEW p \in PairsOf(selected[c])
      PROVE  Found(p).seen = Observations(snap[c], Found(p).pair)
  <2> DEFINE b == Max({x \in Buckets : p \in Keys(buckets[x])})
  <2>1. b \in Buckets /\ buckets[b] # Torn /\ Found(p) \in buckets[b]
    BY DeliveryIsComplete
  <2> HIDE DEF b, Found
  <2>2. dirty[c] = {}
    BY <1>1 DEF FinalIsWhole
  <2>3. buckets[b] = final[c][b]
    BY <1>1, <1>2, <2>1, <2>2 DEF BucketsAreDone, PairsStarted
  <2> QED
    BY <1>1, <1>2, <2>1, <2>3 DEF FinalIsRight, PairsStarted
<1>6. /\ Delivery(c).of = selected[c]
      /\ Delivery(c).rows = {rows[FileOf[l]] : l \in selected[c]}
      /\ Delivery(c).pairs = {Found(p) : p \in PairsOf(selected[c]) \cap Keys(PairIndex)}
  BY DEF Delivery
<1> HIDE DEF Found
<1>7. \A r \in Delivery(c).rows : r.days = snap[c][r.listing]
  BY <1>4, <1>6
<1>8. \A r \in Delivery(c).pairs : r.seen = Observations(snap[c], r.pair)
  BY <1>5, <1>6
<1> QED
  BY <1>3, <1>6, <1>7, <1>8 DEF AgreesWith, Observations

LEMMA StepDeliveredAgrees ==
  ASSUME CachesInv, IsInjective(FileOf), DeliveredAgrees, [Next]_vars
  PROVE  DeliveredAgrees'
<1> DEFINE m == "multivariate"
<1> SUFFICES ASSUME ~Backfills, at'[m] = "delivered", alone'[m]
             PROVE  AgreesWith(delivered', snap'[m])
  BY DEF DeliveredAgrees, AgreesWith, Observations
<1>0. CachesTyped /\ m \in Commands
  BY DEF CachesInv, Commands
<1>1. ASSUME at[m] = "delivered", alone[m], delivered' = delivered, snap'[m] = snap[m]
      PROVE  AgreesWith(delivered', snap'[m])
  BY <1>1 DEF DeliveredAgrees, AgreesWith, Observations
<1>2. ASSUME NEW d \in Commands, NEW S \in Selections, Start(d, S)
      PROVE  AgreesWith(delivered', snap'[m])
  <2>1. d # m
    BY <1>0, <1>2, StartIsLocal
  <2>2. Stays(m) /\ alone[m]
    BY <1>0, <1>2, <2>1, StartIsLocal
  <2>3. delivered' = delivered
    BY <1>2, <2>1 DEF Start
  <2> QED
    BY <1>1, <2>2, <2>3 DEF Stays
<1>3. ASSUME NEW c \in Commands, ReadSelection(c)
      PROVE  AgreesWith(delivered', snap'[m])
  <2>1. c = m
    <3>1. at[c] \in Places[c] /\ at[c] = "reading"
      BY <1>3 DEF CachesInv, CachesTyped, ReadSelection
    <3> QED
      BY <3>1, PlacesOfCommands
  <2>2. delivered' = Delivery(c) /\ snap' = snap /\ alone' = alone
    BY <1>3 DEF ReadSelection
  <2> QED
    BY <1>3, <2>1, <2>2, DeliveryAgrees
<1>4. ASSUME NEW c \in Commands, Works(c), ~ReadSelection(c)
      PROVE  AgreesWith(delivered', snap'[m])
  <2>1. delivered' = delivered
    BY <1>4 DEF Works, Univariate, Bivariate, Readback, CheckRows, WriteRow, RowsWritten,
                ReadBuckets, WriteBucket, PairsWritten, BuildView, Deliver, Raise, Crash
  <2>2. CASE c # m
    <3>1. Stays(m) /\ alone[m]
      BY <1>0, <1>4, <2>2, WorkIsLocal
    <3> QED
      BY <1>1, <2>1, <3>1 DEF Stays
  <2>3. CASE c = m
    <3>1. GoesOn(m) /\ alone[m] /\ snap'[m] = snap[m]
      BY <1>0, <1>4, <2>3, WorkIsLocal DEF Done, GoesOn
    <3>2. at[m] = "delivered"
      BY <1>0, <1>4, <2>3, <3>1, Moves
    <3> QED
      BY <1>1, <2>1, <3>1, <3>2
  <2> QED
    BY <2>2, <2>3
<1>5. ASSUME NEW l \in Listings, NEW d \in Days, GrowSilver(l, d)
      PROVE  UNCHANGED <<at, snap, delivered, alone>>
  BY <1>5 DEF GrowSilver, locals
<1>6. UNCHANGED vars => UNCHANGED <<at, snap, delivered, alone>>
  BY DEF vars, locals
<1> HIDE DEF m
<1> QED
  BY <1>1, <1>2, <1>3, <1>4, <1>5, <1>6, StepsOfCaches

\* What the cached multivariate command reads back is a complete selection, whatever rivals
\* do between the view and the second read, and without a rival all of it is of one reading
\* of the quotes.  Each listing has a file of its own: two listings of one ISIN on one
\* exchange share a file, and a rival may replace the row of one by the other's.
THEOREM DeliveriesAreExactCorrect ==
  ASSUME IsInjective(FileOf)
  PROVE  Spec => []DeliveriesAreExact
<1> DEFINE Inv == CachesInv /\ DeliveredIsComplete /\ DeliveredAgrees
<1>1. Init => Inv
  <2>1. Init => DeliveredIsComplete /\ DeliveredAgrees
    BY DEF Init, DeliveredIsComplete, DeliveredAgrees, Commands
  <2> QED
    BY <2>1, InitCachesInv
<1>2. Inv /\ [Next]_vars => Inv'
  BY StepCachesInv, StepDeliveredIsComplete, StepDeliveredAgrees
<1>3. Inv => DeliveriesAreExact
  BY DEF DeliveriesAreExact
<1> HIDE DEF Inv
<1> QED
  BY <1>1, <1>2, <1>3, PTL DEF Spec

=============================================================================
