------------------------------ MODULE PathLookup ------------------------------
(***************************************************************************)
(* find_by_path (core/src/directory.rs:484-503) with the list_dir and      *)
(* object_table under it, one action per way a step can go.                *)
(*                                                                         *)
(* An image is, here, the slice from the object-table cluster to the end   *)
(* of the image, or NoTable when the image ends before that cluster, and   *)
(* `listing`, what walk_directory answers for each root block: it does not *)
(* change during a lookup, and module TreeListing says what it may be.     *)
(* A block outside its domain resolves to no page.                         *)
(***************************************************************************)
EXTENDS MinstorePage, Sequences

CONSTANTS
    Images,    \* the images a caller may pass
    Paths,     \* the paths, as sequences of non-empty components
    Names,     \* entry names
    RootId,    \* REFS_ROOT_DIRECTORY_ID
    NoTable

\* kind is the record's entry type: 2, 1 or anything else; only a directory
\* has an object identifier, and only the first two have metadata.
Entry == [name : Names, kind : {"directory", "file", "other"}, id : Nat]

Walked == [status : {"unresolved", "truncated"}]
              \cup [status : {"ok"}, entries : Seq(Entry)]

IsImage(img) ==
    /\ img.table = NoTable \/ IsSlice(img.table)
    /\ DOMAIN img.listing \subseteq Nat
    /\ \A b \in DOMAIN img.listing : img.listing[b] \in Walked

ASSUME LookupAssumption ==
    /\ RootId \in Nat
    /\ Paths \subseteq Seq(Names)
    /\ \A img \in Images : IsImage(img)

VARIABLES
    image,     \* the byte slice, never written
    path,      \* the components of the path
    i,         \* the component the loop is at
    dir,       \* dir_id
    step,      \* what the loop body does next
    row,       \* the row of the object table lookup is at
    root,      \* the root block lookup found
    listed,    \* what list_dir returned
    answer     \* what find_by_path returns

vars == <<image, path, i, dir, step, row, root, listed, answer>>

Pending    == [status |-> "pending"]
None       == [status |-> "none"]
Some(d, e) == [status |-> "some", dir |-> d, entry |-> e]
Err(why)   == [status |-> why]

Listed == Walked \cup [status : {"pending", "not_found"}]
Answer == [status : {"pending", "none"}] \cup [status : {"some"}, dir : Nat, entry : Entry]

TypeOK ==
    /\ IsImage(image)
    /\ path \in Paths
    /\ i \in DOMAIN path \/ (i = 1 /\ path = << >>)
    /\ dir \in Nat
    /\ step \in {"table", "lookup", "walk", "match"}
    /\ row \in 0 .. MaxRecords
    /\ root \in Nat
    /\ listed \in Listed
    /\ answer \in Answer

Init ==
    /\ image \in Images
    /\ path \in Paths
    /\ i = 1
    /\ dir = RootId
    /\ step = "table"
    /\ row = 0
    /\ root = 0
    /\ listed = Pending
    /\ answer = Pending

Running(s) == answer = Pending /\ path # << >> /\ step = s

Return(a) == answer' = a /\ UNCHANGED <<image, path, i, dir, step, row, root, listed>>

\* The bare root path has no component.
EmptyPath ==
    /\ answer = Pending
    /\ path = << >>
    /\ Return(None)

-----------------------------------------------------------------------------
\* list_dir returns to the loop.
ListDir(result) ==
    /\ listed' = result
    /\ step' = "match"
    /\ UNCHANGED <<image, path, i, dir, row, root, answer>>

\* object_table.
TableReadable == image.table # NoTable /\ Parses(image.table)

NoObjectTable ==
    /\ Running("table")
    /\ ~TableReadable
    /\ ListDir(Err("truncated"))

OpenTable_resuming ==
    /\ Running("table")
    /\ TableReadable
    /\ step' = "lookup"
    /\ UNCHANGED <<image, path, i, dir, row, root, listed, answer>>

OpenTable ==
    /\ Running("table")
    /\ TableReadable
    /\ step' = "lookup"
    /\ row' = 0
    /\ UNCHANGED <<image, path, i, dir, root, listed, answer>>

\* ObjectTable::lookup.
InRows == Running("lookup") /\ row < RecordCount(image.table)

NextRow ==
    /\ InRows
    /\ ~Answers(image.table, row, dir)
    /\ row' = row + 1
    /\ UNCHANGED <<image, path, i, dir, step, root, listed, answer>>

FoundRoot ==
    /\ InRows
    /\ Answers(image.table, row, dir)
    /\ root' = RootBlock(image.table, row)
    /\ step' = "walk"
    /\ UNCHANGED <<image, path, i, dir, row, listed, answer>>

NotFound ==
    /\ Running("lookup")
    /\ row >= RecordCount(image.table)
    /\ ListDir(Err("not_found"))

\* walk_directory.
WalkRoot ==
    /\ Running("walk")
    /\ ListDir(IF root \in DOMAIN image.listing THEN image.listing[root]
               ELSE Err("unresolved"))

-----------------------------------------------------------------------------
\* Back in find_by_path.
Matching == {n \in DOMAIN listed.entries : listed.entries[n].name = path[i]}
First    == listed.entries[Min(Matching)]
IsLast   == i = Len(path)

\* Any error of list_dir: .ok()?
Unlisted ==
    /\ Running("match")
    /\ listed.status # "ok"
    /\ Return(None)

Missing ==
    /\ Running("match")
    /\ listed.status = "ok"
    /\ Matching = {}
    /\ Return(None)

Matched == Running("match") /\ listed.status = "ok" /\ Matching # {}

ReturnLast ==
    /\ Matched
    /\ IsLast
    /\ Return(IF First.kind = "other" THEN None ELSE Some(dir, First))

NotADirectory ==
    /\ Matched
    /\ ~IsLast
    /\ First.kind # "directory"
    /\ Return(None)

Descend_past_end ==
    /\ Matched
    /\ First.kind = "directory"
    /\ dir' = First.id
    /\ i' = i + 1
    /\ step' = "table"
    /\ UNCHANGED <<image, path, row, root, listed, answer>>

Descend_in_place ==
    /\ Matched
    /\ ~IsLast
    /\ First.kind = "directory"
    /\ i' = i + 1
    /\ step' = "table"
    /\ UNCHANGED <<image, path, dir, row, root, listed, answer>>

Descend_same_component ==
    /\ Matched
    /\ ~IsLast
    /\ First.kind = "directory"
    /\ dir' = First.id
    /\ step' = "table"
    /\ UNCHANGED <<image, path, i, row, root, listed, answer>>

Descend ==
    /\ Matched
    /\ ~IsLast
    /\ First.kind = "directory"
    /\ dir' = First.id
    /\ i' = i + 1
    /\ step' = "table"
    /\ UNCHANGED <<image, path, row, root, listed, answer>>

Next ==
    \/ EmptyPath
    \/ NoObjectTable \/ OpenTable
    \/ NextRow \/ FoundRoot \/ NotFound
    \/ WalkRoot
    \/ Unlisted \/ Missing
    \/ ReturnLast \/ NotADirectory \/ Descend

\* One thread runs the loops; it is never kept from its next step.
Spec == Init /\ [][Next]_vars /\ WF_vars(Next)

-----------------------------------------------------------------------------
(***************************************************************************)
(* Nothing the lookup goes by is a zero read past the end, whatever the    *)
(* header says: the slot of every row tried lies in the slice, and so do   *)
(* the identifier and the block number of every row that answers           *)
(* (minstore.rs:33-39, 132-136 and 174-198).                               *)
(***************************************************************************)
LookupReadsInside ==
    InRows =>
        /\ Slot(image.table, row) + 4 <= image.table.len
        /\ Answers(image.table, row, dir) =>
              /\ KeyStart(image.table, row) + 16 <= image.table.len
              /\ ValueStart(image.table, row) + 40 <= image.table.len

(***************************************************************************)
(* The tree that is walked is the one the first complete row of the        *)
(* directory's identifier names, and a directory is called not found only  *)
(* if no row is complete and has it, at every component of the path        *)
(* (minstore.rs:240-260, directory.rs:444-453).                            *)
(***************************************************************************)
RowsFor(img, id) ==
    {r \in 0 .. RecordCount(img.table) - 1 : Answers(img.table, r, id)}

RootIsRegistered ==
    /\ Running("walk") =>
          \E r \in RowsFor(image, dir) :
              /\ root = RootBlock(image.table, r)
              /\ \A q \in RowsFor(image, dir) : r <= q
    /\ Running("match") /\ listed.status = "not_found" => RowsFor(image, dir) = {}

(***************************************************************************)
(* What a path means, with no lookup in sight: the entries a directory     *)
(* identifier lists, the directory its components lead to, the entry the   *)
(* last one names.  A directory that cannot be listed leads nowhere.       *)
(***************************************************************************)
EntriesOf(img, id) ==
    IF img.table # NoTable /\ Parses(img.table) /\ RowsFor(img, id) # {}
    THEN LET b == RootBlock(img.table, Min(RowsFor(img, id)))
         IN  IF b \in DOMAIN img.listing /\ img.listing[b].status = "ok"
             THEN img.listing[b].entries
             ELSE << >>
    ELSE << >>

Named(img, id, name) ==
    {e \in {EntriesOf(img, id)[n] : n \in DOMAIN EntriesOf(img, id)} :
        /\ e.name = name
        /\ \E n \in DOMAIN EntriesOf(img, id) :
              /\ EntriesOf(img, id)[n] = e
              /\ \A m \in 1 .. n - 1 : EntriesOf(img, id)[m].name # name}

\* The directory that k components lead to: none or one.
Leads(img, components) ==
    LET after[k \in 0 .. Len(components)] ==
            IF k = 0 THEN {RootId}
            ELSE {e.id : e \in {f \in UNION {Named(img, id, components[k]) : id \in after[k - 1]} :
                                    f.kind = "directory"}}
    IN  after

(***************************************************************************)
(* find_by_path answers the entry the path leads to and the directory that *)
(* holds it, and None exactly when it leads to none: no component is       *)
(* looked up in the wrong directory or matched by a later entry of its     *)
(* name (directory.rs:474-503).                                            *)
(***************************************************************************)
AnswerIsPathMeaning ==
    answer # Pending =>
        LET n    == Len(path)
            ends == IF n = 0 THEN {}
                    ELSE {Some(id, e) : id \in Leads(image, path)[n - 1],
                                        e \in UNION {Named(image, id, path[n]) :
                                                       id \in Leads(image, path)[n - 1]}}
            real == {a \in ends : a.entry.kind # "other"}
        IN  IF real = {} THEN answer = None ELSE answer \in real

(***************************************************************************)
(* Every lookup returns, also through directories that contain themselves  *)
(* (directory.rs:490-501).                                                 *)
(***************************************************************************)
FindReturns == <>(answer # Pending)
=============================================================================
