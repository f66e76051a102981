-------------------------------- MODULE Intake --------------------------------
(***************************************************************************)
(* Reading an archive back (services/portability/importing.py read_upload, *)
(* _read_zip, _reconcile_manifest, check_compatibility): what is done with *)
(* one that was truncated, unpacked in part, packed again or trimmed by    *)
(* hand between its export and its import.                                 *)
(*                                                                         *)
(* The zip is a sequence of members.  Rows are not looked into; the cells  *)
(* of a table are ImportPlan's.                                            *)
(***************************************************************************)
EXTENDS Integers, Sequences, FiniteSets, SequencesExt

CONSTANTS
    Tables,
    Rows,         \* the rows an exported table may hold
    MaxDamage,    \* bounds what happens to one archive
    MaxExpanded   \* MAX_EXPANDED_BYTES, in headers and rows

ASSUME IntakeAssumption ==
    /\ MaxDamage \in Nat /\ MaxExpanded \in Nat
    /\ {"other", "starter", "none"} \cap Tables = {}
    /\ IsFiniteSet(Tables) /\ Tables # {} /\ IsFiniteSet(Rows)

Directories == {"root", "sub"}

\* name: the table its file is named after; columns: the table its header is of.
Member == [dir : Directories, name : Tables \cup {"other"},
           columns : Tables \cup {"starter", "none"}, rows : SUBSET Rows, whole : BOOLEAN]

\* How far a manifest can be read.
Texts == {"good", "bad_metadata", "not_json", "no_object", "damaged"}

VARIABLES
    exported,  \* history: the rows of each table as exported
    members,   \* the CSV members, in the archive's order
    manifests, \* how many manifests it holds
    manifest,  \* how far the manifest can be read, and whether a newer version wrote it
    damage,    \* how much happened to the archive
    verdict    \* what was made of it

intakeVars == <<exported, members, manifests, manifest, damage, verdict>>

Unread == [read |-> FALSE, refused |-> FALSE, blocking |-> {}, warnings |-> {}]

-----------------------------------------------------------------------------
(* Reading.                                                                *)

Path(m) == <<m.dir, m.name>>

\* Two members under one path: opening it reads the last, whichever is asked for.
Opened(i) == members[Max({j \in DOMAIN members : Path(members[j]) = Path(members[i])})]

\* Where its rows go: a starter sheet is expanded, a table's name decides before its
\* columns do.
Routed(m) ==
    IF m.columns = "starter" THEN "starter"
    ELSE IF m.name \in Tables THEN m.name
    ELSE m.columns

\* The table it adds to the import, if only an empty list; a starter sheet without
\* rows expands to nothing.
Contributes(m) ==
    IF Routed(m) = "none" \/ (Routed(m) = "starter" /\ m.rows = {}) THEN {} ELSE {Routed(m)}

\* How often an exported row of t is imported.
Times(t, row) ==
    Cardinality({i \in DOMAIN members :
        Routed(Opened(i)) = t /\ Opened(i).columns = t /\ row \in Opened(i).rows})

\* The expansion budget is one for all members, spent as they are read.
Expanded == SumFunction([i \in DOMAIN members |-> 1 + Cardinality(Opened(i).rows)])

\* A damaged member is refused as it is unpacked, the manifest among them.
Unreadable ==
    \/ \E i \in DOMAIN members : ~Opened(i).whole
    \/ manifests = 1 /\ manifest.text = "damaged"
    \/ Expanded > MaxExpanded

\* Mutant of Declares: nothing is taken from a manifest whose metadata cannot be read.
DeclaresWhole == manifests = 1 /\ manifest.text = "good"

\* What the manifest declares survives metadata that cannot be read.
Declares == manifests = 1 /\ manifest.text \in {"good", "bad_metadata"}

Declared(t) == Cardinality(exported[t])

-----------------------------------------------------------------------------
(* Reconciling.                                                            *)

\* The members a declaration may mean: by file name, whatever directory they are in.
Claimants(t) == {i \in DOMAIN members : members[i].name = t}

Says(kind, t) == [kind |-> kind, table |-> t]
Sayings ==
    [kind : {"duplicated", "manifests", "no_data", "absent", "ambiguous", "other_table", "rows",
             "undeclared", "no_manifest", "skipped"} \cup Texts,
     table : Tables \cup {"other", "starter", "none"}]

Duplicated == {i \in DOMAIN members : \E j \in DOMAIN members \ {i} : Path(members[j]) = Path(members[i])}

\* Data that is not there, or an archive that cannot say what it holds, blocks.
Blocking ==
    {Says("duplicated", members[i].name) : i \in Duplicated}
    \cup {Says("manifests", "none") : n \in {manifests} \cap {2}}
    \cup {Says("no_data", "none") : n \in
             IF \A i \in DOMAIN members : Contributes(Opened(i)) = {} THEN {0} ELSE {}}
    \cup (IF ~Declares THEN {} ELSE
             {Says("absent", t) : t \in {u \in Tables : Claimants(u) = {}}}
             \cup {Says("ambiguous", t) : t \in {u \in Tables :
                      Cardinality({Path(members[i]) : i \in Claimants(u)}) > 1}})

\* Data that is there and disagrees with the manifest warns.
Disagreements ==
    LET One(t) == CHOOSE i \in Claimants(t) : TRUE
        sole == {t \in Tables : Cardinality(Claimants(t)) = 1}
        claimed == {Path(members[i]) : i \in UNION {Claimants(t) : t \in Tables}}
    IN  {Says("other_table", t) : t \in {u \in sole :
            Routed(Opened(One(u))) \notin {u, "none"}}}
        \cup {Says("rows", t) : t \in {u \in sole :
                Cardinality(Opened(One(u)).rows) # Declared(u)}}
        \cup {Says("undeclared", Routed(Opened(i))) : i \in {j \in DOMAIN members :
                Path(members[j]) \notin claimed /\ Routed(Opened(j)) # "none"}}

Warnings ==
    {Says("no_manifest", "none") : n \in {manifests} \cap {0}}
    \cup (IF manifests = 1 /\ manifest.text # "good" THEN {Says(manifest.text, "none")} ELSE {})
    \cup {Says("skipped", "none") : i \in {j \in DOMAIN members : Routed(Opened(j)) = "none"}}
    \cup (IF Declares THEN Disagreements ELSE {})

\* check_compatibility: metadata that could be read refuses what a newer version wrote.
TooNew == manifests = 1 /\ manifest.text = "good" /\ manifest.newer

Read ==
    /\ ~verdict.read
    /\ verdict' = [read |-> TRUE, refused |-> Unreadable \/ TooNew,
                   blocking |-> Blocking, warnings |-> Warnings]
    /\ UNCHANGED <<exported, members, manifests, manifest, damage>>

-----------------------------------------------------------------------------
(* What happens to an archive on its way.                                  *)

Damaged == ~verdict.read /\ damage < MaxDamage /\ damage' = damage + 1 /\ UNCHANGED <<exported, verdict>>

Lose == Damaged /\ \E i \in DOMAIN members : members' = RemoveAt(members, i)
                /\ UNCHANGED <<manifests, manifest>>

\* Trimmed by hand, moved or renamed, or its bytes scrambled.
Alter ==
    /\ Damaged
    /\ \E i \in DOMAIN members :
          \/ \E row \in members[i].rows : members' = [members EXCEPT ![i].rows = @ \ {row}]
          \/ \E dir \in Directories, name \in {members[i].name, "other"} :
                members' = [members EXCEPT ![i].dir = dir, ![i].name = name]
          \/ members' = [members EXCEPT ![i].whole = FALSE]
    /\ UNCHANGED <<manifests, manifest>>

\* A second copy, under the same path or in another directory, a sheet of the
\* owner's or a CSV of something else.
Put ==
    /\ Damaged
    /\ \/ \E i \in DOMAIN members, dir \in Directories :
             members' = Append(members, [members[i] EXCEPT !.dir = dir])
       \/ \E columns \in {"starter", "none"}, rows \in {{}, Rows} :
             members' = Append(members, [dir |-> "root", name |-> "other", columns |-> columns,
                                         rows |-> rows, whole |-> TRUE])
    /\ UNCHANGED <<manifests, manifest>>

SpoilManifest ==
    /\ Damaged
    /\ \/ manifests' \in {0, 2} /\ UNCHANGED manifest
       \/ /\ \E text \in {"not_json", "no_object", "bad_metadata", "damaged"} :
                manifest' = [manifest EXCEPT !.text = text]
          /\ UNCHANGED manifests
    /\ UNCHANGED members

\* export_archive: a member and a declaration for every table, an empty one's too.
IntakeInit ==
    /\ exported \in [Tables -> SUBSET Rows]
    /\ \E order \in SetToSeqs(Tables) :
          members = [i \in DOMAIN order |->
             [dir |-> "root", name |-> order[i], columns |-> order[i],
              rows |-> exported[order[i]], whole |-> TRUE]]
    /\ manifests = 1
    /\ manifest \in [text : {"good"}, newer : BOOLEAN]
    /\ damage = 0
    /\ verdict = Unread

IntakeNext == Read \/ Lose \/ Alter \/ Put \/ SpoilManifest

IntakeSpec == IntakeInit /\ [][IntakeNext]_intakeVars

-----------------------------------------------------------------------------
(* Properties.                                                             *)

TakenIn == verdict.read /\ ~verdict.refused /\ verdict.blocking = {}

\* A table's rows as exported, each of them once.
Whole(t) == \A row \in Rows : Times(t, row) = IF row \in exported[t] THEN 1 ELSE 0

IntakeTypeOK ==
    /\ exported \in [Tables -> SUBSET Rows]
    /\ members \in Seq(Member)
    /\ manifests \in 0 .. 2
    /\ manifest \in [text : Texts, newer : BOOLEAN]
    /\ damage \in 0 .. MaxDamage
    /\ verdict \in [read : BOOLEAN, refused : BOOLEAN,
                    blocking : SUBSET Sayings, warnings : SUBSET Sayings]

\* "A truncated or partly extracted archive imported whatever survived and said
\* nothing": what is accepted with fewer rows of a table than were exported, or with
\* some of them twice, says so of that table, or that it had no manifest to go by;
\* and an archive nothing happened to is accepted without a word, unless a newer
\* version wrote it or it expands to more than is read (_reconcile_manifest,
\* _read_zip).
NothingLostUnseen ==
    /\ IntakeTypeOK
    /\ TakenIn => \A t \in Tables :
          Whole(t) \/ \E w \in verdict.warnings :
             \/ w.kind \in {"rows", "other_table", "undeclared"} /\ w.table = t
             \/ w.kind \in {"no_manifest", "not_json", "no_object"}
    /\ verdict.read /\ damage = 0 =>
          /\ verdict.warnings = {} /\ verdict.blocking = {}
          /\ verdict.refused => manifest.newer \/ Expanded > MaxExpanded

=============================================================================
