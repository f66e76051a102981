--------------------------- MODULE PriceSnapshot ---------------------------
(***************************************************************************)
(* The conversion snapshot of an order line: what it cost in another       *)
(* currency, recorded with that currency and never recomputed, beside an   *)
(* instance reference currency that can change at any time                 *)
(* (backend/app/services/orders.py, instance_settings.py).                 *)
(*                                                                         *)
(* An order edit rolls back as a whole, so one line is one request here.   *)
(***************************************************************************)
EXTENDS Integers

CONSTANTS
    LineIds,
    Currencies,
    Amounts,    \* amounts, in minor units of whatever currency
    KitRow,     \* a row of kits, where a currency is expected
    Null,
    LeftOut       \* a field the request leaves out

ASSUME ValuesAssumption ==
    /\ Currencies # {}
    /\ KitRow \notin Currencies \cup {Null}
    /\ Null \notin Currencies \cup Amounts
    /\ LeftOut \notin Amounts \cup {Null}

OrNull(S) == S \cup {Null}

Snapshot == [amount : OrNull(Amounts), code : OrNull(Currencies)]
Line == [kind : {"kit", "stock"}, snapshot : Snapshot]

\* One line of a request.  A code without an amount is refused by the schema.
Stated == {r \in [amount : OrNull(Amounts) \cup {LeftOut}, code : OrNull(Currencies)] :
               r.code # Null => r.amount \in Amounts}

NoSnapshot == [amount |-> Null, code |-> Null]

VARIABLES
    reference,   \* instance_settings.reference_currency
    lines,
    last         \* history: the last line request and what it found

snapshotVars == <<reference, lines, last>>

SnapshotTypeOK ==
    /\ reference \in Currencies
    /\ lines \in [LineIds -> OrNull(Line)]

-----------------------------------------------------------------------------

\* A new line's snapshot: an amount without a currency is in the reference
\* currency of the moment.
ConvertedSnapshot(stated) ==
    IF stated.amount \in {Null, LeftOut} THEN NoSnapshot
    ELSE [amount |-> stated.amount,
          code |-> IF stated.code # Null THEN stated.code ELSE reference]

\* Mutant of ApplyConvertedSnapshot: a corrected amount is relabelled with the
\* instance's currency.
ApplyRelabelled(stored, stated, fallback) ==
    CASE stated.amount = LeftOut -> stored
      [] stated.amount = Null -> NoSnapshot
      [] OTHER -> [amount |-> stated.amount,
                   code |-> IF stated.code # Null THEN stated.code ELSE fallback]

\* An edited line's snapshot: left out, it stays; null clears it; an amount
\* takes the code stated, else the code recorded, else the fallback.
ApplyConvertedSnapshot(stored, stated, fallback) ==
    CASE stated.amount = LeftOut -> stored
      [] stated.amount = Null -> NoSnapshot
      [] OTHER -> [amount |-> stated.amount,
                   code |-> CASE stated.code # Null -> stated.code
                              [] stated.code = Null /\ stored.code # Null -> stored.code
                              [] OTHER -> fallback]

\* The name `reference` in _update_line, when it reaches the snapshot: on a kit
\* line it has been reassigned to the line's first kit, if the edit restates the
\* kit's details or has to copy them to grow the line.
ReferenceInUpdate(kind, details, grows) ==
    IF kind = "kit" /\ (details \/ grows) THEN KitRow ELSE reference

Request(l, stated, before) ==
    last' = [line |-> l, stated |-> stated, before |-> before, reference |-> reference]

AddLine(l, kind, stated) ==
    /\ lines[l] = Null
    /\ lines' = [lines EXCEPT ![l] =
          [kind |-> kind, snapshot |-> ConvertedSnapshot(stated)]]
    /\ Request(l, stated, NoSnapshot)
    /\ UNCHANGED reference

\* A value that is no currency code is refused by the database at the flush,
\* and the whole edit is rolled back.
Flushed(line, written) ==
    IF written.code = KitRow THEN line ELSE [line EXCEPT !.snapshot = written]

EditLine(l, stated, details, grows) ==
    /\ lines[l] # Null
    /\ LET stored == lines[l].snapshot
           written == ApplyConvertedSnapshot(stored, stated,
                          ReferenceInUpdate(lines[l].kind, details, grows))
       IN  /\ lines' = [lines EXCEPT ![l] = Flushed(@, written)]
           /\ Request(l, stated, stored)
    /\ UNCHANGED reference

UpdateInstanceSettings(currency) ==
    /\ reference' = currency
    /\ UNCHANGED <<lines, last>>

SnapshotInit ==
    /\ reference \in Currencies
    /\ lines = [l \in LineIds |-> Null]
    /\ last = Null

SnapshotNext ==
    \/ \E l \in LineIds, kind \in {"kit", "stock"}, stated \in Stated : AddLine(l, kind, stated)
    \/ \E l \in LineIds, stated \in Stated, details, grows \in BOOLEAN :
          EditLine(l, stated, details, grows)
    \/ \E currency \in Currencies : UpdateInstanceSettings(currency)

SnapshotSpec == SnapshotInit /\ [][SnapshotNext]_snapshotVars

-----------------------------------------------------------------------------
(* Properties.                                                             *)

\* "Config never overwrites a record": a recorded amount keeps its currency, or
\* loses both, unless the request that changes it states another currency;
\* moving the instance's currency restates nothing.
RecordKeepsCurrency ==
    [][\A l \in LineIds :
          /\ lines[l] # Null
          /\ lines[l].snapshot.code # Null
          /\ lines'[l] # lines[l]
          => /\ last'.line = l
             /\ \/ lines'[l].snapshot.code = lines[l].snapshot.code
                \/ lines'[l].snapshot = NoSnapshot
                \/ lines'[l].snapshot.code = last'.stated.code]_snapshotVars

\* An amount and its currency are recorded together or not at all, whatever
\* entries, corrections and clearings came before.
SnapshotWhole ==
    \A l \in LineIds :
        lines[l] # Null =>
            (lines[l].snapshot.amount = Null <=> lines[l].snapshot.code = Null)

\* A record is whole and keeps its currency (services/currency.py).
RecordsHold == []SnapshotWhole /\ RecordKeepsCurrency

\* What the schema says of converted_currency_code: leave it out and an amount
\* that has no recorded currency is stamped with the instance's, as of the write.
StampedAtWrite ==
    last # Null
    /\ last.stated.amount \in Amounts
    /\ last.stated.code = Null
    /\ last.before.code = Null
    => lines[last.line].snapshot = [amount |-> last.stated.amount, code |-> last.reference]

\* What is true of it: the amount is stamped with the currency of the moment of
\* the write, or the whole edit of a kit line was rolled back.
StampedOrRolledBack ==
    last # Null
    /\ last.stated.amount \in Amounts
    /\ last.stated.code = Null
    /\ last.before.code = Null
    => \/ lines[last.line].snapshot = [amount |-> last.stated.amount, code |-> last.reference]
       \/ /\ lines[last.line].kind = "kit"
          /\ lines[last.line].snapshot = last.before

=============================================================================
