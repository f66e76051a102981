--------------------------------- MODULE Tab ---------------------------------
(***************************************************************************)
(* One browser tab of the application: which session its pages and writes  *)
(* belong to, the sign-out and the import it has sent, and the draft of    *)
(* the next import (frontend/src/components/AuthGate.tsx, lib/signOut.ts,  *)
(* lib/importRun.ts, pages/settings/DataSection.tsx, api/client.ts).       *)
(*                                                                         *)
(* Scripts run to completion, so an action is what runs between two        *)
(* awaits, or a commit of React's with its effects.  Other tabs share the  *)
(* cookie; answers come late, or never.  React Query is external.          *)
(***************************************************************************)
EXTENDS Integers, FiniteSets

CONSTANTS
    Sessions,   \* sessions that may be begun in this browser, each once
    Imports,    \* imports the tab may send, each once
    Nil

ASSUME TabAssumption ==
    /\ Nil \notin Sessions \cup Imports \cup {"nobody"}
    /\ {"nobody", "asked"} \cap Sessions = {}

Modes == {"merge", "replace_all"}

\* What a read of /auth/session says; a CSRF token is one per session and named by it.
Reads == Sessions \cup {"nobody"}
Token(session) == IF session \in Sessions THEN session ELSE Nil

VARIABLES
    live,     \* at the server: sessions that are neither signed out nor expired
    jar,      \* the session of the cookie
    begun,    \* sessions begun so far
    read,     \* the read of the session under way: Nil, "asked", or what it answered
    known,    \* the session query's data, Nil before the first
    gate,     \* the data AuthGate last rendered and ran its effects with
    csrf,     \* api/client's token in use
    cached,   \* sessions whose rows are in the query cache
    leaving,  \* the attempt to sign out: where it is, and the token it started in
    failure,  \* what the last attempt ended in, when it did not sign out
    pending,  \* importRun: the import in flight
    outcome,  \* importRun: the import whose outcome no section has painted yet
    session,  \* importRun: the token it was sent under
    flying,   \* requests to /import/apply: whether the module still waits for each
    section,  \* the Data section's draft and the outcome it draws, or Nil
    sentUnder,\* history: the token each import was sent under, by this load of the tab
    owed,     \* history: the last import that answered its session, until the next
    painted,  \* history: imports whose outcome was on the screen since it was loaded
    left      \* history: sessions this tab signed out of

web == <<live, jar, begun, read>>
gateVars == <<known, gate, csrf, cached>>
outVars == <<leaving, failure, left>>
runVars == <<pending, outcome, session, flying, sentUnder, owed, painted>>
tabVars == <<web, gateVars, outVars, runVars, section>>

Staying == [at |-> "no", in |-> Nil, ended |-> FALSE]

\* plan and preview name the mode they were asked for; late, that the draft moved on.
Draft == [file : BOOLEAN, mode : Modes, plan : Modes \cup {Nil},
          preview : Modes \cup {Nil}, late : BOOLEAN, outcome : Imports \cup {Nil}]

TabTypeOK ==
    /\ live \subseteq begun /\ begun \subseteq Sessions
    /\ jar \in begun \cup {Nil}
    /\ read \in Reads \cup {Nil, "asked"}
    /\ known \in Reads \cup {Nil} /\ gate \in Reads \cup {Nil}
    /\ csrf \in Sessions \cup {Nil} /\ session \in Sessions \cup {Nil}
    /\ cached \subseteq Sessions /\ left \subseteq Sessions
    /\ leaving \in [at : {"no", "asked", "answered"}, in : Sessions \cup {Nil}, ended : BOOLEAN]
    /\ failure \in {Nil} \cup [kind : {"refused", "unconfirmed"}, in : Sessions]
    /\ {pending, outcome, owed} \subseteq Imports \cup {Nil} /\ painted \subseteq Imports
    /\ flying \in [Imports -> {"unsent", "awaited", "dropped", "over"}]
    /\ section \in Draft \cup {Nil}
    /\ sentUnder \in [Imports -> Sessions \cup {Nil}]

-----------------------------------------------------------------------------
(* lib/importRun.ts.                                                       *)

Forgotten ==
    /\ pending' = Nil /\ outcome' = Nil /\ session' = Nil /\ owed' = Nil
    /\ flying' = [i \in Imports |-> IF flying[i] = "awaited" THEN "dropped" ELSE flying[i]]
    /\ UNCHANGED <<sentUnder, painted>>

\* Mutant of Keeps: any owner session keeps it.
KeepsOwner(current) == current # Nil

\* keepImportRunFor: whether the import is kept for the session just read.
Keeps(current) == current # Nil /\ current = session

\* forgetImportRun's word to a mounted section.
Told(ended) == IF section = Nil THEN Nil ELSE [section EXCEPT !.outcome = ended]

\* sendImport, from a section with a file and a plan; Apply and the draft are held
\* while one is pending.
SendImport(i) ==
    /\ section # Nil /\ section.file /\ section.plan # Nil /\ section.preview = Nil
    /\ pending = Nil /\ flying[i] = "unsent"
    /\ pending' = i /\ outcome' = Nil /\ session' = csrf /\ owed' = Nil
    /\ flying' = [flying EXCEPT ![i] = "awaited"]
    /\ sentUnder' = [sentUnder EXCEPT ![i] = csrf]
    /\ section' = [section EXCEPT !.outcome = Nil]
    /\ UNCHANGED <<web, gateVars, outVars, painted>>

\* settle: an answer, refusal or lost connection; a result empties the draft.
\* One that was forgotten leaves nothing.
Settle(i, ok) ==
    /\ flying[i] \in {"awaited", "dropped"}
    /\ flying' = [flying EXCEPT ![i] = "over"]
    /\ IF flying[i] = "awaited"
       THEN /\ pending' = Nil /\ outcome' = i /\ owed' = i
            /\ section' = IF section = Nil \/ ~ok THEN Told(i)
                          ELSE [section EXCEPT !.outcome = i, !.file = FALSE, !.plan = Nil]
       ELSE UNCHANGED <<pending, outcome, owed, section>>
    /\ UNCHANGED <<web, gateVars, outVars, session, sentUnder, painted>>

\* Two frames after it was committed: acknowledgeImportOutcome.
Paint ==
    /\ section # Nil /\ section.outcome # Nil
    /\ painted' = painted \cup {section.outcome}
    /\ outcome' = IF outcome = section.outcome THEN Nil ELSE outcome
    /\ painted' # painted \/ outcome' # outcome
    /\ UNCHANGED <<web, gateVars, outVars, pending, session, flying, sentUnder, owed, section>>

-----------------------------------------------------------------------------
(* The Data section.                                                       *)

\* Mounted, it starts from the module's outcome.
Mount ==
    /\ section = Nil /\ gate \in Sessions
    /\ section' = [file |-> FALSE, mode |-> "merge", plan |-> Nil, preview |-> Nil,
                   late |-> FALSE, outcome |-> outcome]
    /\ UNCHANGED <<web, gateVars, outVars, runVars>>

Unmount == section # Nil /\ section' = Nil /\ UNCHANGED <<web, gateVars, outVars, runVars>>

Moved(draft) == [draft EXCEPT !.plan = Nil, !.late = draft.preview # Nil]

\* Another file, by the picker or dropped, or Cancel; held while previewing or sent.
PickFile ==
    /\ section # Nil /\ section.preview = Nil /\ pending = Nil
    /\ \E chosen \in BOOLEAN :
          section' = [Moved(section) EXCEPT !.file = chosen, !.outcome = Nil]
    /\ UNCHANGED <<web, gateVars, outVars, runVars>>

\* Held only while an import is under way: a preview may be.
ChooseMode ==
    /\ section # Nil /\ pending = Nil
    /\ \E mode \in Modes : section' = [Moved(section) EXCEPT !.mode = mode, !.outcome = Nil]
    /\ UNCHANGED <<web, gateVars, outVars, runVars>>

\* The shell became the phone's, which offers no replace_all: even while one is sent.
FallBack ==
    /\ section # Nil /\ section.mode = "replace_all"
    /\ section' = [Moved(section) EXCEPT !.mode = "merge"]
    /\ UNCHANGED <<web, gateVars, outVars, runVars>>

RunPreview ==
    /\ section # Nil /\ section.file /\ section.preview = Nil /\ pending = Nil
    /\ section' = [section EXCEPT !.preview = section.mode, !.late = FALSE, !.outcome = Nil]
    /\ UNCHANGED <<web, gateVars, outVars, runVars>>

\* A preview's plan or refusal is dropped when the draft moved on since.
PreviewAnswers ==
    /\ section # Nil /\ section.preview # Nil
    /\ \E planned \in BOOLEAN :
          section' = [section EXCEPT !.preview = Nil, !.late = FALSE,
                         !.plan = IF section.late THEN @
                                  ELSE IF planned THEN section.preview ELSE Nil]
    /\ UNCHANGED <<web, gateVars, outVars, runVars>>

-----------------------------------------------------------------------------
(* The session query and the gate.                                         *)

\* Refetched on focus, on a mount or when it is stale; one at a time.
AskSession ==
    /\ read = Nil
    /\ read' = "asked"
    /\ UNCHANGED <<live, jar, begun, gateVars, outVars, runVars, section>>

ServerReads ==
    /\ read = "asked"
    /\ read' = IF jar \in live THEN jar ELSE "nobody"
    /\ UNCHANGED <<live, jar, begun, gateVars, outVars, runVars, section>>

\* The run of a sign-out waits for its own re-read: Conclude.
ReadArrives ==
    /\ read \in Reads
    /\ leaving.at # "answered"
    /\ known' = read
    /\ read' = Nil
    /\ UNCHANGED <<live, jar, begun, gate, csrf, cached, outVars, runVars, section>>

\* A refetch that fails leaves the last data.
ReadFails ==
    /\ read # Nil
    /\ leaving.at # "answered"
    /\ read' = Nil
    /\ UNCHANGED <<live, jar, begun, gateVars, outVars, runVars, section>>

\* AuthGate renders what is known and runs its effects: the token in step, and the
\* import kept or forgotten.  Without an owner there are no pages.
Commit ==
    /\ gate # known
    /\ gate' = known
    /\ csrf' = IF Token(known) # Token(gate) THEN Token(known) ELSE csrf
    /\ LET forgets == known # Nil /\ (pending # Nil \/ outcome # Nil) /\ ~Keeps(Token(known))
       IN  /\ IF forgets THEN Forgotten ELSE UNCHANGED runVars
           /\ section' = IF known \notin Sessions THEN Nil
                         ELSE IF forgets THEN Told(Nil) ELSE section
    /\ UNCHANGED <<web, known, cached, outVars>>

\* A page asks for its rows, and gets those of whoever the cookie is.
PageLoads ==
    /\ gate \in Sessions
    /\ jar \in live
    /\ cached' = cached \cup {jar}
    /\ UNCHANGED <<web, known, gate, csrf, outVars, runVars, section>>

\* The login screen's onAuthed: the cache is cleared and the session read anew.
SignIn(s) ==
    /\ gate = "nobody" /\ known = "nobody"
    /\ s \notin begun
    /\ live' = live \cup {s} /\ begun' = begun \cup {s} /\ jar' = s
    /\ known' = Nil /\ cached' = {}
    /\ read' = "asked"
    /\ UNCHANGED <<gate, csrf, outVars, runVars, section>>

-----------------------------------------------------------------------------
(* lib/signOut.ts.                                                         *)

\* One press at a time, whichever control it is in.
Press ==
    /\ gate \in Sessions
    /\ leaving = Staying
    /\ leaving' = [at |-> "asked", in |-> csrf, ended |-> FALSE]
    /\ failure' = Nil
    /\ UNCHANGED <<web, gateVars, left, runVars, section>>

\* The server refuses a token that is not the cookie's session's, and ends nobody's
\* session with a 204; either answer, or the request, may be lost.  An end it is
\* told of takes the import with it, and the session is read again.
LogoutAnswers ==
    /\ leaving.at = "asked"
    /\ \E reached, answered \in BOOLEAN :
          LET ends == reached /\ (jar \notin live \/ jar = leaving.in)
          IN  /\ live' = IF ends THEN live \ {jar} ELSE live
              /\ jar' = IF ends /\ answered THEN Nil ELSE jar
              /\ leaving' = [leaving EXCEPT !.at = "answered", !.ended = ends /\ answered]
              /\ IF ends /\ answered
                 THEN Forgotten /\ section' = Told(Nil)
                 ELSE UNCHANGED <<runVars, section>>
    /\ read' = "asked"
    /\ UNCHANGED <<begun, gateVars, failure, left>>

\* Mutant of TokenAfter: the token was cleared with the logout, and stays cleared.
TokenAfterCleared(s) == Nil

\* The token in use once a sign-out has found the owner's session s.
TokenAfter(s) == s

Failed(kind) == IF leaving.in = Nil THEN Nil ELSE [kind |-> kind, in |-> leaving.in]

\* What the re-read says decides: still an owner, no telling, or signed out.
Conclude ==
    /\ leaving.at = "answered"
    /\ \/ /\ read \in Sessions
          /\ known' = read /\ csrf' = TokenAfter(read)
          /\ failure' = IF leaving.ended THEN Nil ELSE Failed("refused")
          /\ UNCHANGED <<cached, left>>
       \/ /\ ~leaving.ended
          /\ failure' = Failed("unconfirmed")
          /\ UNCHANGED <<known, csrf, cached, left>>
       \/ /\ \/ read = "nobody" /\ known' = read
             \/ leaving.ended /\ UNCHANGED known
          /\ csrf' = Nil /\ cached' = {}
          /\ left' = left \cup ({leaving.in} \ {Nil})
          /\ UNCHANGED failure
    /\ read' = Nil
    /\ leaving' = Staying
    /\ UNCHANGED <<live, jar, begun, gate, runVars, section>>

\* useSignOut's message: a failure is said only in the session it was made in.
Said == failure # Nil /\ failure.in = Token(known)

-----------------------------------------------------------------------------
(* The rest of the browser.                                                *)

OtherTabSignsIn(s) ==
    /\ s \notin begun
    /\ live' = live \cup {s} /\ begun' = begun \cup {s} /\ jar' = s
    /\ UNCHANGED <<read, gateVars, outVars, runVars, section>>

\* In another tab, by its own expiry, or by the host.
SessionEnds(s) ==
    /\ s \in live
    /\ live' = live \ {s}
    /\ UNCHANGED <<jar, begun, read, gateVars, outVars, runVars, section>>

\* The tab is loaded again: what its scripts held is gone, requests are aborted.
Reload ==
    /\ read' = Nil /\ known' = Nil /\ gate' = Nil /\ csrf' = Nil /\ cached' = {}
    /\ leaving' = Staying /\ failure' = Nil
    /\ pending' = Nil /\ outcome' = Nil /\ session' = Nil /\ owed' = Nil
    /\ flying' = [i \in Imports |-> IF flying[i] = "unsent" THEN "unsent" ELSE "over"]
    /\ sentUnder' = [i \in Imports |-> Nil] /\ painted' = {}
    /\ section' = Nil
    /\ UNCHANGED <<live, jar, begun, left>>

TabInit ==
    /\ live = {} /\ begun = {} /\ jar = Nil
    /\ read = Nil /\ known = Nil /\ gate = Nil /\ csrf = Nil /\ cached = {}
    /\ leaving = Staying /\ failure = Nil /\ left = {}
    /\ pending = Nil /\ outcome = Nil /\ session = Nil /\ owed = Nil
    /\ flying = [i \in Imports |-> "unsent"]
    /\ sentUnder = [i \in Imports |-> Nil]
    /\ painted = {}
    /\ section = Nil

TabNext ==
    \/ \E i \in Imports : SendImport(i) \/ \E ok \in BOOLEAN : Settle(i, ok)
    \/ Paint \/ Mount \/ Unmount \/ PickFile \/ ChooseMode \/ FallBack
    \/ RunPreview \/ PreviewAnswers
    \/ AskSession \/ ServerReads \/ ReadArrives \/ ReadFails \/ Commit \/ PageLoads
    \/ Press \/ LogoutAnswers \/ Conclude
    \/ \E s \in Sessions : SignIn(s) \/ OtherTabSignsIn(s) \/ SessionEnds(s)
    \/ Reload

TabSpec == TabInit /\ [][TabNext]_tabVars

-----------------------------------------------------------------------------
(* Properties.                                                             *)

Settled == gate = known /\ gate \in Sessions

\* "The import is that session's": once the gate is in step, the import in flight
\* and the outcome about to be shown were sent under its session, or under none.
OnlyItsSession ==
    Settled =>
        \A i \in Imports :
            (\/ i \in {pending, outcome}
             \/ section # Nil /\ section.outcome = i /\ i \notin painted)
            => sentUnder[i] \in {gate, Nil}

\* "Nothing stopped it being sent again": the cookie's session has one import in the
\* air, until it has ended and the server would refuse a second.
OneInTheAir ==
    \A i, j \in Imports :
        flying[i] \in {"awaited", "dropped"} /\ flying[j] \in {"awaited", "dropped"}
        /\ sentUnder[i] = jar /\ sentUnder[j] = jar /\ jar \in live => i = j

\* "The outcome stays here until a section has put it on the screen."
OutcomeNotLost == owed \in {Nil, outcome} \cup painted

\* "Never let an Apply run against a plan the user is no longer looking at."
PlanIsOfTheDraft ==
    section # Nil => section.plan \in {Nil, section.mode} /\ (section.plan # Nil => section.file)

\* What a tab sends, shows and says of an import, through sign-outs, expiries, other
\* tabs and late answers (lib/importRun.ts, DataSection.tsx).
ImportStaysWithItsSession ==
    TabTypeOK /\ OnlyItsSession /\ OneInTheAir /\ OutcomeNotLost /\ PlanIsOfTheDraft

\* A sign-out, however it goes and whatever answer is lost, leaves the tab able to
\* write in the session it shows while the cookie is that session's (#333), nothing
\* cached of a session it signed out of, and never says of one that it was refused
\* (lib/signOut.ts).
SignOutSettles ==
    /\ jar = gate /\ jar \in live => csrf = gate
    /\ cached \cap left = {}
    /\ Said /\ failure.kind = "refused" => failure.in \notin left

=============================================================================
