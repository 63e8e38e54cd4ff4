--------------------------- MODULE ManifestServer ---------------------------
(***************************************************************************)
(* GET /api/v1/manifest (server/server.go): requests queue for one lock,   *)
(* and whoever gets it either scans the tree or answers with the manifest  *)
(* that the previous holder stored.  The scan is AgentScan's, run with the *)
(* context of the request that scans.  The lock is left before the answer  *)
(* is written, so answers may overtake each other, and a client that does  *)
(* not read its answer keeps its handler, for ever if it likes: the server *)
(* has no write timeout.                                                   *)
(***************************************************************************)
EXTENDS AgentScan

CONSTANTS Reqs,      \* handlers of manifest requests
          TTL,       \* manifest_ttl, in ticks; 0 disables it
          HangUps    \* TRUE if clients may disconnect before the answer

ASSUME ServerAssumption == TTL \in Nat /\ HangUps \in BOOLEAN

VARIABLES
    req,      \* the request each handler works on, or None
    stored,   \* s.manifest: the manifest stored last
    given     \* ghost: the contents that manifestFor last gave a handler to answer with

serverVars == <<req, stored, given>>
allVars == <<vars, serverVars>>

Key == [sub : Subs, mode : Modes]

\* A stored manifest: `at` is its time.  Ghosts: the contents that the walk saw,
\* whether the scan ran to its end, and what it failed to read.
Manifest == [key : Key, list : [Names -> Row \cup {None}], at : 0..MaxClock,
             vers : [Names -> Nat], whole : BOOLEAN, unread : SUBSET Names]

ASSUME NoManifestAssumption == None \notin Manifest

\* A request: where its handler is (it waits for scanMu, it scans, or it writes its
\* answer), what was asked for, whether its client has disconnected, whether
\* s.manifest.stored is later than its arrival, and the contents that the manifest it
\* answers with is of.  Ghosts: the contents published at its arrival, whether no scan
\* was running then, and the contents that handlers had been given by then.
Request == [at : {"waiting", "scanning", "replying"}, key : Key, hungUp : BOOLEAN,
            storedAfter : BOOLEAN, vers : [Names -> Nat],
            floor : [Names -> Nat], quiet : BOOLEAN, seen : [Names -> Nat]]

ASSUME NoRequestAssumption == None \notin Request

ServerTypeOK ==
    /\ TypeOK
    /\ req \in [Reqs -> Request \cup {None}]
    /\ stored \in Manifest \cup {None}
    /\ given \in [Subs -> [Names -> Nat]]

ServerInit ==
    /\ Init
    /\ req = [r \in Reqs |-> None]
    /\ stored = None
    /\ given = [s \in Subs |-> [f \in Names |-> 0]]

At(r, where) == req[r] # None /\ req[r].at = where

\* Mutation of LockFree: scanMu is held until the answer is written.
LockFreeOnceAnswered == \A r \in Reqs : ~At(r, "scanning") /\ ~At(r, "replying")

LockFree == \A r \in Reqs : ~At(r, "scanning")

-----------------------------------------------------------------------------

\* manifestFor notes the time of arrival and queues for scanMu.
Arrive(r, k) ==
    /\ req[r] = None
    /\ req' = [req EXCEPT ![r] =
                 [at |-> "waiting", key |-> k, hungUp |-> FALSE, storedAfter |-> FALSE,
                  vers |-> [f \in Names |-> 0], floor |-> [f \in Names |-> fs[k.sub][f].ver],
                  quiet |-> phase = "idle", seen |-> given[k.sub]]]
    /\ UNCHANGED <<vars, stored, given>>

\* manifestFor returns `man` to the handler of r, and the lock is free again.
Give(r, man) == given' = [given EXCEPT ![req[r].key.sub] = man.vers]

\* The request of r with what it is answered with: what led to the manifest is done with,
\* and a client that has disconnected gets no answer.
Provided(r, man) ==
    IF req[r].hungUp THEN None
    ELSE [req[r] EXCEPT !.at = "replying", !.vers = man.vers, !.storedAfter = FALSE,
                        !.floor = [f \in Names |-> 0], !.quiet = FALSE]

\* Mutation of Reusable: the key of the stored manifest is not compared.
ReusableAnyKey(r) ==
    /\ stored # None
    /\ req[r].storedAfter \/ (TTL > 0 /\ clock - stored.at < TTL)

\* Mutation of Reusable: a manifest is reused however old it is.
ReusableAnyAge(r) ==
    /\ stored # None
    /\ stored.key = req[r].key

Reusable(r) ==
    /\ stored # None
    /\ stored.key = req[r].key
    /\ req[r].storedAfter \/ (TTL > 0 /\ clock - stored.at < TTL)

\* scanMu is free and the stored manifest will do.
Reuse(r) ==
    /\ At(r, "waiting")
    /\ LockFree
    /\ Reusable(r)
    /\ Give(r, stored)
    /\ req' = [req EXCEPT ![r] = Provided(r, stored)]
    /\ UNCHANGED <<vars, stored>>

\* scanMu is free and a scan is needed; it runs with the request's context.
StartScan(r) ==
    /\ At(r, "waiting")
    /\ LockFree
    /\ ~Reusable(r)
    /\ BeginScan(req[r].key.sub, req[r].key.mode, req[r].hungUp)
    /\ req' = [req EXCEPT ![r].at = "scanning"]
    /\ UNCHANGED <<stored, given>>

\* The published directory cannot be read: an error, and nothing is stored.
ScanFails(r) ==
    /\ At(r, "waiting")
    /\ LockFree
    /\ ~Reusable(r)
    /\ Flaky # {}
    /\ req' = [req EXCEPT ![r] = None]
    /\ UNCHANGED <<vars, stored, given>>

Scanned(r) == [key |-> req[r].key, list |-> list, at |-> clock,
               vers |-> seenVer, whole |-> ~cancelled, unread |-> unread]

\* The requests when the scan of r has ended; `stored` is later than all arrivals.
Left(r) == [q \in Reqs |-> IF q = r THEN Provided(r, Scanned(r))
                           ELSE IF req[q] = None THEN None
                           ELSE [req[q] EXCEPT !.storedAfter = TRUE]]

\* Mutation of FinishScan: a manifest that is stored already is kept.
FinishScanKeepsFirst(r) ==
    /\ At(r, "scanning")
    /\ EndScan
    /\ stored' = IF stored = None THEN Scanned(r) ELSE stored
    /\ Give(r, Scanned(r))
    /\ req' = Left(r)

\* The scan ends: its manifest is stored with the time of its end, even if hashing was
\* cut short, and the handler goes on to answer with it.
FinishScan(r) ==
    /\ At(r, "scanning")
    /\ EndScan
    /\ stored' = Scanned(r)
    /\ Give(r, Scanned(r))
    /\ req' = Left(r)

\* writeJSON has written the answer, or its client has left meanwhile.
Reply(r) ==
    /\ At(r, "replying")
    /\ req' = [req EXCEPT ![r] = None]
    /\ UNCHANGED <<vars, stored, given>>

\* A client disconnects; the handler of its request goes on.  (One that leaves while its
\* answer is being written ends the writing: Reply.)
HangUp(r) ==
    /\ HangUps
    /\ At(r, "waiting") \/ At(r, "scanning")
    /\ ~req[r].hungUp
    /\ req' = [req EXCEPT ![r].hungUp = TRUE]
    /\ IF At(r, "scanning") THEN Cancel ELSE UNCHANGED vars
    /\ UNCHANGED <<stored, given>>

\* Steps of the scan that hold no surprise for the handlers.
ScanWork ==
    /\ \/ EndWalk
       \/ \E f \in Names : \/ Walk(f) \/ WalkSkips(f)
                           \/ HashCached(f) \/ HashOpen(f) \/ HashDone(f) \/ HashFails(f)
    /\ UNCHANGED serverVars

\* The agent dies and starts again: requests and the stored manifest are lost.
AgentCrash ==
    /\ Restart
    /\ req' = [r \in Reqs |-> None]
    /\ stored' = None
    /\ UNCHANGED given

Handler(r) == Reuse(r) \/ StartScan(r) \/ ScanFails(r)

ServerNext ==
    \/ Environment /\ UNCHANGED serverVars
    \/ ScanWork
    \/ AgentCrash
    \/ \E r \in Reqs : \/ \E k \in Key : Arrive(r, k)
                       \/ Handler(r) \/ FinishScan(r) \/ Reply(r) \/ HangUp(r)

ServerSpec == ServerInit /\ [][ServerNext]_allVars

\* sync.Mutex hands the lock to every waiter in the end, and scans run to their end.
\* Nothing is assumed of Reply: it takes as long as the client wants.
Fairness ==
    /\ WF_allVars(ScanWork)
    /\ \A r \in Reqs : SF_allVars(Handler(r)) /\ WF_allVars(FinishScan(r))

FairServerSpec == ServerSpec /\ Fairness

-----------------------------------------------------------------------------
(* Properties.                                                             *)

\* manifestFor gives the handler of r a manifest for a client that listens; it is what
\* s.manifest holds then.
Answers(r) == (Reuse(r) \/ FinishScan(r)) /\ ~req[r].hungUp

\* A client that asks right after a change sees the change (server.go:300-305),
\* if no scan was running when it asked; with manifest_ttl, at most that late.
ReplyIsRecent ==
    [][\A r \in Reqs : Answers(r) /\ req[r].quiet =>
         \/ \A f \in Names : stored'.vers[f] >= req[r].floor[f]
         \/ TTL > 0 /\ clock - stored'.at < TTL]_allVars

\* Manifests never travel back in time (server.go:300-305): the answer to a request is
\* never older than any answer made up before the request came, to whichever client,
\* from whichever shared or cached manifest.  Answers to requests that were under way
\* together may overtake each other.
NeverGoesBack ==
    [][\A r \in Reqs, f \in Names : Reply(r) =>
         req[r].vers[f] >= req[r].seen[f]]_allVars

\* hash=1 forces digests (docs/PROTOCOL.md:72): whoever scanned, a file comes without
\* one only if it has changed since the walk saw it, if it could not be read, or if the
\* client whose request ran the scan had hung up; and everything keeps its type.
ServerInv ==
    /\ []ServerTypeOK
    /\ [][\A r \in Reqs, f \in Names :
            Answers(r) /\ stored'.whole /\ req[r].key.mode = "always" =>
               \/ stored'.list[f] = None
               \/ stored'.list[f].sum # NoSum
               \/ f \in stored'.unread
               \/ fs[req[r].key.sub][f].ver # stored'.vers[f]]_allVars

\* Every request gets its manifest or its error, or dies with the agent, however long
\* other clients take to read what they asked for.
EveryRequestAnswered ==
    \A r \in Reqs : At(r, "waiting") \/ At(r, "scanning")
                      ~> req[r] = None \/ At(r, "replying")
=============================================================================
