------------------------------ MODULE PoolScorer ----------------------------
(***************************************************************************)
(* One managed pool: the loop of the scorer, the full scan, the health     *)
(* check between scans, and the buttons.  The availability monitor takes   *)
(* replacements from the approved rows of the table kept here.             *)
(*                                                                         *)
(* A step is what runs between two awaits; a short database session is one *)
(* step, except that every row is written by a transaction of its own.     *)
(* Time is left open: scans and rows may become stale at any moment.       *)
(***************************************************************************)
EXTENDS PoolScore, FiniteSets

CONSTANTS
    Ips,
    Batch,      \* POOL_SCORE_BATCH
    Threshold,  \* score_threshold of the pool, in tenths
    Losses,     \* bounds: the losses and round trip times that are measured
    Rtts,
    Events,     \* bound: what may happen besides scans and health checks
    MaxCrashes  \* bound: restarts of the process

ASSUME ScorerAssumption ==
    /\ Batch \in Nat \ {0} /\ MaxCrashes \in Nat /\ Threshold \in 0..1000
    /\ Losses \subseteq Percent \cup {None} /\ Rtts \subseteq Nat \cup {None}
    /\ Events \subseteq {"scan", "clear", "delete", "sets"}

VARIABLES
    exists,     \* the row of managed_pools
    scanned,    \* last_scanned_at is set, and within the interval
    sources,    \* what the pool's IP sets hold
    row,        \* managed_ips: "absent", "pending", "approved" or "rejected"
    fresh,      \* rows whose last_checked_at is within the interval
    scoring,    \* the pool is in _scoring_pools
    checking,   \* the pool is in _health_checking_pools
    rested,     \* _health_check_times: a health check began within its interval
    loop,       \* run_ip_pool_scorer: "sleep", "due" (a due pool was read) or "health"
    scan,       \* the task running _score_pool
    health,     \* the task running _health_check_pool
    crashes,    \* restarts so far
    outdated,   \* history: the pool was cleared or deleted since the scan read the sets
    overlapped, \* history: a scan was at work since the health check began
    cleared     \* history: cleared, and not rebuilt from the sets since

pool  == <<exists, scanned, sources>>
table == <<row, fresh>>
sets  == <<scoring, checking, rested>>
hist  == <<outdated, overlapped, cleared>>
vars  == <<pool, table, sets, loop, scan, health, crashes, hist>>

Results == {"none", "unknown", "pass", "fail"}

ScanType ==
    [at : {"off", "new", "load", "sync", "upsert", "list", "ping", "write", "mark"},
     ips : SUBSET Ips,             \* unique_ips
     todo : SUBSET Ips,            \* to_check, less the batches begun
     result : [Ips -> Results],    \* the rows of the batch still to be written
     skipped : SUBSET Ips]         \* skipped_count

HealthType ==
    [at : {"off", "new", "load", "ping", "write"},
     todo : SUBSET Ips, result : [Ips -> Results]]

TypeOK ==
    /\ exists \in BOOLEAN /\ scanned \in BOOLEAN /\ sources \subseteq Ips
    /\ row \in [Ips -> {"absent", "pending", "approved", "rejected"}] /\ fresh \subseteq Ips
    /\ scoring \in BOOLEAN /\ checking \in BOOLEAN /\ rested \in BOOLEAN
    /\ loop \in {"sleep", "due", "health"}
    /\ scan \in ScanType /\ health \in HealthType
    /\ crashes \in 0..MaxCrashes
    /\ outdated \in BOOLEAN /\ overlapped \in BOOLEAN /\ cleared \in BOOLEAN

NoResult == [ip \in Ips |-> "none"]
NoScan   == [at |-> "off", ips |-> {}, todo |-> {}, result |-> NoResult, skipped |-> {}]
NoHealth == [at |-> "off", todo |-> {}, result |-> NoResult]

\* mpool_confirm_create: a new pool has no rows and was never scanned.
Init ==
    /\ exists = TRUE /\ scanned = FALSE /\ sources \in SUBSET Ips
    /\ row = [ip \in Ips |-> "absent"] /\ fresh = {}
    /\ scoring = FALSE /\ checking = FALSE /\ rested = FALSE
    /\ loop = "sleep" /\ scan = NoScan /\ health = NoHealth /\ crashes = 0
    /\ outdated = FALSE /\ overlapped = FALSE /\ cleared = FALSE

Rows == {ip \in Ips : row[ip] # "absent"}
Approved == {ip \in Ips : row[ip] = "approved"}
Due == exists /\ ~scanned
Scanning == scan.at # "off"

-----------------------------------------------------------------------------
(* The loop.  A task it creates has run its first step before the loop goes  *)
(* on, which takes a sleep or a query.                                       *)

NoTaskIsNew == scan.at # "new" /\ health.at # "new"

LoopReadsDue ==
    /\ loop = "sleep" /\ NoTaskIsNew
    /\ loop' = IF Due THEN "due" ELSE "health"
    /\ UNCHANGED <<pool, table, sets, scan, health, crashes, hist>>

\* create_task(_score_pool_safe).
LoopScans ==
    /\ loop = "due" /\ loop' = "health"
    /\ IF scoring THEN UNCHANGED <<scan, outdated>>
       ELSE scan' = [NoScan EXCEPT !.at = "new"] /\ outdated' = FALSE
    /\ UNCHANGED <<pool, table, sets, health, crashes, overlapped, cleared>>

\* create_task(_health_check_pool_safe), unless the pool is busy; or the query of
\* the pools raises.
LoopChecks ==
    /\ loop = "health" /\ NoTaskIsNew /\ loop' = "sleep"
    /\ \/ UNCHANGED <<health, overlapped>>
       \/ /\ exists /\ ~scoring /\ ~checking /\ ~rested
          /\ health' = [NoHealth EXCEPT !.at = "new"] /\ overlapped' = Scanning
    /\ UNCHANGED <<pool, table, sets, scan, crashes, outdated, cleared>>

-----------------------------------------------------------------------------
(* What scan and health check have in common.                                *)

Handshakes == {TRUE, FALSE, None}

Verdicts == {Verdict(tls, loss, rtt, Threshold) :
                tls \in Handshakes, loss \in Losses, rtt \in Rtts}

\* The next batch: the first Batch addresses of todo, in some order.
NextBatches(todo) ==
    {b \in SUBSET todo : b # {} /\ Cardinality(b) <= Batch
                         /\ (Cardinality(b) < Batch => b = todo)}

\* Fault: an exception that gather returns is taken for a result.
MeasuredRaising(batch) ==
    {r \in [Ips -> Results \cup {"exception"}] :
        \A ip \in Ips : IF ip \in batch THEN r[ip] \in Verdicts \cup {"exception"} ELSE r[ip] = "none"}

\* Ping and TLS answer for all of a batch; an exception of either is no answer.
Measured(batch) ==
    {r \in [Ips -> Results] :
        \A ip \in Ips : IF ip \in batch THEN r[ip] \in Verdicts ELSE r[ip] = "none"}

ToWrite(result) == {ip \in Ips : result[ip] # "none"}

\* Fault: an address whose handshake did not answer is rejected.
StoreUnknown(ip, result) ==
    IF row[ip] = "absent" THEN UNCHANGED table
    ELSE /\ row' = [row EXCEPT ![ip] = IF result = "pass" THEN "approved" ELSE "rejected"]
         /\ fresh' = fresh \cup {ip}

\* update_ip_score, if the row is still there; an unknown result is skipped.
Store(ip, result) ==
    IF result = "unknown" \/ row[ip] = "absent" THEN UNCHANGED table
    ELSE /\ row' = [row EXCEPT ![ip] = IF result = "pass" THEN "approved" ELSE "rejected"]
         /\ fresh' = fresh \cup {ip}

-----------------------------------------------------------------------------
(* A full scan.                                                              *)

ScanUnchanged == UNCHANGED <<exists, sources, checking, rested, loop, health, crashes>>

\* The scan goes on as s; one that is over leaves _scoring_pools.
ScanBecomes(s) ==
    /\ scan' = s
    /\ scoring' = IF s.at = "off" THEN FALSE ELSE scoring

\* Fault: the pool is not entered in _scoring_pools.
StartScanUnlisted ==
    /\ scan.at = "new" /\ scan' = [scan EXCEPT !.at = "load"]
    /\ overlapped' = (overlapped \/ health.at # "off")
    /\ ScanUnchanged /\ UNCHANGED <<scanned, table, scoring, outdated, cleared>>

StartScan ==
    /\ scan.at = "new" /\ scan' = [scan EXCEPT !.at = "load"] /\ scoring' = TRUE
    /\ overlapped' = (overlapped \/ health.at # "off")
    /\ ScanUnchanged /\ UNCHANGED <<scanned, table, outdated, cleared>>

\* The pool may be gone and Pingachock not configured.  Empty sets end the scan.
LoadPool ==
    /\ scan.at = "load" /\ outdated' = FALSE
    /\ \/ ScanBecomes(NoScan)
       \/ exists /\ ScanBecomes([scan EXCEPT !.ips = sources,
                                             !.at = IF sources = {} THEN "mark" ELSE "sync"])
    /\ cleared' = (cleared /\ scan'.at # "mark")
    /\ ScanUnchanged /\ UNCHANGED <<scanned, table, overlapped>>

StaleRemoved(ips) == [ip \in Ips |-> IF ip \in ips THEN row[ip] ELSE "absent"]
Upserted(rows, ips) ==
    [ip \in Ips |-> IF ip \in ips /\ rows[ip] = "absent" THEN "pending" ELSE rows[ip]]

\* remove_stale_ips, which commits.
RemoveStale ==
    /\ scan.at = "sync"
    /\ row' = StaleRemoved(scan.ips) /\ fresh' = fresh \cap scan.ips
    /\ ScanBecomes([scan EXCEPT !.at = "upsert"])
    /\ ScanUnchanged /\ UNCHANGED <<scanned, hist>>

\* upsert_ip of each address, and one commit; rows of a pool that is gone cannot
\* be added.
UpsertIps ==
    /\ scan.at = "upsert"
    /\ IF exists
       THEN /\ row' = Upserted(row, scan.ips) /\ cleared' = FALSE
            /\ ScanBecomes([scan EXCEPT !.at = "list"])
       ELSE ScanBecomes(NoScan) /\ UNCHANGED <<row, cleared>>
    /\ ScanUnchanged /\ UNCHANGED <<scanned, fresh, outdated, overlapped>>

\* Fault: addresses that were never checked are left out.
ListStaleChecked ==
    /\ scan.at = "list"
    /\ LET todo == {ip \in Rows \ fresh : row[ip] # "pending"}
       IN  ScanBecomes([scan EXCEPT !.todo = todo, !.at = IF todo = {} THEN "mark" ELSE "ping"])
    /\ ScanUnchanged /\ UNCHANGED <<scanned, table, hist>>

\* get_ips_to_check.
ListStale ==
    /\ scan.at = "list"
    /\ LET todo == Rows \ fresh
       IN  ScanBecomes([scan EXCEPT !.todo = todo, !.at = IF todo = {} THEN "mark" ELSE "ping"])
    /\ ScanUnchanged /\ UNCHANGED <<scanned, table, hist>>

ScanBatch ==
    /\ scan.at = "ping"
    /\ \E b \in NextBatches(scan.todo) : \E r \in Measured(b) :
         ScanBecomes([scan EXCEPT !.at = "write", !.todo = @ \ b, !.result = r])
    /\ ScanUnchanged /\ UNCHANGED <<scanned, table, hist>>

ScanWrites(ip) ==
    /\ scan.at = "write" /\ ip \in ToWrite(scan.result)
    /\ Store(ip, scan.result[ip])
    /\ ScanBecomes([scan EXCEPT
            !.result[ip] = "none",
            !.skipped = IF scan.result[ip] = "unknown" THEN @ \cup {ip} ELSE @,
            !.at = IF ToWrite(scan.result) # {ip} THEN "write"
                   ELSE IF scan.todo = {} THEN "mark" ELSE "ping"])
    /\ ScanUnchanged /\ UNCHANGED <<scanned, hist>>

\* mark_scanned.
MarkScanned ==
    /\ scan.at = "mark" /\ scanned' = (scanned \/ exists)
    /\ ScanBecomes(NoScan)
    /\ ScanUnchanged /\ UNCHANGED <<table, hist>>

\* Fault: a scan that was broken off counts as a scan.
ScanRaisesMarked ==
    /\ scan.at \notin {"off", "new"} /\ ScanBecomes(NoScan)
    /\ scanned' = (scanned \/ exists)
    /\ ScanUnchanged /\ UNCHANGED <<table, hist>>

\* Any await may raise: the database, or a row deleted between its selection and
\* its update.  The wrapper logs it.
ScanRaises ==
    /\ scan.at \notin {"off", "new"} /\ ScanBecomes(NoScan)
    /\ ScanUnchanged /\ UNCHANGED <<scanned, table, hist>>

ScanStep ==
    \/ StartScan \/ LoadPool \/ RemoveStale \/ UpsertIps \/ ListStale \/ ScanBatch
    \/ MarkScanned \/ ScanRaises
    \/ \E ip \in Ips : ScanWrites(ip)

-----------------------------------------------------------------------------
(* A health check.                                                           *)

HealthUnchanged ==
    UNCHANGED <<pool, scoring, loop, scan, crashes, outdated, cleared>>

\* Fault: the pool stays in _health_checking_pools.
HealthBecomesKept(h) == health' = h /\ UNCHANGED checking

HealthBecomes(h) ==
    /\ health' = h
    /\ checking' = IF h.at = "off" THEN FALSE ELSE checking

StartHealth ==
    /\ health.at = "new" /\ health' = [health EXCEPT !.at = "load"]
    /\ checking' = TRUE /\ rested' = TRUE
    /\ HealthUnchanged /\ UNCHANGED <<table, overlapped>>

\* Fault: the health check takes every row.
LoadAllRows ==
    /\ health.at = "load"
    /\ \/ HealthBecomes(NoHealth)
       \/ exists /\ Rows # {} /\ HealthBecomes([health EXCEPT !.at = "ping", !.todo = Rows])
    /\ HealthUnchanged /\ UNCHANGED <<table, rested, overlapped>>

\* The approved rows as they are now; there may be none, or no Pingachock.
LoadApproved ==
    /\ health.at = "load"
    /\ \/ HealthBecomes(NoHealth)
       \/ /\ exists /\ Approved # {}
          /\ HealthBecomes([health EXCEPT !.at = "ping", !.todo = Approved])
    /\ HealthUnchanged /\ UNCHANGED <<table, rested, overlapped>>

HealthBatch ==
    /\ health.at = "ping"
    /\ \E b \in NextBatches(health.todo) : \E r \in Measured(b) :
         HealthBecomes([health EXCEPT !.at = "write", !.todo = @ \ b, !.result = r])
    /\ HealthUnchanged /\ UNCHANGED <<table, rested, overlapped>>

HealthWrites(ip) ==
    /\ health.at = "write" /\ ip \in ToWrite(health.result)
    /\ Store(ip, health.result[ip])
    /\ LET left == ToWrite(health.result) \ {ip}
       IN  HealthBecomes(IF left = {} /\ health.todo = {} THEN NoHealth
                         ELSE [health EXCEPT !.result[ip] = "none",
                                             !.at = IF left = {} THEN "ping" ELSE "write"])
    /\ HealthUnchanged /\ UNCHANGED <<rested, overlapped>>

HealthRaises ==
    /\ health.at \notin {"off", "new"} /\ HealthBecomes(NoHealth)
    /\ HealthUnchanged /\ UNCHANGED <<table, rested, overlapped>>

HealthStep ==
    \/ StartHealth \/ LoadApproved \/ HealthBatch \/ HealthRaises
    \/ \E ip \in Ips : HealthWrites(ip)

-----------------------------------------------------------------------------
(* People and time.                                                          *)

OutsideUnchanged == UNCHANGED <<sets, loop, scan, health, crashes, overlapped>>

\* mpool_scan: "the check will start within a minute".
PressScan ==
    /\ "scan" \in Events /\ exists /\ scanned' = FALSE
    /\ OutsideUnchanged /\ UNCHANGED <<exists, sources, table, outdated, cleared>>

\* clear_pool_ips.
PressClear ==
    /\ "clear" \in Events /\ exists /\ scanned' = FALSE
    /\ row' = [ip \in Ips |-> "absent"] /\ fresh' = {}
    /\ cleared' = (sources # {}) /\ outdated' = Scanning
    /\ OutsideUnchanged /\ UNCHANGED <<exists, sources>>

\* delete_pool; the rows go with it.
DeletePool ==
    /\ "delete" \in Events /\ exists /\ exists' = FALSE
    /\ row' = [ip \in Ips |-> "absent"] /\ fresh' = {}
    /\ outdated' = Scanning /\ cleared' = FALSE
    /\ OutsideUnchanged /\ UNCHANGED <<scanned, sources>>

\* An IP set is deleted.  Nothing edits one, or gives the pool another.
DeleteSet ==
    /\ "sets" \in Events
    /\ \E left \in SUBSET sources : left # sources /\ sources' = left
    /\ OutsideUnchanged /\ UNCHANGED <<exists, scanned, table, outdated, cleared>>

IntervalElapses ==
    /\ scanned /\ scanned' = FALSE
    /\ OutsideUnchanged /\ UNCHANGED <<exists, sources, table, outdated, cleared>>

RowAges(ip) ==
    /\ ip \in fresh /\ fresh' = fresh \ {ip}
    /\ OutsideUnchanged /\ UNCHANGED <<pool, row, outdated, cleared>>

HealthFallsDue ==
    /\ rested /\ rested' = FALSE
    /\ UNCHANGED <<pool, table, scoring, checking, loop, scan, health, crashes, hist>>

Crash ==
    /\ crashes < MaxCrashes /\ crashes' = crashes + 1
    /\ scoring' = FALSE /\ checking' = FALSE /\ rested' = FALSE
    /\ loop' = "sleep" /\ scan' = NoScan /\ health' = NoHealth
    /\ UNCHANGED <<pool, table, hist>>

Next ==
    \/ LoopReadsDue \/ LoopScans \/ LoopChecks \/ ScanStep \/ HealthStep
    \/ PressScan \/ PressClear \/ DeletePool \/ DeleteSet
    \/ IntervalElapses \/ HealthFallsDue \/ Crash
    \/ \E ip \in Ips : RowAges(ip)

Spec == Init /\ [][Next]_vars

-----------------------------------------------------------------------------
(* Properties.                                                               *)

\* The pool is never scanned by two tasks at a time, nor health-checked by two,
\* and a health check never begins beside a scan, although a task registers only
\* when it first runs (ip_pool_scorer 90-106, 138-158).
TasksDoNotPile ==
    [][/\ scan.at # "new" /\ scan'.at = "new" => ~Scanning
       /\ health.at # "new" /\ health'.at = "new" => health.at = "off" /\ ~Scanning]_vars

\* A pool is registered exactly while a task is at work on it: one that stayed in
\* a set would not be scanned or checked again (ip_pool_scorer 146, 158).
BusyMeansAtWork ==
    /\ scoring <=> scan.at \notin {"off", "new"}
    /\ checking <=> health.at \notin {"off", "new"}

\* A scan that has come to its end leaves exactly the addresses of the sets in the
\* table, and has judged every one of them that it did not skip, whatever health
\* check ran beside it; unless the pool was cleared or deleted meanwhile.
EndedScanSettles ==
    scan.at = "mark" /\ scan.ips # {} /\ ~outdated =>
        /\ Rows = scan.ips
        /\ \A ip \in Rows \ scan.skipped : row[ip] # "pending"

\* No scan and no health check takes the approval of an address but for a check
\* that failed or its removal from the sets: one that did not answer keeps it
\* ("TLS timeout - preserve approval", ip_pool_scorer 226).
ApprovalLostForCause ==
    [][\A ip \in Approved : row'[ip] # "approved" =>
          \/ UNCHANGED <<scan, health>>
          \/ scan.at = "sync" /\ ip \notin scan.ips
          \/ scan.result[ip] = "fail" /\ scan'.result[ip] = "none"
          \/ health.result[ip] = "fail" /\ health'.result[ip] = "none"]_vars

\* "Non-approved IPs are not touched" by a health check (ip_pool_scorer 165-167):
\* it approves an address only if a full scan, which the loop starts whatever
\* health check is at work, has run since it read the list.
HealthCheckOnlyRevokes ==
    [][health.at = "write" /\ health' # health =>
          \A ip \in Ips : row'[ip] = "approved" => row[ip] = "approved" \/ overlapped]_vars

\* A cleared pool is due until it is rebuilt ("The next scorer cycle will rebuild
\* from scratch", managed_pool_service 200).
ClearedStaysDue == [][cleared /\ cleared' /\ Due => Due']_vars

\* It is, unless a scan was at work when it was cleared.
ClearedStaysDueUnlessScanning ==
    [][cleared /\ cleared' /\ Due /\ ~outdated => Due']_vars
=============================================================================
