---------------------------- MODULE StratumServer ----------------------------
(***************************************************************************)
(* class StratumServer with the part of TCPServer below it: the jobs that  *)
(* miners get from p2pool's block templates and the shares they send back. *)
(*                                                                         *)
(* Threads: main (BlockTemplate::update, then on_block), the server's loop *)
(* (connections, requests, on_blobs_ready, on_after_share_found) and pool  *)
(* threads (on_share_found).  A Client is a place for a connection; it is  *)
(* used again, and m_resetCounter counts its uses.  A miner is an address. *)
(* An extra nonce is <<r, i>>: the i-th after the r-th random start; two   *)
(* random starts are taken to be far from each other.                      *)
(*                                                                         *)
(* A share is "good" (enough for the side chain), "low" (enough for the    *)
(* job only), "weak" (not even that) or "fake" (it claims a hash that it   *)
(* does not have).  For a share that is a Monero block, on_submit first    *)
(* calls submit_block_async: that is FindBlock of P2PoolCore.              *)
(***************************************************************************)
EXTENDS BlockTemplate, FiniteSets, Sequences, SequencesExt

CONSTANTS
    Client,              \* places for connections
    Miner,               \* addresses
    Honest,              \* miners that only send work they did
    JobsSize,            \* StratumClient::JOBS_SIZE
    BadPoints, GoodPoints, BanThreshold,
    Budget               \* what the environment may do: sets of
                         \* [miners, connects, logins, submits, faults, updates, skips]

Budgets == [miners : SUBSET Miner, connects : Nat, logins : Nat, submits : Nat,
            faults : Nat, updates : Nat, skips : Nat]

ASSUME StratumAssumption ==
    /\ IsFiniteSet(Client) /\ Miner # {} /\ Honest \subseteq Miner /\ JobsSize \in Nat \ {0}
    /\ BadPoints \in Int /\ GoodPoints \in Int /\ BanThreshold \in Int
    /\ Budget \subseteq Budgets

VARIABLES
    left,                \* what is left of the budget
    main,                \* the main thread: [at, n]
    extraNonce,          \* m_extraNonce
    blobs,               \* m_blobsQueue
    wake,                \* m_blobsAsync is pending
    list,                \* m_connectedClientsList, the newest first
    free,                \* m_preallocatedClients, the last freed first
    client,              \* the Client objects
    work,                \* per Client, the jobs its miner was sent on this connection
    shares,              \* shares on their way: queued, checked or done
    accepted,            \* templates of the shares counted in m_totalFoundShares
    bans,                \* m_bans
    offended             \* history: miners that gave the server a reason to ban them

mainVars == <<main, extraNonce, blobs>>
connVars == <<list, free, client, work>>
banVars == <<bans, offended>>
vars == <<templateVars, left, mainVars, wake, connVars, shares, accepted, banVars>>

NoJob == [id |-> 0, nonce |-> <<0, 0>>, template |-> 0]

\* The StratumClient constructor; reset() leaves all but the reset counter like this
NewClient ==
    [at |-> "free", miner |-> CHOOSE m \in Miner : TRUE, resets |-> 0, rpcId |-> 0, jobId |-> 0,
     jobs |-> [i \in 0 .. JobsSize - 1 |-> NoJob], score |-> 0]

Init ==
    /\ TemplateInit
    /\ left \in Budget
    /\ main = [at |-> "idle", n |-> 0] /\ extraNonce = <<0, 0>> /\ blobs = <<>> /\ wake = FALSE
    /\ list = <<>> /\ free = SetToSeq(Client)
    /\ client = [c \in Client |-> NewClient] /\ work = [c \in Client |-> {}]
    /\ shares = {} /\ accepted = {} /\ bans = {} /\ offended = {}

Spend(what) == left[what] > 0 /\ left' = [left EXCEPT ![what] = @ - 1]
Up(c) == client[c].at = "up"

-----------------------------------------------------------------------------
(* p2pool::update_block_template on main: the template, then on_block, cut
   where it touches what the server's loop uses.                           *)

\* update() returns at once for a hard fork it does not know
UpdateTemplate ==
    /\ main.at = "idle"
    /\ \/ Spend("updates") /\ Update
       \/ Spend("skips") /\ UNCHANGED templateVars
    /\ main' = [main EXCEPT !.at = "updated"]
    /\ UNCHANGED <<extraNonce, blobs, wake, connVars, shares, accepted, banVars>>

OnBlockCount ==
    /\ main.at = "updated"
    /\ main' = IF list = <<>> THEN [at |-> "idle", n |-> 0]
               ELSE [at |-> "counted", n |-> Len(list)]
    /\ UNCHANGED <<templateVars, left, extraNonce, blobs, wake, connVars, shares, accepted,
                   banVars>>

\* One extra nonce for every connection, the logins go on after them
OnBlockNonces ==
    /\ main.at = "counted"
    /\ extraNonce' = <<extraNonce[1] + 1, main.n>>
    /\ main' = [main EXCEPT !.at = "ranged"]
    /\ UNCHANGED <<templateVars, left, blobs, wake, connVars, shares, accepted, banVars>>

\* get_hashing_blobs, the queue and uv_async_send
OnBlockQueue ==
    /\ main.at = "ranged"
    /\ blobs' = Append(blobs, [range |-> extraNonce[1], n |-> main.n, template |-> templateId])
    /\ wake' = TRUE
    /\ main' = [at |-> "idle", n |-> 0]
    /\ UNCHANGED <<templateVars, left, extraNonce, connVars, shares, accepted, banVars>>

OnBlock == OnBlockCount \/ OnBlockNonces \/ OnBlockQueue

-----------------------------------------------------------------------------
(* Connections                                                              *)

\* on_new_client; a banned miner is disconnected.  The loop looks at all its handles in
\* every turn: what is pending now is handled before the first request of this miner.
Connect(m) ==
    /\ free # <<>> /\ m \in left.miners /\ Spend("connects")
    /\ LET c == Head(free) IN
       /\ list' = <<c>> \o list
       /\ free' = Tail(free)
       /\ client' = [client EXCEPT ![c].at = IF m \in bans THEN "closing"
                                            ELSE IF wake THEN "new" ELSE "up",
                                   ![c].miner = m]
    /\ UNCHANGED <<templateVars, mainVars, wake, work, shares, accepted, banVars>>

Disconnect(c) ==
    /\ Up(c) /\ client' = [client EXCEPT ![c].at = "closing"]
    /\ UNCHANGED <<templateVars, left, mainVars, wake, list, free, work, shares, accepted,
                   banVars>>

\* Client::reset()
Reset(c) == [NewClient EXCEPT !.resets = client[c].resets + 1]

Position(c) == CHOOSE i \in 1 .. Len(list) : list[i] = c

\* on_connection_close, some time after close()
OnConnectionClose(c) ==
    /\ client[c].at = "closing"
    /\ client' = [client EXCEPT ![c] = Reset(c)]
    /\ work' = [work EXCEPT ![c] = {}]
    /\ list' = RemoveAt(list, Position(c))
    /\ free' = <<c>> \o free
    /\ UNCHANGED <<templateVars, left, mainVars, wake, shares, accepted, banVars>>

\* What on_read bans for
Offence(c) ==
    /\ bans' = bans \cup {client[c].miner}
    /\ offended' = offended \cup {client[c].miner}

\* process_request finds no request it knows, or can not send the answer
BadRequest(c) ==
    /\ Up(c) /\ Spend("faults") /\ Offence(c)
    /\ client' = [client EXCEPT ![c].at = "closing"]
    /\ UNCHANGED <<templateVars, mainVars, wake, list, free, work, shares, accepted>>

-----------------------------------------------------------------------------
(* Jobs                                                                     *)

NextJob(c, nonce, template) ==
    [id |-> client[c].jobId + 1, nonce |-> nonce, template |-> template]

\* A job goes to the ring of the client's jobs
Saved(c, nonce, template) ==
    LET job == NextJob(c, nonce, template) IN
    [client[c] EXCEPT !.jobId = job.id, !.jobs = [@ EXCEPT ![job.id % JobsSize] = job]]

\* on_login: a new RPC ID (random, not 0) and a job of the current template
OnLogin(c) ==
    /\ Up(c) /\ Spend("logins")
    /\ extraNonce' = [extraNonce EXCEPT ![2] = @ + 1]
    /\ client' = [client EXCEPT ![c] = [Saved(c, extraNonce, templateId) EXCEPT
                                           !.rpcId = left.logins]]
    /\ work' = [work EXCEPT ![c] = @ \cup {NextJob(c, extraNonce, templateId)}]
    /\ UNCHANGED <<templateVars, main, blobs, wake, list, free, shares, accepted, banVars>>

\* send() fails and process_request with it
OnLoginUnanswered(c) ==
    /\ Up(c) /\ client[c].rpcId = 0 /\ Spend("faults")
    /\ extraNonce' = [extraNonce EXCEPT ![2] = @ + 1]
    /\ client' = [client EXCEPT ![c] = [Saved(c, extraNonce, templateId) EXCEPT
                                           !.rpcId = 1 + left.faults, !.at = "closing"]]
    /\ Offence(c)
    /\ UNCHANGED <<templateVars, main, blobs, wake, list, free, work, shares, accepted>>

\* Connected before c
Older(c) == {list[j] : j \in Position(c) + 1 .. Len(list)}

\* Mutant of Before: the list is walked from its beginning
BeforeFromFront(c, logged) == logged \ (Older(c) \cup {c})

\* The list is walked backwards: who gets an extra nonce before c
Before(c, logged) == Older(c) \cap logged

\* Mutant of Served: as if no one connected since on_block
ServedAll(logged, n) == logged

\* As long as there are extra nonces
Served(logged, n) == {c \in logged : Cardinality(Before(c, logged)) < n}

LoggedIn == {c \in ToSet(list) : client[c].rpcId # 0}

\* The blobs of data are sent, except to those whose send fails; late are those who did
\* not log in for 10 seconds.  A closing client takes an extra nonce, a failed send does not.
SendBlobs(data, fails, late) ==
    LET getting == LoggedIn \ fails
        served == Served(getting, data.n)
        nonce(c) == <<data.range, Cardinality(Before(c, getting))>>
    IN
    /\ fails \subseteq {c \in LoggedIn : Up(c) /\ nonce(c)[2] < data.n}
    /\ late \subseteq {c \in ToSet(list) \ LoggedIn : Up(c)}
    /\ Cardinality(fails \cup late) <= left.faults
    /\ left' = [left EXCEPT !.faults = @ - Cardinality(fails \cup late)]
    /\ bans' = bans \cup {client[c].miner : c \in late}
    /\ offended' = offended \cup {client[c].miner : c \in late}
    /\ client' = [c \in Client |->
           [IF c \in served \cup fails THEN Saved(c, nonce(c), data.template) ELSE client[c]
               EXCEPT !.at = IF c \in fails \cup late THEN "closing"
                             ELSE IF @ = "new" THEN "up" ELSE @]]
    /\ work' = [c \in Client |->
           IF c \in served /\ Up(c)
           THEN work[c] \cup {NextJob(c, nonce(c), data.template)} ELSE work[c]]

\* on_blobs_ready: the latest blobs go to who is logged in
OnBlobsReady ==
    /\ wake /\ wake' = FALSE
    /\ blobs' = <<>>
    /\ \E fails, late \in SUBSET ToSet(list) : SendBlobs(Last(blobs), fails, late)
    /\ UNCHANGED <<templateVars, main, extraNonce, list, free, shares, accepted>>

-----------------------------------------------------------------------------
(* Shares                                                                   *)

JobFound(c, id) == client[c].jobs[id % JobsSize].id = id

Share(c, job, kind) ==
    LET saved == client[c].jobs[job.id % JobsSize] IN
    [client |-> c, miner |-> client[c].miner, resets |-> client[c].resets,
     rpcId |-> client[c].rpcId, kind |-> kind, at |-> "queued", result |-> "none",
     work |-> <<job.template, job.nonce>>,
     template |-> saved.template, nonce |-> saved.nonce, n |-> left.submits]

\* What the miner of c may send: its work on a job it was sent or, if it is not honest,
\* anything for any job
Sends(c) ==
    (work[c] \X {"good", "low"}) \cup
    IF client[c].miner \in Honest THEN {}
    ELSE {[NoJob EXCEPT !.id = i] : i \in 1 .. JobsSize} \X {"weak", "fake"}

\* A share that is not enough for the side chain is judged at once
SubmitLow(c, kind) ==
    LET score == client[c].score + IF kind = "low" THEN 0 ELSE BadPoints
        ban == kind = "weak" /\ score <= BanThreshold
    IN
    /\ bans' = bans \cup IF ban THEN {client[c].miner} ELSE {}
    /\ client' = [client EXCEPT ![c].score = score, ![c].at = IF ban THEN "closing" ELSE @]
    /\ UNCHANGED shares

\* on_submit.  An unknown job or a stale template gets an error for an answer.
OnSubmit(c, job, kind) ==
    /\ Up(c) /\ Spend("submits")
    /\ <<job, kind>> \in Sends(c)
    /\ offended' = offended \cup IF kind \in {"weak", "fake"} THEN {client[c].miner} ELSE {}
    /\ IF ~JobFound(c, job.id) \/ ~Available(client[c].jobs[job.id % JobsSize].template)
       THEN UNCHANGED <<client, shares, bans>>
       ELSE IF kind \in {"low", "weak"} THEN SubmitLow(c, kind)
       ELSE shares' = shares \cup {Share(c, job, kind)} /\ UNCHANGED <<client, bans>>
    /\ UNCHANGED <<templateVars, mainVars, wake, list, free, work, accepted>>

Move(s, at, result) ==
    shares' = (shares \ {s}) \cup {[s EXCEPT !.at = at, !.result = result]}

\* What the hash of a share turns out to be: that of its miner's work, unless it is fake
Judge(s) ==
    IF ~Available(s.template) THEN "stale"
    ELSE IF s.kind = "good" /\ s.work = <<Found(s.template), s.nonce>> THEN "ok" ELSE "invalid"

\* on_share_found, first part: the blob of the template and its hash.  The score goes to
\* the Client, whoever uses it now.
CheckShare(s) ==
    /\ s.at = "queued"
    /\ LET result == Judge(s) IN
       /\ Move(s, IF result = "ok" THEN "checked" ELSE "done", result)
       /\ client' = [client EXCEPT ![s.client].score =
              @ + CASE result = "ok" -> GoodPoints
                    [] result = "invalid" -> BadPoints
                    [] OTHER -> 0]
       /\ accepted' = accepted \cup IF result = "ok" THEN {s.template} ELSE {}
    /\ UNCHANGED <<templateVars, left, mainVars, wake, list, free, work, banVars>>

\* The hasher has no seed for the share
CheckShareFails(s) ==
    /\ s.at = "queued" /\ Spend("faults")
    /\ Move(s, "done", "unchecked")
    /\ UNCHANGED <<templateVars, mainVars, wake, connVars, accepted, banVars>>

\* Second part: the side chain gets it
SubmitShare(s) ==
    /\ s.at = "checked"
    /\ SubmitSidechainBlock(s.template)
    /\ Move(s, "done", s.result)
    /\ UNCHANGED <<templateId, oldTemplates, left, mainVars, wake, connVars, accepted, banVars>>

\* Mutant of SameConnection: the Client is enough
SameConnectionUnchecked(s) == TRUE

SameConnection(s) ==
    client[s.client].resets = s.resets /\ client[s.client].rpcId = s.rpcId

\* on_after_share_found.  If the miner is gone, one bad share is enough to ban it.
AfterShare(s) ==
    /\ s.at = "done"
    /\ shares' = shares \ {s}
    /\ LET c == s.client
           bad == s.result = "invalid"
       IN
       IF bad /\ SameConnection(s) /\ client[c].score <= BanThreshold
       THEN /\ bans' = bans \cup {client[c].miner}
            /\ client' = [client EXCEPT ![c].at = IF @ = "free" THEN @ ELSE "closing"]
       ELSE /\ bans' = bans \cup IF bad /\ ~SameConnection(s) THEN {s.miner} ELSE {}
            /\ UNCHANGED client
    /\ UNCHANGED <<templateVars, left, mainVars, wake, list, free, work, accepted, offended>>

-----------------------------------------------------------------------------
Next ==
    \/ UpdateTemplate \/ OnBlock
    \/ \E m \in Miner : Connect(m)
    \/ \E c \in Client : Disconnect(c) \/ OnConnectionClose(c) \/ BadRequest(c)
    \/ \E c \in Client : OnLogin(c) \/ OnLoginUnanswered(c)
    \/ OnBlobsReady
    \/ \E c \in Client : \E x \in Sends(c) : OnSubmit(c, x[1], x[2])
    \/ \E s \in shares : CheckShare(s) \/ CheckShareFails(s) \/ SubmitShare(s) \/ AfterShare(s)

\* main comes back from on_block, and the loop handles what it is told
Fairness == WF_vars(OnBlock) /\ WF_vars(OnBlobsReady)

Spec == Init /\ [][Next]_vars /\ Fairness

-----------------------------------------------------------------------------
Job == [id : Nat, nonce : Nat \X Nat, template : Nat]

ClientObject ==
    [at : {"free", "new", "up", "closing"}, miner : Miner, resets : Nat, rpcId : Nat, jobId : Nat,
     jobs : [0 .. JobsSize - 1 -> Job], score : Int]

SubmittedShare ==
    [client : Client, miner : Miner, resets : Nat, rpcId : Nat, kind : {"good", "fake"},
     at : {"queued", "checked", "done"},
     result : {"none", "ok", "stale", "invalid", "unchecked"},
     work : Nat \X (Nat \X Nat), template : Nat, nonce : Nat \X Nat, n : Nat]

\* Clients, jobs, shares and templates have their types, and what is counted was made
TypeOK ==
    /\ TemplateTypeOK /\ left \in Budgets
    /\ main \in [at : {"idle", "updated", "counted", "ranged"}, n : Nat]
    /\ extraNonce \in Nat \X Nat
    /\ blobs \in Seq([range : Nat, n : Nat, template : Nat]) /\ wake \in BOOLEAN
    /\ list \in Seq(Client) /\ free \in Seq(Client)
    /\ client \in [Client -> ClientObject] /\ work \in [Client -> SUBSET Job]
    /\ shares \subseteq SubmittedShare /\ accepted \subseteq 1 .. templateId
    /\ bans \subseteq Miner /\ offended \subseteq Miner

\* Connections come and go while on_block counts them, while the blobs wait and while
\* miners log in ("it'll be only new clients left"): no two miners are ever given the
\* same extra nonce of the same template.
UniqueWork ==
    \A c, d \in Client : \A j \in work[c], k \in work[d] :
        j.template = k.template /\ j.nonce = k.nonce => c = d /\ j.id = k.id

\* on_after_share_found compares reset counter and RPC ID: whoever uses the Client of a
\* miner that was banned meanwhile is not banned for it, nor is a miner whose honest work
\* comes late, for a job or a template that is gone.
InnocentNeverBanned == bans \subseteq offended

\* The job ring and the template ring never give back another job or template than the
\* one the miner worked on: an honest share is never found invalid.
HonestWorkIsValid == \A s \in shares : s.miner \in Honest => s.result # "invalid"

\* Reused Clients, jobs and templates are never held against a miner who did the work.
HonestMinersAreSafe == InnocentNeverBanned /\ HonestWorkIsValid

\* When a share is counted as found, the block of its template is in the side chain, unless so
\* many templates came while its hash was calculated that its own is forgotten.  A template is
\* one block, whatever nonces solve it: a second share of the same template is counted too,
\* and submit_sidechain_block drops it because block_seen() knows the first one.
CountedShareReachesChain ==
    \A t \in accepted :
        \/ t \in chain
        \/ t + OldTemplates < templateId
        \/ \E s \in shares : s.template = t /\ s.at = "checked"

\* The rings of BlockTemplate do what TemplateHistory says.
RefinesHistory == History!Spec

LatestJob(c) == CHOOSE j \in work[c] : \A k \in work[c] : k.id <= j.id

\* on_block gives up when nobody is connected, and one uv_async_send may stand for many:
\* in the end every miner that is logged in works on the latest template.
EventuallyOnLatest ==
    <>[](\A c \in Client : Up(c) /\ work[c] # {} => LatestJob(c).template = templateId)

=============================================================================
