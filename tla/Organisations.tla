---------------------------- MODULE Organisations ----------------------------
(***************************************************************************)
(* Churches: how they register under a join slug, and how their logos are  *)
(* kept.  The slug is looked for with one SELECT per candidate and         *)
(* inserted later, by a transaction; a logo is uploaded to Cloudinary      *)
(* first, the row is made to point at it, and what it replaced is deleted  *)
(* last: three systems' worth of state and no transaction across them.     *)
(*                                                                         *)
(* Slugs are the values toSlug and its suffixes give, in the order they    *)
(* are tried.  The rest of what registration inserts is in the same        *)
(* transaction; its code by mail is SignIn.tla's.  Changing the name of a  *)
(* church changes nothing else: its slug was printed.  Cloudinary is       *)
(* external: it may fail before or after it has done what it was asked.    *)
(***************************************************************************)
EXTENDS Naturals, Sequences, FiniteSets

CONSTANTS
    Churches,       \* those that want to register
    Requests,
    ChurchOf,       \* the church each request is about
    Uploaders,      \* the requests among them that may come with a file
    Slugs, Candidates,  \* the slugs tried for the name of a church, in order
    Assets,         \* what Cloudinary may store, by public_id
    NoSlug, NoAsset,
    MaxFaults       \* bound: failing calls and overlapping requests

ASSUME OrganisationsAssumption ==
    /\ ChurchOf \in [Requests -> Churches]
    /\ Uploaders \subseteq Requests
    /\ Candidates \in [Churches -> Seq(Slugs)]
    /\ NoSlug \notin Slugs /\ NoAsset \notin Assets
    /\ MaxFaults \in Nat

VARIABLES
    slug, logo,     \* organisations.slug, logo_url (NoSlug: no row)
    stored,         \* what Cloudinary has
    pc,
    new,            \* the asset a request has uploaded
    old,            \* previousLogoUrl
    tried,          \* candidate slugs found taken
    unanswered,     \* churches with a write that was applied and reported as failed
    faults

vars == <<slug, logo, stored, pc, new, old, tried, unanswered, faults>>
table == <<slug, logo>>

Taken(s) == \E c \in Churches : slug[c] = s
Registered(c) == slug[c] # NoSlug
Mentioned(a) ==
    \/ \E c \in Churches : logo[c] = a
    \/ \E q \in Requests : a \in {new[q], old[q]}
Unused == {a \in Assets \ stored : ~Mentioned(a)}

Init ==
    /\ slug = [c \in Churches |-> NoSlug]
    /\ logo = [c \in Churches |-> NoAsset]
    /\ stored = {}
    /\ pc = [q \in Requests |-> "idle"]
    /\ new = [q \in Requests |-> NoAsset]
    /\ old = [q \in Requests |-> NoAsset]
    /\ tried = [q \in Requests |-> 0]
    /\ unanswered = {}
    /\ faults = 0

Fault == faults < MaxFaults /\ faults' = faults + 1
Goto(q, s) == pc' = [pc EXCEPT ![q] = s]

Done(q) ==
    /\ Goto(q, "idle")
    /\ new' = [new EXCEPT ![q] = NoAsset]
    /\ old' = [old EXCEPT ![q] = NoAsset]
    /\ tried' = [tried EXCEPT ![q] = 0]

Alone(q) == \A r \in Requests : ChurchOf[r] = ChurchOf[q] => pc[r] = "idle"

-----------------------------------------------------------------------------
\* POST /orgs, with a logo or without; whoever registers waits for the answer.
Register(q) ==
    /\ ~Registered(ChurchOf[q]) /\ Alone(q)
    /\ \/ q \in Uploaders /\ Goto(q, "upload")
       \/ Goto(q, "probe")
    /\ UNCHANGED <<table, stored, new, old, tried, unanswered, faults>>

\* PUT /orgs/:id/logo, or PATCH with a file: up to getById.
ReplaceLogo(q) ==
    /\ q \in Uploaders
    /\ Registered(ChurchOf[q]) /\ pc[q] = "idle"
    /\ old' = [old EXCEPT ![q] = logo[ChurchOf[q]]]
    /\ Goto(q, "upload")
    /\ IF Alone(q) THEN UNCHANGED faults ELSE Fault
    /\ UNCHANGED <<table, stored, new, tried, unanswered>>

\* Which public_id Cloudinary makes up does not matter.
NewAsset == CHOOSE a \in Unused : TRUE

\* Mutant: the logo that is replaced is deleted before the row points elsewhere.
UploadThenDelete(q) ==
    /\ pc[q] = "upload" /\ Unused # {}
    /\ stored' = (stored \cup {NewAsset}) \ {old[q]}
    /\ new' = [new EXCEPT ![q] = NewAsset]
    /\ Goto(q, IF Registered(ChurchOf[q]) THEN "update" ELSE "probe")
    /\ UNCHANGED <<table, old, tried, unanswered, faults>>

Upload(q) ==
    /\ pc[q] = "upload" /\ Unused # {}
    /\ stored' = stored \cup {NewAsset}
    /\ new' = [new EXCEPT ![q] = NewAsset]
    /\ Goto(q, IF Registered(ChurchOf[q]) THEN "update" ELSE "probe")
    /\ UNCHANGED <<table, old, tried, unanswered, faults>>

\* Mutant: toSlug(name) without looking whether it is taken.
ProbeNothing(q) ==
    /\ pc[q] = "probe"
    /\ Goto(q, "insert")
    /\ UNCHANGED <<table, stored, new, old, tried, unanswered, faults>>

\* generateUniqueSlug, one SELECT.
Probe(q) ==
    /\ pc[q] = "probe"
    /\ tried[q] < Len(Candidates[ChurchOf[q]])
    /\ IF Taken(Candidates[ChurchOf[q]][tried[q] + 1])
       THEN tried' = [tried EXCEPT ![q] = @ + 1] /\ UNCHANGED pc
       ELSE Goto(q, "insert") /\ UNCHANGED tried
    /\ UNCHANGED <<table, stored, new, old, unanswered, faults>>

Inserted(q) ==
    LET c == ChurchOf[q]  s == Candidates[c][tried[q] + 1] IN
    /\ ~Taken(s)
    /\ slug' = [slug EXCEPT ![c] = s]
    /\ logo' = [logo EXCEPT ![c] = new[q]]

Pointed(q) ==
    /\ logo' = [logo EXCEPT ![ChurchOf[q]] = new[q]]
    /\ UNCHANGED slug

\* The transaction of registration: another church may have the slug by now.
Insert(q) ==
    /\ pc[q] = "insert"
    /\ \/ Inserted(q) /\ Done(q)
       \/ /\ Taken(Candidates[ChurchOf[q]][tried[q] + 1])
          /\ Goto(q, "rollback")
          /\ UNCHANGED <<table, new, old, tried>>
    /\ UNCHANGED <<stored, unanswered, faults>>

\* orgRepository.update, then deleteOldLogo if there is something to delete.
Update(q) ==
    /\ pc[q] = "update"
    /\ Pointed(q)
    /\ Goto(q, "cleanup")
    /\ UNCHANGED <<stored, new, old, tried, unanswered, faults>>

Cleanup(q) ==
    /\ pc[q] = "cleanup"
    /\ stored' = stored \ {old[q]}
    /\ Done(q)
    /\ UNCHANGED <<table, unanswered, faults>>

\* Mutant: no catch block.
RollbackNothing(q) ==
    /\ pc[q] = "rollback"
    /\ Done(q)
    /\ UNCHANGED <<table, stored, unanswered, faults>>

\* The catch block: the upload of a request that failed is deleted.
Rollback(q) ==
    /\ pc[q] = "rollback"
    /\ stored' = stored \ {new[q]}
    /\ Done(q)
    /\ UNCHANGED <<table, unanswered, faults>>

-----------------------------------------------------------------------------
\* The database reports an error, and may have done what it was asked.
WriteFails(q) ==
    /\ pc[q] \in {"insert", "update"}
    /\ Fault
    /\ \/ UNCHANGED <<table, unanswered>>
       \/ /\ IF pc[q] = "insert" THEN Inserted(q) ELSE Pointed(q)
          /\ unanswered' = unanswered \cup {ChurchOf[q]}
    /\ Goto(q, "rollback")
    /\ UNCHANGED <<stored, new, old, tried>>

\* Any other call fails, before or after Cloudinary has done it, or the process
\* dies: nothing is tried again.
Fail(q) ==
    /\ pc[q] # "idle"
    /\ Fault
    /\ \/ UNCHANGED stored
       \/ pc[q] = "upload" /\ Unused # {} /\ stored' = stored \cup {NewAsset}
       \/ pc[q] = "cleanup" /\ stored' = stored \ {old[q]}
       \/ pc[q] = "rollback" /\ stored' = stored \ {new[q]}
    /\ Done(q)
    /\ UNCHANGED <<table, unanswered>>

Serve(q) ==
    Upload(q) \/ Probe(q) \/ Insert(q) \/ Update(q) \/ Cleanup(q) \/ Rollback(q)

Next == \E q \in Requests :
    Register(q) \/ ReplaceLogo(q) \/ Serve(q) \/ WriteFails(q) \/ Fail(q)

Spec == Init /\ [][Next]_vars

\* Requests run to their end, and whoever could not register tries again.
FairSpec ==
    /\ Spec
    /\ \A q \in Requests : WF_vars(Serve(q))
    /\ \A c \in Churches : WF_vars(\E q \in Requests : ChurchOf[q] = c /\ Register(q))
-----------------------------------------------------------------------------
TypeOK ==
    /\ slug \in [Churches -> Slugs \cup {NoSlug}]
    /\ logo \in [Churches -> Assets \cup {NoAsset}]
    /\ stored \subseteq Assets
    /\ pc \in [Requests ->
                {"idle", "upload", "probe", "insert", "update", "cleanup", "rollback"}]
    /\ new \in [Requests -> Assets \cup {NoAsset}]
    /\ old \in [Requests -> Assets \cup {NoAsset}]
    /\ tried \in [Requests -> Nat]
    /\ unanswered \subseteq Churches
    /\ faults \in 0 .. MaxFaults

\* "Never a broken logo" (org.controller.ts, 17-18), however replacements
\* overlap and whatever fails, but for one case: a write that was applied and
\* reported as failed, after which the catch block deletes the logo in use.
BrokenOnlyUnanswered ==
    \A c \in Churches : logo[c] \notin stored \cup {NoAsset} => c \in unanswered

\* Files that no church and no request needs any more pile up no faster than
\* calls fail and replacements overlap: each such event strands one at most.
Needed(a) ==
    \/ \E c \in Churches : logo[c] = a
    \/ \E q \in Requests : new[q] = a \/ old[q] = a
StraysPaidFor == Cardinality({a \in stored : ~Needed(a)}) <= faults

\* Churches of one name that register at once get in each other's way, but
\* each that tries again is registered in the end.
EveryoneRegisters == \A c \in Churches : <>Registered(c)
=============================================================================
