------------------------------ MODULE GitRepos ------------------------------
(***************************************************************************)
(* GitRepositoryService and GitAuthService: rows of repositories and the   *)
(* directories of uploaded ones, and the tokens of users.  A request runs  *)
(* until it awaits the database or the body of an upload; other requests   *)
(* run meanwhile, and every await may raise.                               *)
(***************************************************************************)
EXTENDS Naturals, Sequences

CONSTANTS
    RepoUsers, RepoNames,
    RepoCalls,        \* requests, numbered in the order they arrive
    MaxRepoFaults,    \* bound on awaits that raise
    AuthCalls, NoToken

ASSUME TokenAssumption == NoToken \notin AuthCalls

VARIABLES
    repoRows,     \* table git_repositories
    repoDirs,     \* per user and name: what lies in uploads/user/name
    repoCall,     \* per request: what it is about and where it is
    repoTouched,  \* history: users and names whose requests overlapped, or one
                  \* of which raised after it had changed something, or whose
                  \* row was given another name
    repoKept,     \* history: uploads whose row was deleted, not the files
    repoFaults,
    authRows,     \* table git_authorities: the tokens of one user and provider
    authCall,     \* per save: idle, or what it found to do
    authRaced,    \* history: since a deletion with no save on its way, two
                  \* saves overlapped or the look-up of one failed
    authSaved     \* history: the token of the last save, since a deletion

repoVars == <<repoRows, repoDirs, repoCall, repoTouched, repoKept, repoFaults>>
authVars == <<authRows, authCall, authRaced, authSaved>>

Keys == RepoUsers \X RepoNames
NoRepoCall == [at |-> "new"]
Archive(q) == <<q, "archive">>
Files(q) == <<q, "files">>

\* A row that user, with the given name, is about to get from request q.  Only
\* an upload has a directory of its own.
Row(q, user, name, how) == [id |-> q, user |-> user, name |-> name, how |-> how,
                             key |-> <<user, name>>, owns |-> how = "package"]
Rows(how, user, name) == {w \in repoRows : w.user = user /\ w.name = name /\ w.how \in how}

\* A mutant: only uploads are looked for.
TakenBy_Kind(how, user, name) == IF how = "url" THEN Rows({"url"}, user, name) ELSE Rows({how}, user, name)
\* What the check for an existing repository finds: a repository from a URL
\* looks for its provider and organisation too.
TakenBy(how, user, name) ==
    IF how = "url" THEN Rows({"url"}, user, name) ELSE Rows({"url", "package", "path"}, user, name)

Arrives(q) == repoCall[q].at = "new" /\ \A o \in RepoCalls : o < q => repoCall[o].at # "new"
Busy(q, key) == \E o \in RepoCalls \ {q} : repoCall[o].at \notin {"new", "done"} /\ repoCall[o].row.key = key
\* Request q waits, at the given place, with row in hand.
Await(q, row, at) ==
    /\ repoCall' = [repoCall EXCEPT ![q] = [at |-> at, row |-> row]]
    /\ repoTouched' = IF Busy(q, row.key) THEN repoTouched \cup {row.key} ELSE repoTouched
Finish(q) == repoCall' = [repoCall EXCEPT ![q].at = "done"]
Raise(q) == Finish(q) /\ repoFaults < MaxRepoFaults /\ repoFaults' = repoFaults + 1
Touch(key) == repoTouched' = repoTouched \cup {key}
RemoveTree(key) == repoDirs' = [repoDirs EXCEPT ![key] = {}]

RepoInit ==
    /\ repoRows = {} /\ repoTouched = {} /\ repoKept = {} /\ repoFaults = 0
    /\ repoDirs = [k \in Keys |-> {}]
    /\ repoCall = [q \in RepoCalls |-> NoRepoCall]
-----------------------------------------------------------------------------
\* A mutant: the directory is known before the check, so its cleanup runs.
Refuse_Cleans(q, row) == Finish(q) /\ RemoveTree(row.key)
\* The name is taken.  local_path is not bound yet: the handler of an upload
\* raises once more, before its cleanup.
Refuse(q, row) == Finish(q) /\ UNCHANGED repoDirs

\* create_repository_from_url, _from_path: the check, then the row.  An upload
\* first makes its directory and opens the archive there.
Create(q) == \E user \in RepoUsers, name \in RepoNames, how \in {"url", "package", "path"} :
    LET row == Row(q, user, name, how) IN
    /\ Arrives(q)
    /\ UNCHANGED <<repoRows, repoKept, repoFaults>>
    /\ \/ /\ TakenBy(how, user, name) # {}
          /\ Refuse(q, row) /\ UNCHANGED repoTouched
       \/ /\ TakenBy(how, user, name) = {} /\ how = "package"
          /\ repoDirs' = [repoDirs EXCEPT ![row.key] = @ \cup {Archive(q)}]
          /\ Await(q, row, "reading")
       \/ /\ TakenBy(how, user, name) = {} /\ how # "package"
          /\ Await(q, row, "adding") /\ UNCHANGED repoDirs

CleanUp(q) == RemoveTree(repoCall[q].row.key)

\* The body has been read: write the archive, extract, remove the archive.  A
\* damaged archive, every .gz (its target is the directory itself) and an
\* archive another request has removed end in the cleanup.
Unpack(q) ==
    LET key == repoCall[q].row.key IN
    /\ repoCall[q].at = "reading"
    /\ UNCHANGED <<repoRows, repoTouched, repoKept>>
    /\ \/ /\ Archive(q) \in repoDirs[key]
          /\ repoDirs' = [repoDirs EXCEPT ![key] = (@ \ {Archive(q)}) \cup {Files(q)}]
          /\ repoCall' = [repoCall EXCEPT ![q].at = "adding"] /\ UNCHANGED repoFaults
       \/ CleanUp(q) /\ Finish(q) /\ UNCHANGED repoFaults

\* A mutant: an upload that is not committed leaves its files.
Abandon_Leaves(q) == UNCHANGED repoDirs
Abandon(q) == IF repoCall[q].row.how = "package" THEN CleanUp(q) ELSE UNCHANGED repoDirs

\* commit and refresh.  If either raises an upload is cleaned up, also when its
\* row is in the table by then.
AddRow(q) ==
    /\ repoCall[q].at = "adding" /\ UNCHANGED repoKept
    /\ \/ /\ repoRows' = repoRows \cup {repoCall[q].row}
          /\ Finish(q) /\ UNCHANGED <<repoDirs, repoTouched, repoFaults>>
       \/ /\ Raise(q) /\ Abandon(q)
          /\ \/ UNCHANGED <<repoRows, repoTouched>>
             \/ repoRows' = repoRows \cup {repoCall[q].row} /\ Touch(repoCall[q].row.key)
-----------------------------------------------------------------------------
\* update_repository with another URL: name and organisation come from it,
\* nothing is checked, and the directory stays.  A branch is checked out before
\* the commit; if it cannot be, the row is left alone.
BeginUpdate(q) == \E w \in repoRows :
    /\ Arrives(q) /\ Await(q, w, "updating")
    /\ UNCHANGED <<repoRows, repoDirs, repoKept, repoFaults>>
Update(q) ==
    LET w == repoCall[q].row IN
    /\ repoCall[q].at = "updating" /\ UNCHANGED <<repoDirs, repoKept>>
    /\ \/ \E name \in RepoNames :
             /\ w \in repoRows
             /\ repoRows' = (repoRows \ {w}) \cup {[w EXCEPT !.name = name, !.how = "url"]}
             /\ Touch(w.key) /\ Finish(q) /\ UNCHANGED repoFaults
       \/ w \notin repoRows /\ Finish(q) /\ UNCHANGED <<repoRows, repoTouched, repoFaults>>
       \/ Raise(q) /\ UNCHANGED <<repoRows, repoTouched>>

\* delete_repository: read the row, remove the analysis data (a failure is
\* passed over, the CancelledError of a worker it has stopped ends the request),
\* the directory if asked to, and then the row by its id.
BeginDelete(q) == \E w \in repoRows :
    /\ Arrives(q) /\ Await(q, w, "cleaning")
    /\ UNCHANGED <<repoRows, repoDirs, repoKept, repoFaults>>
DeleteFiles(q, local) ==
    LET w == repoCall[q].row IN
    /\ repoCall[q].at = "cleaning" /\ UNCHANGED repoRows
    /\ IF local /\ w.owns THEN RemoveTree(w.key) ELSE UNCHANGED repoDirs
    /\ repoKept' = IF local THEN repoKept ELSE repoKept \cup {w.id}
    /\ \/ repoCall' = [repoCall EXCEPT ![q].at = "deleting"] /\ UNCHANGED <<repoTouched, repoFaults>>
       \/ local /\ w.owns /\ Raise(q) /\ Touch(w.key)
DeleteStops(q) ==
    /\ repoCall[q].at = "cleaning" /\ Finish(q)
    /\ UNCHANGED <<repoRows, repoDirs, repoTouched, repoKept, repoFaults>>
DeleteRow(q) ==
    LET w == repoCall[q].row IN
    /\ repoCall[q].at = "deleting" /\ UNCHANGED <<repoDirs, repoKept>>
    /\ \/ repoRows' = {v \in repoRows : v.id # w.id} /\ Finish(q) /\ UNCHANGED <<repoTouched, repoFaults>>
       \/ Raise(q) /\ Touch(w.key) /\ UNCHANGED repoRows

RepoNext == \E q \in RepoCalls :
    \/ Create(q) \/ Unpack(q) \/ AddRow(q)
    \/ BeginUpdate(q) \/ Update(q)
    \/ BeginDelete(q) \/ (\E local \in BOOLEAN : DeleteFiles(q, local)) \/ DeleteStops(q) \/ DeleteRow(q)
-----------------------------------------------------------------------------
AuthInit ==
    /\ authRows = <<>> /\ authRaced = FALSE /\ authSaved = NoToken
    /\ authCall = [q \in AuthCalls |-> "idle"]

\* get_user_git_auth: more rows than one raise, which it answers with None.
UserAuth == IF Len(authRows) = 1 THEN authRows[1] ELSE NoToken

\* A mutant: every save adds a row.
SaveFinds_Nothing == "insert"
SaveFinds == IF UserAuth = NoToken THEN "insert" ELSE "update"
Saving == {q \in AuthCalls : authCall[q] \in {"insert", "update"}}
\* A look-up whose SELECT fails answers None too: the save goes on to insert.
BeginSave(q) ==
    /\ authCall[q] = "idle" /\ UNCHANGED <<authRows, authSaved>>
    /\ \/ /\ authCall' = [authCall EXCEPT ![q] = SaveFinds]
          /\ authRaced' = (authRaced \/ Saving # {})
       \/ /\ authCall' = [authCall EXCEPT ![q] = "insert"]
          /\ authRaced' = TRUE
\* An update of a row that has been deleted changes nothing, and the refresh
\* of the object raises.  A commit may fail, or raise when it has been made.
EndSave(q) ==
    /\ q \in Saving
    /\ authCall' = [authCall EXCEPT ![q] = "done"] /\ UNCHANGED authRaced
    /\ \/ /\ authCall[q] = "insert"
          /\ authRows' = Append(authRows, q) /\ authSaved' = q
       \/ /\ authCall[q] = "update" /\ authRows # <<>>
          /\ authRows' = [authRows EXCEPT ![1] = q] /\ authSaved' = q
       \/ UNCHANGED <<authRows, authSaved>>
\* A mutant: one of the rows is deleted.
DeleteAuth_One ==
    /\ authRows # <<>> /\ authRows' = Tail(authRows) /\ authSaved' = NoToken
    /\ UNCHANGED authCall
    /\ authRaced' = (authRaced /\ Saving # {})
DeleteAuth ==
    /\ authRows # <<>> /\ authRows' = <<>> /\ authSaved' = NoToken
    /\ UNCHANGED authCall
    /\ authRaced' = (authRaced /\ Saving # {})

AuthNext == (\E q \in AuthCalls : BeginSave(q) \/ EndSave(q)) \/ DeleteAuth
RepoSpec == RepoInit /\ [][RepoNext]_repoVars
AuthSpec == AuthInit /\ [][AuthNext]_authVars
-----------------------------------------------------------------------------
\* Where requests for one name of a user did not overlap, none raised half-way
\* and no row was renamed: a row of an upload has its files, and what else lies
\* in its directory was left by rows that were deleted without their files.  A
\* refused, damaged or failed upload in between takes nothing away and leaves
\* nothing (git_repo_service.py:95-170, 410-445).
UploadsKept ==
    \A key \in Keys \ repoTouched :
        LET owned == {w.id : w \in {v \in repoRows : v.owns /\ v.key = key}}
            idle == \A q \in RepoCalls : repoCall[q].at \notin {"new", "done"} => repoCall[q].row.key # key
        IN  idle => /\ \A id \in owned : Files(id) \in repoDirs[key]
                    /\ \A f \in repoDirs[key] : f[2] = "files" /\ f[1] \in owned \cup repoKept

\* Two rows of a user with one name, from an upload or from a path, come from
\* overlapping requests (git_repo_service.py:107-115, 249-257).
NamesUnique ==
    \A v, w \in repoRows :
        v # w /\ v.key = w.key /\ {v.how, w.how} \subseteq {"package", "path"} => v.key \in repoTouched

\* The token found is the last one saved: no second row hides it, unless saves
\* of the user for the provider overlapped or the look-up of one failed, and a
\* deletion that meets no save on its way ends that (git_auth_service.py:14-103).
TokenFound == ~authRaced => UserAuth = authSaved

ReposSound == UploadsKept /\ NamesUnique
=============================================================================
