------------------------------ MODULE WorkProofs ------------------------------
(***************************************************************************)
(* Proofs about what Work composes.  The stores: the slices of a source    *)
(* file, the tokens of git users, the repositories, the vectors and the    *)
(* graph of code, the connection to the search engine, the object stores   *)
(* and the records of the vector stores.  The models: requests to chat     *)
(* models, embeddings and ranks, and the factory.  Each section has the    *)
(* inductive invariant of one component; the components share no variable, *)
(* and the last theorem of each part is about its components together.     *)
(***************************************************************************)
EXTENDS Work, SequenceTheorems, FiniteSetTheorems, WellFoundedInduction, TLAPS

\* A set of numbers has a least one.
LEMMA NatMin == ASSUME NEW T, T \subseteq Nat, T # {} PROVE \E x \in T : \A y \in T : x <= y
  <1> DEFINE R == {p \in Nat \X Nat : p[1] < p[2]}
  <1>1. IsWellFoundedOn(R, Nat)
    <2>1. R = OpToRel(<, Nat)
      BY DEF OpToRel
    <2> QED BY <2>1, NatLessThanWellFounded
  <1>2. PICK x \in T : \A y \in T : ~ (<<y, x>> \in R)
    <2> HIDE DEF R
    <2> QED BY <1>1, WFMin
  <1>3. \A y \in T : ~ (y < x)
    BY <1>2
  <1> QED BY <1>3

-----------------------------------------------------------------------------
(***************************************************************************)
(* The slices of a source file leave nothing out and go on, whatever the   *)
(* file and the configured numbers of lines.                               *)
(***************************************************************************)

ChunkTypeOK ==
    /\ source \in Seq(LineKinds) /\ cutStart \in Nat /\ cutEnd \in Nat
    /\ cuts \in Seq([start : Nat, end : Nat, dropped : BOOLEAN]) /\ cutDone \in BOOLEAN

\* The chunk that is being cut is at least as long as it was to be.
CutInside ==
    cutEnd > 0 =>
        /\ ~cutDone /\ cutStart < cutEnd /\ cutEnd <= Len(source)
        /\ cutEnd - cutStart <= Higher(MaxLines, TargetLines)
        /\ Lower(cutStart + TargetLines, Len(source)) <= cutEnd

\* Where it begins: behind the start of the chunk before it, and so that even
\* the shortest chunk from there ends behind that chunk.
StartBehind ==
    /\ cuts = <<>> => cutStart = 0 /\ ~cutDone
    /\ cuts # <<>> /\ ~cutDone =>
        LET last == cuts[Len(cuts)] IN
        /\ last.start < cutStart /\ cutStart <= last.end
        /\ last.end < Lower(cutStart + TargetLines, Len(source))
        /\ last.end - cutStart <= Overlap

ChunkInv == ChunkTypeOK /\ ChunksSound /\ CutInside /\ StartBehind

\* The configured numbers.
LEMMA Numbers == TargetLines \in Nat \ {0} /\ OverlapLines \in Nat /\ MaxLines \in Nat \ {0}
BY ChunkAssumption DEF ChunkAssumption

\* The overlap that is used is shorter than a chunk, also where a longer one is
\* configured.
LEMMA OverlapShort == Overlap \in Nat /\ Overlap < TargetLines
BY Numbers, SMT DEF Overlap, Higher

LEMMA ChunkInitInv == ChunkInit => ChunkInv
<1> SUFFICES ASSUME ChunkInit PROVE ChunkInv
    OBVIOUS
<1>1. ChunkTypeOK
    <2>1. source \in Seq(LineKinds)
        BY ChunkAssumption DEF ChunkAssumption, ChunkInit
    <2>2. cuts \in Seq([start : Nat, end : Nat, dropped : BOOLEAN])
        BY DEF ChunkInit
    <2> QED BY <2>1, <2>2 DEF ChunkInit, ChunkTypeOK
<1>2. ChunksSound /\ CutInside /\ StartBehind
    BY DEF ChunkInit, ChunksSound, CutInside, StartBehind
<1> QED BY <1>1, <1>2 DEF ChunkInv

LEMMA ChunkBegins == ChunkInv /\ BeginChunk => ChunkInv'
<1> SUFFICES ASSUME ChunkInv, BeginChunk PROVE ChunkInv'
    OBVIOUS
<1>1. cutEnd' = Lower(cutStart + TargetLines, Len(source)) /\ UNCHANGED <<source, cutStart, cuts, cutDone>>
    BY DEF BeginChunk
<1>2. cutStart \in Nat /\ Len(source) \in Nat /\ cutStart < Len(source) /\ ~cutDone
    BY DEF BeginChunk, ChunkInv, ChunkTypeOK
<1>3. cutEnd' \in Nat /\ CutInside'
    BY <1>1, <1>2, Numbers, SMT DEF CutInside, Lower, Higher
<1>4. ChunkTypeOK'
    BY <1>1, <1>3 DEF ChunkInv, ChunkTypeOK
<1>5. ChunksSound' /\ StartBehind'
    BY <1>1 DEF ChunkInv, ChunksSound, StartBehind
<1> QED BY <1>3, <1>4, <1>5 DEF ChunkInv

LEMMA ChunkGrows == ChunkInv /\ (ExtendByOne \/ ExtendAfterColon) => ChunkInv'
<1> SUFFICES ASSUME ChunkInv, ExtendByOne \/ ExtendAfterColon PROVE ChunkInv'
    OBVIOUS
<1>1. UNCHANGED <<source, cutStart, cuts, cutDone>> /\ Cutting
    BY DEF ExtendByOne, ExtendAfterColon
<1>2. cutStart \in Nat /\ cutEnd \in Nat /\ Len(source) \in Nat
    BY DEF ChunkInv, ChunkTypeOK
<1>3. cutEnd' \in cutEnd + 1 .. LastEnd
    BY <1>1, <1>2, Numbers, SMT DEF ExtendByOne, ExtendAfterColon, Cutting, LastEnd, Lower
<1>4. cutEnd' \in Nat /\ CutInside'
    <2>1. /\ cutEnd > 0 /\ ~cutDone /\ cutStart < cutEnd
          /\ Lower(cutStart + TargetLines, Len(source)) <= cutEnd
        BY <1>1 DEF ChunkInv, CutInside, Cutting
    <2>2. /\ cutEnd' \in Nat /\ cutEnd < cutEnd' /\ cutEnd' <= Len(source)
          /\ cutEnd' - cutStart <= Higher(MaxLines, TargetLines)
        <3>1. cutEnd' \in Nat /\ cutEnd < cutEnd' /\ cutEnd' <= LastEnd
            <4>1. LastEnd \in Nat
                BY <1>2, Numbers, SMT DEF LastEnd, Lower
            <4> QED BY <4>1, <1>2, <1>3
        <3>2. cutEnd' <= Len(source) /\ cutEnd' <= cutStart + MaxLines
            BY <3>1, <1>2, Numbers, SMT DEF LastEnd, Lower
        <3>3. Higher(MaxLines, TargetLines) \in Nat /\ MaxLines <= Higher(MaxLines, TargetLines)
            BY Numbers, SMT DEF Higher
        <3>4. cutEnd' - cutStart <= Higher(MaxLines, TargetLines)
            BY <3>1, <3>2, <3>3, <1>2, Numbers, SMT
        <3> QED BY <3>1, <3>2, <3>4
    <2>3. Lower(cutStart + TargetLines, Len(source)) \in Nat
        BY <1>2, Numbers, SMT DEF Lower
    <2>4. cutStart < cutEnd' /\ Lower(cutStart + TargetLines, Len(source)) <= cutEnd'
        BY <2>1, <2>2, <2>3, <1>2, SMT
    <2> QED BY <2>1, <2>2, <2>4, <1>1 DEF CutInside
<1>5. ChunkTypeOK'
    BY <1>1, <1>4 DEF ChunkInv, ChunkTypeOK
<1>6. ChunksSound' /\ StartBehind'
    BY <1>1 DEF ChunkInv, ChunksSound, StartBehind
<1> QED BY <1>4, <1>5, <1>6 DEF ChunkInv

LEMMA ChunkEnds == ChunkInv /\ EndChunk => ChunkInv'
<1> SUFFICES ASSUME ChunkInv, EndChunk PROVE ChunkInv'
    OBVIOUS
<1> DEFINE c == [start |-> cutStart, end |-> cutEnd, dropped |-> Dropped(cutStart, cutEnd)]
           n == Len(cuts)
<1>1. cuts' = Append(cuts, c) /\ cutEnd' = 0 /\ source' = source /\ cutEnd > 0
    BY DEF EndChunk
<1>2. /\ cutStart \in Nat /\ cutEnd \in Nat /\ Len(source) \in Nat
      /\ cuts \in Seq([start : Nat, end : Nat, dropped : BOOLEAN]) /\ n \in Nat
    BY DEF ChunkInv, ChunkTypeOK
<1>3. c \in [start : Nat, end : Nat, dropped : BOOLEAN]
    BY <1>2 DEF Dropped
<1>4. c.start = cutStart /\ c.end = cutEnd
    OBVIOUS
<1> HIDE DEF c
<1>5. Len(cuts') = n + 1 /\ cuts'[n + 1] = c /\ \A k \in 1 .. n : cuts'[k] = cuts[k]
    BY <1>1, <1>2, <1>3
<1>6. ~cutDone /\ cutStart < cutEnd /\ cutEnd <= Len(source)
      /\ cutEnd - cutStart <= Higher(MaxLines, TargetLines)
      /\ Lower(cutStart + TargetLines, Len(source)) <= cutEnd
    BY <1>1 DEF ChunkInv, CutInside
<1>7. IF cutEnd >= Len(source) THEN cutDone' = TRUE /\ cutStart' = cutStart
      ELSE cutStart' = Higher(cutEnd - Overlap, cutStart + 1) /\ cutDone' = cutDone
    BY DEF EndChunk, Step
<1>8. ChunkTypeOK'
    <2>1. cutStart' \in Nat /\ cutDone' \in BOOLEAN
        <3>1. cutDone \in BOOLEAN
            BY DEF ChunkInv, ChunkTypeOK
        <3>2. cutStart' \in Nat
            BY <1>2, <1>6, <1>7, OverlapShort, SMT DEF Higher
        <3> QED BY <3>1, <3>2, <1>7
    <2>2. cuts' \in Seq([start : Nat, end : Nat, dropped : BOOLEAN])
        BY <1>1, <1>2, <1>3
    <2> QED BY <2>1, <2>2, <1>1 DEF ChunkInv, ChunkTypeOK
<1>9. cuts' # <<>>
    BY <1>5, <1>2, SMT
<1>10. n > 0 => /\ cuts[n].start < cutStart /\ cutStart <= cuts[n].end
                /\ cuts[n].end < Lower(cutStart + TargetLines, Len(source))
                /\ cuts[n].end - cutStart <= Overlap
    BY <1>2, <1>6 DEF ChunkInv, StartBehind
<1>11. n = 0 => cutStart = 0
    <2>1. n = 0 => cuts = <<>>
        BY <1>2
    <2> QED BY <2>1 DEF ChunkInv, StartBehind
<1>12. ChunksSound'
    <2>1. \A k \in 1 .. n + 1 :
            /\ cuts'[k].start < cuts'[k].end /\ cuts'[k].end <= Len(source)
            /\ cuts'[k].end - cuts'[k].start <= Higher(MaxLines, TargetLines)
        <3>1. \A k \in 1 .. n : /\ cuts[k].start < cuts[k].end /\ cuts[k].end <= Len(source)
                                /\ cuts[k].end - cuts[k].start <= Higher(MaxLines, TargetLines)
            BY DEF ChunkInv, ChunksSound
        <3> SUFFICES ASSUME NEW k \in 1 .. n + 1
                     PROVE /\ cuts'[k].start < cuts'[k].end /\ cuts'[k].end <= Len(source)
                           /\ cuts'[k].end - cuts'[k].start <= Higher(MaxLines, TargetLines)
            OBVIOUS
        <3>2. CASE k \in 1 .. n
            BY <3>1, <3>2, <1>5
        <3>3. CASE k = n + 1
            BY <3>3, <1>4, <1>5, <1>6
        <3> QED BY <3>2, <3>3, <1>2
    <2>2. cuts'[1].start = 0
        <3>1. n > 0 => cuts[1].start = 0
            BY <1>2 DEF ChunkInv, ChunksSound
        <3>2. CASE n = 0
            <4>1. cuts'[n + 1].start = cutStart
                BY ONLY <1>4, <1>5
            <4>2. cuts'[0 + 1].start = 0
                BY ONLY <4>1, <3>2, <1>11
            <4> QED BY ONLY <4>2
        <3>3. CASE n > 0
            <4>1. 1 \in 1 .. n
                BY ONLY <3>3, <1>2
            <4>2. cuts'[1] = cuts[1]
                BY ONLY <4>1, <1>5
            <4> QED BY ONLY <4>2, <3>1, <3>3
        <3> QED BY ONLY <3>2, <3>3, <1>2
    <2>3. \A k \in 1 .. n :
            /\ cuts'[k].start < cuts'[k + 1].start /\ cuts'[k + 1].start <= cuts'[k].end
            /\ cuts'[k].end < cuts'[k + 1].end
            /\ cuts'[k].end - cuts'[k + 1].start <= Overlap
        <3> SUFFICES ASSUME NEW k \in 1 .. n
                     PROVE /\ cuts'[k].start < cuts'[k + 1].start /\ cuts'[k + 1].start <= cuts'[k].end
                           /\ cuts'[k].end < cuts'[k + 1].end
                           /\ cuts'[k].end - cuts'[k + 1].start <= Overlap
            OBVIOUS
        <3>1. CASE k < n
            <4>1. k \in 1 .. n - 1 /\ k + 1 \in 1 .. n
                BY <3>1, <1>2
            <4> QED BY <4>1, <1>5 DEF ChunkInv, ChunksSound
        <3>2. CASE k = n
            <4>1. cuts[n] \in [start : Nat, end : Nat, dropped : BOOLEAN]
                <5>1. n \in 1 .. Len(cuts)
                    BY <3>2, <1>2
                <5> QED BY <5>1, <1>2, ElementOfSeq
            <4>2. Lower(cutStart + TargetLines, Len(source)) \in Nat
                BY <1>2, Numbers, SMT DEF Lower
            <4>3. cuts'[k] = cuts[n] /\ cuts'[k + 1] = c
                BY <1>5, <3>2
            <4>4. n > 0
                BY <3>2, <1>2
            <4> QED BY ONLY <4>1, <4>2, <4>3, <4>4, <1>2, <1>4, <1>6, <1>10
        <3> QED BY <3>1, <3>2, <1>2
    <2>4. cutDone' => cuts'[Len(cuts')].end = Len(source)
        <3>1. cutDone' => cutEnd >= Len(source)
            BY <1>6, <1>7
        <3>2. cutDone' => cutEnd = Len(source)
            BY <3>1, <1>2, <1>6
        <3> QED BY <3>2, <1>4, <1>5
    <2>5. Len(cuts') - 1 = n
        BY <1>5, <1>2
    <2> QED BY <2>1, <2>2, <2>3, <2>4, <2>5, <1>1, <1>5, <1>9 DEF ChunksSound
<1>13. CutInside'
    BY <1>1 DEF CutInside
<1>14. StartBehind'
    <2>1. ASSUME ~cutDone'
          PROVE /\ cutStart < cutStart' /\ cutStart' <= cutEnd
                /\ cutEnd < Lower(cutStart' + TargetLines, Len(source))
                /\ cutEnd - cutStart' <= Overlap
        <3>1. cutEnd < Len(source) /\ cutStart' = Higher(cutEnd - Overlap, cutStart + 1)
            BY <2>1, <1>2, <1>7
        <3> QED BY <3>1, <1>2, <1>6, OverlapShort, Numbers, SMT DEF Higher, Lower
    <2> QED BY <2>1, <1>1, <1>4, <1>5, <1>9 DEF StartBehind
<1> QED BY <1>8, <1>12, <1>13, <1>14 DEF ChunkInv

\* Every chunk of every file, for all numbers of lines that can be configured,
\* begins behind the one before it, leaves no line between them, and the last
\* one ends with the file (_slice_source_text).
THEOREM ChunksAreSound == ChunkSpec => []ChunksSound
<1>1. ChunkInv /\ [ChunkNext]_chunkVars => ChunkInv'
    <2> SUFFICES ASSUME ChunkInv, [ChunkNext]_chunkVars PROVE ChunkInv'
        OBVIOUS
    <2>1. CASE UNCHANGED chunkVars
        BY <2>1 DEF chunkVars, ChunkInv, ChunkTypeOK, ChunksSound, CutInside, StartBehind
    <2> QED BY <2>1, ChunkBegins, ChunkGrows, ChunkEnds DEF ChunkNext
<1>2. ChunkInv => ChunksSound
    BY DEF ChunkInv
<1> QED BY <1>1, <1>2, ChunkInitInv, PTL DEF ChunkSpec

-----------------------------------------------------------------------------
(***************************************************************************)
(* The tokens of a user, for any number of saves and deletions.            *)
(***************************************************************************)

\* The rows of a user and provider, and what a save of a token found to do.
AuthTypeOK ==
    /\ authRows \in Seq(AuthCalls)
    /\ authCall \in [AuthCalls -> {"idle", "insert", "update", "done"}]
    /\ authRaced \in BOOLEAN

\* While saves neither overlap nor miss a row there is one row at most, and a
\* save that is about to insert found none.
OneToken == ~authRaced =>
    /\ Len(authRows) <= 1
    /\ \A q \in AuthCalls : authCall[q] = "insert" => authRows = <<>>
    /\ \A q, o \in AuthCalls : {authCall[q], authCall[o]} \subseteq {"insert", "update"} => q = o

TokenInv == AuthTypeOK /\ OneToken /\ TokenFound

\* The row that is found holds the token of the save that wrote it last.
LEMMA FoundToken == ASSUME AuthTypeOK
    PROVE /\ UserAuth = NoToken <=> Len(authRows) # 1
          /\ Len(authRows) = 1 => UserAuth = authRows[1]
BY TokenAssumption DEF AuthTypeOK, UserAuth, TokenAssumption

LEMMA SaveBegins == ASSUME TokenInv, NEW q \in AuthCalls, BeginSave(q) PROVE TokenInv'
<1>1. AuthTypeOK' /\ authRows' = authRows /\ authSaved' = authSaved
  BY DEF TokenInv, AuthTypeOK, BeginSave, SaveFinds
<1>2. TokenFound'
  BY <1>1 DEF TokenInv, TokenFound, BeginSave, UserAuth
<1>3. ASSUME ~authRaced' PROVE OneToken'
  <2>1. ~authRaced /\ \A o \in AuthCalls : authCall[o] \notin {"insert", "update"}
    BY <1>3 DEF BeginSave, Saving
  <2>2. Len(authRows) <= 1
    BY <2>1 DEF TokenInv, OneToken
  <2>3. Len(authRows) \in Nat /\ (Len(authRows) = 0 => authRows = <<>>)
    BY EmptySeq DEF TokenInv, AuthTypeOK
  <2>4. authCall[q] = "idle" /\ authCall' = [authCall EXCEPT ![q] = SaveFinds]
    BY <1>3 DEF BeginSave
  <2>5. SaveFinds = "insert" => authRows = <<>>
    <3>1. SaveFinds = "insert" => Len(authRows) # 1
      BY FoundToken DEF TokenInv, SaveFinds
    <3>2. \A n \in Nat : n <= 1 /\ n # 1 => n = 0
      OBVIOUS
    <3> QED BY ONLY <2>2, <2>3, <3>1, <3>2
  <2> QED BY <1>1, <2>1, <2>2, <2>4, <2>5 DEF TokenInv, AuthTypeOK, OneToken
<1> QED BY <1>1, <1>2, <1>3 DEF TokenInv, OneToken

LEMMA SaveEnds == ASSUME TokenInv, NEW q \in AuthCalls, EndSave(q) PROVE TokenInv'
<1>1. /\ authCall[q] \in {"insert", "update"} /\ authRaced' = authRaced
      /\ authCall' = [authCall EXCEPT ![q] = "done"]
  BY DEF TokenInv, AuthTypeOK, EndSave, Saving
<1>2. \A o \in AuthCalls : authCall'[o] = IF o = q THEN "done" ELSE authCall[o]
  BY <1>1 DEF TokenInv, AuthTypeOK
<1>3. CASE authCall[q] = "insert" /\ authRows' = Append(authRows, q) /\ authSaved' = q
  <2>1. AuthTypeOK'
    BY <1>1, <1>3, AppendProperties DEF TokenInv, AuthTypeOK
  <2>2. ~authRaced => authRows' = <<q>>
    <3>1. ~authRaced => authRows = <<>>
      BY <1>3 DEF TokenInv, OneToken
    <3>2. Append(<<>>, q) = <<q>>
      OBVIOUS
    <3> QED BY <1>3, <3>1, <3>2, Zenon
  <2>3. ~authRaced => Len(authRows') = 1 /\ authRows'[1] = q
    BY <2>2
  <2>4. TokenFound'
    BY <1>1, <1>3, <2>3 DEF TokenFound, UserAuth
  <2>5. OneToken'
    BY <1>1, <1>2, <1>3, <2>3 DEF TokenInv, OneToken
  <2> QED BY <2>1, <2>4, <2>5 DEF TokenInv
<1>4. CASE authCall[q] = "update" /\ authRows # <<>> /\ authRows' = [authRows EXCEPT ![1] = q] /\ authSaved' = q
  <2>1. Len(authRows) \in Nat /\ Len(authRows) # 0
    BY <1>4, EmptySeq DEF TokenInv, AuthTypeOK
  <2>2. 1 \in 1 .. Len(authRows)
    BY <2>1
  <2>3. authRows' \in Seq(AuthCalls) /\ Len(authRows') = Len(authRows) /\ authRows'[1] = q
    BY <1>4, <2>2, ExceptSeq DEF TokenInv, AuthTypeOK
  <2>4. AuthTypeOK'
    BY <1>1, <2>3 DEF TokenInv, AuthTypeOK
  <2>5. ~authRaced => Len(authRows') = 1
    BY <2>1, <2>3 DEF TokenInv, OneToken
  <2>6. TokenFound'
    BY <1>1, <1>4, <2>3, <2>5 DEF TokenFound, UserAuth
  <2>7. OneToken'
    BY <1>1, <1>2, <1>4, <2>5 DEF TokenInv, OneToken
  <2> QED BY <2>4, <2>6, <2>7 DEF TokenInv
<1>5. CASE UNCHANGED <<authRows, authSaved>>
  BY <1>1, <1>2, <1>5 DEF TokenInv, AuthTypeOK, OneToken, TokenFound, UserAuth
<1> QED BY <1>3, <1>4, <1>5 DEF EndSave

\* For any number of saves and deletions, with failing commits: the token found is
\* the last one saved, as long as saves do not overlap and the look-up of none
\* fails (save_git_auth, get_user_git_auth, delete_git_auth).
THEOREM TokensAreFound == AuthSpec => []TokenFound
<1>1. AuthInit => TokenInv
  <2> SUFFICES ASSUME AuthInit PROVE TokenInv
    OBVIOUS
  <2>1. authRows \in Seq(AuthCalls) /\ Len(authRows) = 0
    BY DEF AuthInit
  <2>2. UserAuth = NoToken
    BY <2>1 DEF UserAuth
  <2>3. authRaced = FALSE /\ authSaved = NoToken /\ \A q \in AuthCalls : authCall[q] = "idle"
    BY DEF AuthInit
  <2>4. AuthTypeOK
    BY <2>1 DEF AuthInit, AuthTypeOK
  <2>5. OneToken
    BY ONLY <2>1, <2>3 DEF OneToken
  <2> QED BY ONLY <2>2, <2>3, <2>4, <2>5 DEF TokenInv, TokenFound
<1>2. ASSUME TokenInv, [AuthNext]_authVars PROVE TokenInv'
  <2>1. CASE DeleteAuth
    <3>1. authRows' = <<>> /\ authSaved' = NoToken /\ authCall' = authCall
      BY <2>1 DEF DeleteAuth
    <3>2. authRaced' \in BOOLEAN
      BY <1>2, <2>1 DEF DeleteAuth, TokenInv, AuthTypeOK
    <3>3. AuthTypeOK' /\ TokenFound'
      BY <1>2, <3>1, <3>2 DEF TokenInv, AuthTypeOK, TokenFound, UserAuth
    <3>4. ~authRaced' => \A q, o \in AuthCalls :
              {authCall[q], authCall[o]} \subseteq {"insert", "update"} => q = o
      BY <1>2, <2>1 DEF DeleteAuth, Saving, TokenInv, OneToken
    <3> QED BY <3>1, <3>3, <3>4 DEF TokenInv, OneToken
  <2>2. CASE UNCHANGED authVars
    BY <1>2, <2>2 DEF authVars, TokenInv, AuthTypeOK, OneToken, TokenFound, UserAuth
  <2> QED BY <1>2, <2>1, <2>2, SaveBegins, SaveEnds DEF AuthNext
<1> QED BY <1>1, <1>2, PTL DEF AuthSpec, TokenInv

-----------------------------------------------------------------------------
(***************************************************************************)
(* The repositories. While requests for a key, the name of a user, do not  *)
(* overlap, KeyOK says what the directory of the key holds: the files of   *)
(* the rows that own some, what a request has put there so far, and what   *)
(* rows that are gone have left. Requests only disturb the key they work   *)
(* on.                                                                     *)
(***************************************************************************)

\* The rows, the calls and the directories.
RepoRow == [id : RepoCalls, user : RepoUsers, name : RepoNames,
            how : {"url", "package", "path"}, key : Keys, owns : BOOLEAN]
Creating == {"reading", "adding"}
Keeping == {"updating", "cleaning", "deleting"}
RepoCallType == [at : {"new", "done"}] \cup [at : Creating \cup Keeping \cup {"done"}, row : RepoRow]
RepoTypeOK ==
    /\ repoRows \subseteq RepoRow
    /\ repoDirs \in [Keys -> SUBSET (RepoCalls \X {"archive", "files"})]
    /\ repoCall \in [RepoCalls -> RepoCallType]

\* A call is at work, and at work on a key.
Active(q) == repoCall[q].at \in Creating \cup Keeping
On(q, key) == Active(q) /\ repoCall[q].row.key = key

\* A row is named after the call that made it, which has ended; who keeps a
\* row, its files or neither, has a row of that kind.
RowIds ==
    /\ \A v, w \in repoRows : v.id = w.id => v = w
    /\ \A w \in repoRows : repoCall[w.id].at = "done"
    /\ \A q \in RepoCalls : repoCall[q].at \in Creating =>
         LET w == repoCall[q].row IN w = Row(q, w.user, w.name, w.how)
    /\ \A q \in RepoCalls : repoCall[q].at = "reading" => repoCall[q].row.how = "package"
    /\ \A q \in RepoCalls : repoCall[q].at \in Keeping =>
         LET w == repoCall[q].row IN
         /\ repoCall[w.id].at = "done"
         /\ \A v \in repoRows : v.id = w.id => v.key = w.key /\ v.owns = w.owns

\* The rows of a key, and those whose files are being deleted.
RowsOf(key) == {w \in repoRows : w.key = key}
Leaving(w, key) == \E q \in RepoCalls : On(q, key) /\ repoCall[q].at = "deleting" /\ repoCall[q].row = w
Alone(key) == \A q, p \in RepoCalls : On(q, key) /\ On(p, key) => p = q
\* An upload or a path has its name to itself, and its row while it works.
RowsOK(key) ==
    /\ \A v \in RowsOf(key) : v.key = <<v.user, v.name>> /\ v.owns = (v.how = "package")
    /\ \A v, w \in RowsOf(key) : {v.how, w.how} \subseteq {"package", "path"} => v = w
CallsOK(key) ==
    \A q \in RepoCalls : On(q, key) =>
        /\ repoCall[q].at \in Creating /\ repoCall[q].row.how # "url" => RowsOf(key) = {}
        /\ repoCall[q].at \in Keeping => repoCall[q].row \in repoRows
\* The files of a row are there until they are deleted with it, and nothing
\* else is there but what a call has just put there.
FilesThere(key) ==
    /\ \A w \in RowsOf(key) : w.owns => Files(w.id) \in repoDirs[key] \/ Leaving(w, key)
    /\ \A q \in RepoCalls : On(q, key) /\ repoCall[q].at = "adding" /\ repoCall[q].row.how = "package"
         => Files(q) \in repoDirs[key]
NothingElse(key) ==
    \A f \in repoDirs[key] :
        \/ f[2] = "files" /\ f[1] \in repoKept
        \/ \E w \in RowsOf(key) : w.owns /\ f = Files(w.id) /\ ~Leaving(w, key)
        \/ \E q \in RepoCalls :
             /\ On(q, key) /\ repoCall[q].row.how = "package"
             /\ \/ repoCall[q].at = "reading" /\ f = Archive(q)
                \/ repoCall[q].at = "adding" /\ f = Files(q)
\* All of it for a key of which no two requests overlapped.
KeyOK(key) == Alone(key) /\ RowsOK(key) /\ CallsOK(key) /\ FilesThere(key) /\ NothingElse(key)
RepoInv == RepoTypeOK /\ RowIds /\ \A key \in Keys \ repoTouched : KeyOK(key)

LEMMA RepoAt ==
    ASSUME RepoTypeOK, NEW q \in RepoCalls
    PROVE  /\ repoCall[q].at \in {"new", "done"} \cup Creating \cup Keeping
           /\ Active(q) => repoCall[q] = [at |-> repoCall[q].at, row |-> repoCall[q].row]
                           /\ repoCall[q].row \in RepoRow
BY DEF RepoTypeOK, RepoCallType, Active, Creating, Keeping

LEMMA ActiveEnds == Creating \cup Keeping = {"reading", "adding", "updating", "cleaning", "deleting"}
BY DEF Creating, Keeping

LEMMA FinishType ==
    ASSUME RepoTypeOK, NEW q \in RepoCalls, Finish(q)
    PROVE  /\ repoCall' \in [RepoCalls -> RepoCallType]
           /\ repoCall'[q].at = "done"
           /\ \A p \in RepoCalls \ {q} : repoCall'[p] = repoCall[p]
<1>1. repoCall[q] \in RepoCallType /\ repoCall \in [RepoCalls -> RepoCallType]
    BY DEF RepoTypeOK
<1>2. [repoCall[q] EXCEPT !.at = "done"] \in RepoCallType
    BY <1>1 DEF RepoCallType
<1>3. [repoCall[q] EXCEPT !.at = "done"].at = "done"
    BY <1>1 DEF RepoCallType
<1> QED BY <1>1, <1>2, <1>3 DEF Finish

LEMMA MoveType ==
    ASSUME RepoTypeOK, NEW q \in RepoCalls, Active(q), NEW at \in Creating \cup Keeping,
           repoCall' = [repoCall EXCEPT ![q].at = at]
    PROVE  /\ repoCall' \in [RepoCalls -> RepoCallType]
           /\ repoCall'[q] = [at |-> at, row |-> repoCall[q].row]
           /\ \A p \in RepoCalls \ {q} : repoCall'[p] = repoCall[p]
<1>1. repoCall[q] = [at |-> repoCall[q].at, row |-> repoCall[q].row] /\ repoCall[q].row \in RepoRow
    BY RepoAt
<1>2. repoCall \in [RepoCalls -> RepoCallType]
    BY DEF RepoTypeOK
<1>3. [repoCall[q] EXCEPT !.at = at] = [at |-> at, row |-> repoCall[q].row]
    BY <1>1
<1>4. [at |-> at, row |-> repoCall[q].row] \in RepoCallType
    BY <1>1 DEF RepoCallType
<1> QED BY <1>2, <1>3, <1>4

LEMMA AwaitType ==
    ASSUME RepoTypeOK, NEW q \in RepoCalls, NEW row \in RepoRow, NEW at \in Creating \cup Keeping,
           Await(q, row, at)
    PROVE  /\ repoCall' \in [RepoCalls -> RepoCallType]
           /\ repoCall'[q] = [at |-> at, row |-> row]
           /\ \A p \in RepoCalls \ {q} : repoCall'[p] = repoCall[p]
BY DEF RepoTypeOK, RepoCallType, Await

LEMMA RowType ==
    ASSUME NEW q \in RepoCalls, NEW user \in RepoUsers, NEW name \in RepoNames,
           NEW how \in {"url", "package", "path"}
    PROVE  Row(q, user, name, how) \in RepoRow
BY DEF Row, RepoRow, Keys

LEMMA RepoTypeStep ==
    ASSUME RepoTypeOK, NEW q \in RepoCalls,
           \/ Create(q) \/ Unpack(q) \/ AddRow(q) \/ BeginUpdate(q) \/ Update(q)
           \/ BeginDelete(q) \/ (\E local \in BOOLEAN : DeleteFiles(q, local)) \/ DeleteStops(q) \/ DeleteRow(q)
    PROVE  RepoTypeOK'
<1> USE DEF RepoTypeOK
<1>k. \A w \in RepoRow : w.key \in Keys /\ w.id \in RepoCalls
    BY DEF RepoRow
<1>f. Archive(q) \in RepoCalls \X {"archive", "files"} /\ Files(q) \in RepoCalls \X {"archive", "files"}
    BY DEF Archive, Files
<1>d. ASSUME NEW key \in Keys, RemoveTree(key)
      PROVE  repoDirs' \in [Keys -> SUBSET (RepoCalls \X {"archive", "files"})]
    BY <1>d DEF RemoveTree
<1>1. CASE Create(q)
    <2> PICK user \in RepoUsers, name \in RepoNames, how \in {"url", "package", "path"} :
            Create(q)!(user, name, how)
        BY <1>1 DEF Create
    <2> DEFINE row == Row(q, user, name, how)
    <2>1. row \in RepoRow
        BY RowType
    <2> HIDE DEF row
    <2>2. repoRows' = repoRows
        BY DEF row
    <2>3. CASE Refuse(q, row)
        BY <2>2, <2>3, FinishType DEF Refuse
    <2>4. CASE Await(q, row, "reading") /\ repoDirs' = [repoDirs EXCEPT ![row.key] = @ \cup {Archive(q)}]
        BY <2>1, <2>2, <2>4, <1>k, <1>f, AwaitType, ActiveEnds
    <2>5. CASE Await(q, row, "adding") /\ UNCHANGED repoDirs
        BY <2>1, <2>2, <2>5, AwaitType, ActiveEnds
    <2> QED BY <2>3, <2>4, <2>5 DEF row
<1>2. CASE Unpack(q)
    <2>1. Active(q) /\ repoRows' = repoRows
        BY <1>2, ActiveEnds DEF Unpack, Active
    <2>2. repoCall[q].row.key \in Keys
        BY <2>1, <1>k, RepoAt
    <2>3. CASE CleanUp(q) /\ Finish(q)
        BY <2>1, <2>2, <2>3, <1>d, FinishType DEF CleanUp
    <2>4. CASE /\ repoDirs' = [repoDirs EXCEPT ![repoCall[q].row.key] = (@ \ {Archive(q)}) \cup {Files(q)}]
               /\ repoCall' = [repoCall EXCEPT ![q].at = "adding"]
        <3>1. repoDirs' \in [Keys -> SUBSET (RepoCalls \X {"archive", "files"})]
            BY <2>2, <2>4, <1>f
        <3> QED BY <2>1, <2>4, <3>1, MoveType, ActiveEnds
    <2> QED BY <1>2, <2>3, <2>4 DEF Unpack
<1>3. CASE AddRow(q)
    <2>1. Active(q) /\ Finish(q)
        BY <1>3, ActiveEnds DEF AddRow, Active, Raise
    <2>2. repoCall[q].row \in RepoRow
        BY <2>1, RepoAt
    <2>3. repoRows' \subseteq RepoRow
        BY <2>2, <1>3 DEF AddRow
    <2>4. repoDirs' \in [Keys -> SUBSET (RepoCalls \X {"archive", "files"})]
        BY <2>2, <1>3, <1>k, <1>d DEF AddRow, Abandon, CleanUp
    <2> QED BY <2>1, <2>3, <2>4, FinishType
<1>4. CASE BeginUpdate(q)
    BY <1>4, AwaitType, ActiveEnds DEF BeginUpdate
<1>5. CASE Update(q)
    <2>1. Active(q) /\ Finish(q)
        BY <1>5, ActiveEnds DEF Update, Active, Raise
    <2>2. repoCall[q].row \in RepoRow
        BY <2>1, RepoAt
    <2>3. repoRows' \subseteq RepoRow
        <3>1. ASSUME NEW name \in RepoNames
              PROVE  [repoCall[q].row EXCEPT !.name = name, !.how = "url"] \in RepoRow
            BY <2>2 DEF RepoRow
        <3> QED BY <1>5, <3>1 DEF Update
    <2> QED BY <1>5, <2>1, <2>3, FinishType DEF Update
<1>6. CASE BeginDelete(q)
    BY <1>6, AwaitType, ActiveEnds DEF BeginDelete
<1>7. CASE \E local \in BOOLEAN : DeleteFiles(q, local)
    <2>1. Active(q) /\ repoRows' = repoRows
        BY <1>7, ActiveEnds DEF DeleteFiles, Active
    <2>2. repoCall[q].row.key \in Keys
        BY <2>1, <1>k, RepoAt
    <2>3. repoDirs' \in [Keys -> SUBSET (RepoCalls \X {"archive", "files"})]
        BY <2>2, <1>7, <1>d DEF DeleteFiles
    <2>4. Finish(q) \/ repoCall' = [repoCall EXCEPT ![q].at = "deleting"]
        BY <1>7 DEF DeleteFiles, Raise
    <2> QED BY <2>1, <2>3, <2>4, FinishType, MoveType, ActiveEnds
<1>8. CASE DeleteRow(q)
    <2>1. Finish(q)
        BY <1>8 DEF DeleteRow, Raise
    <2> QED BY <1>8, <2>1, FinishType DEF DeleteRow
<1>9. CASE DeleteStops(q)
    BY <1>9, FinishType DEF DeleteStops
<1> QED BY <1>1, <1>2, <1>3, <1>4, <1>5, <1>6, <1>7, <1>8, <1>9

\* A request that takes a step is not done, and leaves the others where they are.
LEMMA RepoStepper ==
    ASSUME RepoTypeOK, NEW q \in RepoCalls,
           \/ Create(q) \/ Unpack(q) \/ AddRow(q) \/ BeginUpdate(q) \/ Update(q)
           \/ BeginDelete(q) \/ (\E local \in BOOLEAN : DeleteFiles(q, local)) \/ DeleteStops(q) \/ DeleteRow(q)
    PROVE  /\ repoCall[q].at # "done"
           /\ \A p \in RepoCalls \ {q} : repoCall'[p] = repoCall[p]
           /\ repoKept \subseteq repoKept' /\ repoTouched \subseteq repoTouched'
<1> DEFINE Moves == \E r : repoCall' = [repoCall EXCEPT ![q] = r]
           OnlyMore == repoKept \subseteq repoKept' /\ repoTouched \subseteq repoTouched'
           Here == repoCall[q].at # "done"
<1>1. ASSUME Create(q) PROVE Here /\ Moves /\ OnlyMore
    BY <1>1 DEF Create, Arrives, Await, Refuse, Finish
<1>2. ASSUME Unpack(q) PROVE Here /\ Moves /\ OnlyMore
    BY <1>2 DEF Unpack, Finish
<1>3. ASSUME AddRow(q) PROVE Here /\ Moves /\ OnlyMore
    BY <1>3 DEF AddRow, Raise, Finish, Touch
<1>4. ASSUME BeginUpdate(q) PROVE Here /\ Moves /\ OnlyMore
    BY <1>4 DEF BeginUpdate, Arrives, Await
<1>5. ASSUME Update(q) PROVE Here /\ Moves /\ OnlyMore
    BY <1>5 DEF Update, Raise, Finish, Touch
<1>6. ASSUME BeginDelete(q) PROVE Here /\ Moves /\ OnlyMore
    BY <1>6 DEF BeginDelete, Arrives, Await
<1>7. ASSUME \E local \in BOOLEAN : DeleteFiles(q, local) PROVE Here /\ Moves /\ OnlyMore
    BY <1>7 DEF DeleteFiles, Raise, Finish, Touch
<1>8. ASSUME DeleteRow(q) PROVE Here /\ Moves /\ OnlyMore
    BY <1>8 DEF DeleteRow, Raise, Finish, Touch
<1>0. ASSUME DeleteStops(q) PROVE Here /\ Moves /\ OnlyMore
    BY <1>0 DEF DeleteStops, Finish
<1>9. Here /\ Moves /\ OnlyMore
    <2> HIDE DEF Here, Moves, OnlyMore
    <2> QED BY <1>0, <1>1, <1>2, <1>3, <1>4, <1>5, <1>6, <1>7, <1>8
<1>10. \A p \in RepoCalls \ {q} : repoCall'[p] = repoCall[p]
    BY <1>9 DEF RepoTypeOK
<1> QED BY <1>9, <1>10, Zenon

\* Rows keep their ids, keys and directories, and a new one has the id of the
\* request that ends by adding it.
LEMMA RowIdsKept ==
    ASSUME RepoTypeOK, RepoTypeOK', RowIds, NEW q \in RepoCalls, repoCall[q].at # "done",
           \A p \in RepoCalls \ {q} : repoCall'[p] = repoCall[p],
           \A v, w \in repoRows' : v.id = w.id => v = w,
           \A v \in repoRows' :
               \/ \E w \in repoRows : w.id = v.id /\ w.key = v.key /\ w.owns = v.owns
               \/ v.id = q /\ repoCall'[q].at = "done",
           repoCall'[q].at \in Creating =>
               LET w == repoCall'[q].row IN w = Row(q, w.user, w.name, w.how),
           repoCall'[q].at = "reading" => repoCall'[q].row.how = "package",
           repoCall'[q].at \in Keeping =>
               \/ repoCall'[q].row \in repoRows
               \/ repoCall[q].at \in Keeping /\ repoCall'[q].row = repoCall[q].row
    PROVE  RowIds'
<1>1. \A w \in repoRows : w.id \in RepoCalls \ {q} /\ repoCall[w.id].at = "done"
    BY DEF RowIds, RepoTypeOK, RepoRow
<1>2. \A w \in repoRows' : repoCall'[w.id].at = "done"
    BY <1>1
<1>3. \A p \in RepoCalls : repoCall'[p].at \in Creating =>
         LET w == repoCall'[p].row IN w = Row(p, w.user, w.name, w.how)
    BY DEF RowIds
<1>4. \A p \in RepoCalls : repoCall'[p].at = "reading" => repoCall'[p].row.how = "package"
    BY DEF RowIds
<1>5. ASSUME NEW p \in RepoCalls, repoCall'[p].at \in Keeping
      PROVE  LET w == repoCall'[p].row IN
             /\ repoCall'[w.id].at = "done"
             /\ \A v \in repoRows' : v.id = w.id => v.key = w.key /\ v.owns = w.owns
    <2> DEFINE w == repoCall'[p].row
    <2>1. /\ w.id \in RepoCalls /\ w.id # q /\ repoCall[w.id].at = "done"
          /\ \A v \in repoRows : v.id = w.id => v.key = w.key /\ v.owns = w.owns
        <3>1. CASE w \in repoRows
            BY <3>1, <1>1 DEF RowIds
        <3>2. CASE repoCall[p].at \in Keeping /\ w = repoCall[p].row
            <4>1. w \in RepoRow
                BY <3>2, RepoAt DEF Active
            <4> QED BY <4>1, <3>2 DEF RowIds, RepoRow
        <3> QED BY <1>5, <3>1, <3>2
    <2> HIDE DEF w
    <2>2. repoCall'[w.id].at = "done"
        BY <2>1
    <2>3. \A v \in repoRows' : v.id = w.id => v.key = w.key /\ v.owns = w.owns
        BY <2>1
    <2> QED BY <2>2, <2>3 DEF w
<1> QED BY <1>2, <1>3, <1>4, <1>5 DEF RowIds

LEMMA RowIdsStep ==
    ASSUME RepoTypeOK, RepoTypeOK', RowIds, NEW q \in RepoCalls,
           \/ Create(q) \/ Unpack(q) \/ AddRow(q) \/ BeginUpdate(q) \/ Update(q)
           \/ BeginDelete(q) \/ (\E local \in BOOLEAN : DeleteFiles(q, local)) \/ DeleteStops(q) \/ DeleteRow(q)
    PROVE  RowIds'
<1>1. /\ repoCall[q].at # "done"
      /\ \A p \in RepoCalls \ {q} : repoCall'[p] = repoCall[p]
    BY RepoStepper
<1>2. \A v, w \in repoRows : v.id = w.id => v = w
    BY DEF RowIds
<1>3. \A w \in repoRows : w.id # q
    BY <1>1 DEF RowIds
<1>e. /\ \A at \in Creating : at \notin Keeping /\ at # "done"
      /\ \A at \in Keeping : at \notin Creating /\ at # "done" /\ at # "reading"
      /\ Creating = {"reading", "adding"} /\ Keeping = {"updating", "cleaning", "deleting"}
    BY DEF Creating, Keeping
<1>4. CASE Create(q)
    <2> PICK user \in RepoUsers, name \in RepoNames, how \in {"url", "package", "path"} :
            Create(q)!(user, name, how)
        BY <1>4 DEF Create
    <2> DEFINE row == Row(q, user, name, how)
    <2>1. row \in RepoRow /\ row = Row(q, row.user, row.name, row.how) /\ row.how = how
        BY RowType DEF Row
    <2> HIDE DEF row
    <2>2. repoRows' = repoRows
        BY DEF row
    <2>3. CASE Refuse(q, row)
        BY <2>2, <2>3, <1>1, <1>2, <1>e, FinishType, RowIdsKept DEF Refuse
    <2>4. CASE Await(q, row, "reading") /\ how = "package"
        <3>1. repoCall'[q] = [at |-> "reading", row |-> row]
            BY <2>1, <2>4, ActiveEnds, AwaitType
        <3> QED BY <2>1, <2>2, <2>4, <3>1, <1>1, <1>2, <1>e, RowIdsKept
    <2>5. CASE Await(q, row, "adding")
        <3>1. repoCall'[q] = [at |-> "adding", row |-> row]
            BY <2>1, <2>5, ActiveEnds, AwaitType
        <3> QED BY <2>1, <2>2, <3>1, <1>1, <1>2, <1>e, RowIdsKept
    <2> QED BY <2>3, <2>4, <2>5 DEF row
<1>5. CASE Unpack(q)
    <2>1. Active(q) /\ repoRows' = repoRows /\ repoCall[q].at = "reading"
        BY <1>5, ActiveEnds DEF Unpack, Active
    <2>2. CASE Finish(q)
        BY <2>1, <2>2, <1>1, <1>2, <1>e, FinishType, RowIdsKept
    <2>3. CASE repoCall' = [repoCall EXCEPT ![q].at = "adding"]
        <3>1. repoCall'[q] = [at |-> "adding", row |-> repoCall[q].row]
            BY <2>1, <2>3, <1>e, MoveType
        <3>2. LET w == repoCall[q].row IN w = Row(q, w.user, w.name, w.how)
            BY <2>1, <1>e DEF RowIds
        <3> QED BY <2>1, <3>1, <3>2, <1>1, <1>2, <1>e, RowIdsKept
    <2> QED BY <1>5, <2>2, <2>3 DEF Unpack
<1>6. CASE AddRow(q)
    <2>1. Finish(q) /\ repoCall[q].at = "adding"
        BY <1>6 DEF AddRow, Raise
    <2>2. repoCall[q].row.id = q
        <3>1. LET w == repoCall[q].row IN w = Row(q, w.user, w.name, w.how)
            BY <2>1, <1>e DEF RowIds
        <3> QED BY <3>1 DEF Row
    <2>3. repoRows' = repoRows \/ repoRows' = repoRows \cup {repoCall[q].row}
        BY <1>6 DEF AddRow
    <2>4. repoCall'[q].at = "done"
        BY <2>1, FinishType
    <2>5. \A v, w \in repoRows' : v.id = w.id => v = w
        BY <2>2, <2>3, <1>2, <1>3
    <2>6. \A v \in repoRows' : v \in repoRows \/ v.id = q
        BY <2>2, <2>3
    <2> QED BY <2>4, <2>5, <2>6, <1>1, <1>e, RowIdsKept
<1>7. CASE BeginUpdate(q) \/ BeginDelete(q)
    <2>1. PICK w \in repoRows, at \in Keeping : Await(q, w, at)
        BY <1>7, <1>e DEF BeginUpdate, BeginDelete
    <2>2. repoRows' = repoRows
        BY <1>7 DEF BeginUpdate, BeginDelete
    <2>3. repoCall'[q] = [at |-> at, row |-> w]
        BY <2>1, AwaitType DEF RepoTypeOK
    <2> QED BY <2>1, <2>2, <2>3, <1>1, <1>2, <1>e, RowIdsKept
<1>8. CASE Update(q)
    <2>1. Finish(q) /\ repoCall[q].at = "updating"
        BY <1>8 DEF Update, Raise
    <2>4. repoCall'[q].at = "done"
        BY <2>1, FinishType
    <2>5. CASE repoRows' = repoRows
        BY <2>4, <2>5, <1>1, <1>2, <1>e, RowIdsKept
    <2>6. ASSUME NEW name \in RepoNames, repoCall[q].row \in repoRows,
                 repoRows' = (repoRows \ {repoCall[q].row})
                                 \cup {[repoCall[q].row EXCEPT !.name = name, !.how = "url"]}
          PROVE  RowIds'
        <3> DEFINE w == repoCall[q].row
                   v == [w EXCEPT !.name = name, !.how = "url"]
        <3>1. w \in repoRows /\ v.id = w.id /\ v.key = w.key /\ v.owns = w.owns
            BY <2>6 DEF RepoTypeOK, RepoRow
        <3>2. repoRows' = (repoRows \ {w}) \cup {v}
            BY <2>6
        <3> HIDE DEF v, w
        <3>3. \A x, y \in repoRows' : x.id = y.id => x = y
            BY <3>1, <3>2, <1>2
        <3>4. \A x \in repoRows' : \E y \in repoRows : y.id = x.id /\ y.key = x.key /\ y.owns = x.owns
            BY <3>1, <3>2
        <3> QED BY <3>3, <3>4, <2>4, <1>1, <1>e, RowIdsKept
    <2> QED BY <1>8, <2>5, <2>6 DEF Update
<1>9. CASE \E local \in BOOLEAN : DeleteFiles(q, local)
    <2>1. repoRows' = repoRows /\ repoCall[q].at = "cleaning" /\ Active(q)
        BY <1>9, <1>e DEF DeleteFiles, Active
    <2>2. CASE Finish(q)
        BY <2>1, <2>2, <1>1, <1>2, <1>e, FinishType, RowIdsKept
    <2>3. CASE repoCall' = [repoCall EXCEPT ![q].at = "deleting"]
        <3>1. repoCall'[q] = [at |-> "deleting", row |-> repoCall[q].row]
            BY <2>1, <2>3, <1>e, MoveType
        <3> QED BY <2>1, <3>1, <1>1, <1>2, <1>e, RowIdsKept
    <2> QED BY <1>9, <2>2, <2>3 DEF DeleteFiles, Raise
<1>10. CASE DeleteStops(q) \/ DeleteRow(q)
    <2>1. Finish(q) /\ repoRows' \subseteq repoRows
        BY <1>10 DEF DeleteStops, DeleteRow, Raise
    <2>2. repoCall'[q].at = "done"
        BY <2>1, FinishType
    <2> QED BY <2>1, <2>2, <1>1, <1>2, <1>e, RowIdsKept
<1> QED BY <1>4, <1>5, <1>6, <1>7, <1>8, <1>9, <1>10

LEMMA KeyFrame ==
    ASSUME NEW key \in Keys, KeyOK(key),
           RowsOf(key)' = RowsOf(key), repoDirs'[key] = repoDirs[key], repoKept \subseteq repoKept',
           \A p \in RepoCalls : On(p, key)' <=> On(p, key),
           \A p \in RepoCalls : On(p, key) => repoCall'[p] = repoCall[p]
    PROVE  KeyOK(key)'
<1>1. Alone(key)'
    BY DEF KeyOK, Alone
<1>2. RowsOK(key)'
    BY DEF KeyOK, RowsOK
<1>3. \A w : Leaving(w, key)' <=> Leaving(w, key)
    BY DEF Leaving
<1>4. CallsOK(key)'
    <2> SUFFICES ASSUME NEW p \in RepoCalls, On(p, key)
                 PROVE  /\ repoCall[p].at \in Creating /\ repoCall[p].row.how # "url" => RowsOf(key) = {}
                        /\ repoCall[p].at \in Keeping => repoCall[p].row \in repoRows'
        BY DEF CallsOK
    <2>1. repoCall[p].row.key = key /\ CallsOK(key)
        BY DEF On, KeyOK
    <2>2. repoCall[p].at \in Keeping => repoCall[p].row \in RowsOf(key)'
        BY <2>1 DEF CallsOK, RowsOf
    <2> QED BY <2>1, <2>2 DEF CallsOK, RowsOf
<1>5. FilesThere(key)'
    BY <1>3 DEF KeyOK, FilesThere
<1>6. NothingElse(key)'
    BY <1>3 DEF KeyOK, NothingElse
<1> QED BY <1>1, <1>2, <1>4, <1>5, <1>6 DEF KeyOK

\* A step on one key leaves the others as they are.
LEMMA OtherKeys ==
    ASSUME NEW q \in RepoCalls, NEW own, NEW key \in Keys, key # own, KeyOK(key),
           \A p \in RepoCalls \ {q} : repoCall'[p] = repoCall[p],
           ~On(q, key), ~On(q, key)', RowsOf(key)' = RowsOf(key),
           repoDirs'[key] = repoDirs[key], repoKept \subseteq repoKept'
    PROVE  KeyOK(key)'
<1>1. \A p \in RepoCalls : On(p, key)' <=> On(p, key)
    BY DEF On, Active
<1>2. \A p \in RepoCalls : On(p, key) => repoCall'[p] = repoCall[p]
    OBVIOUS
<1> QED BY <1>1, <1>2, KeyFrame

\* The key of a request that goes on, and what that says of its row.
LEMMA OnOwn ==
    ASSUME RepoTypeOK, NEW q \in RepoCalls, Active(q)
    PROVE  /\ repoCall[q].row \in RepoRow /\ repoCall[q].row.key \in Keys
           /\ On(q, repoCall[q].row.key)
           /\ \A key : On(q, key) => key = repoCall[q].row.key
<1>1. repoCall[q].row \in RepoRow
    BY RepoAt
<1> QED BY <1>1 DEF On, RepoRow

\* When the request on a key ends, or begins.
LEMMA KeyEnds ==
    ASSUME RepoTypeOK, NEW q \in RepoCalls, NEW key \in Keys, Alone(key),
           On(q, key) \/ ~\E p \in RepoCalls : On(p, key),
           \A p \in RepoCalls \ {q} : repoCall'[p] = repoCall[p],
           RowsOK(key)',
           ~On(q, key)',
           \A w \in RowsOf(key)' : w.owns => Files(w.id) \in repoDirs'[key],
           \A f \in repoDirs'[key] :
               \/ f[2] = "files" /\ f[1] \in repoKept'
               \/ \E w \in RowsOf(key)' : w.owns /\ f = Files(w.id)
    PROVE  KeyOK(key)'
<1>1. \A p \in RepoCalls : ~On(p, key)'
    BY DEF On, Active, Alone
<1> QED BY <1>1 DEF KeyOK, Alone, CallsOK, FilesThere, NothingElse, Leaving

\* A request that waits with the row of an untouched key is the only one.
LEMMA AwaitAlone ==
    ASSUME RepoTypeOK, NEW q \in RepoCalls, ~Active(q), NEW row \in RepoRow,
           NEW at \in Creating \cup Keeping, Await(q, row, at), row.key \notin repoTouched'
    PROVE  /\ \A p \in RepoCalls : ~On(p, row.key)
           /\ \A p \in RepoCalls : On(p, row.key)' <=> p = q
<1>1. ~Busy(q, row.key)
    BY DEF Await
<1>2. \A p \in RepoCalls : ~On(p, row.key)
    BY <1>1, ActiveEnds DEF Busy, On, Active
<1>3. /\ repoCall'[q] = [at |-> at, row |-> row]
      /\ \A p \in RepoCalls \ {q} : repoCall'[p] = repoCall[p]
    BY AwaitType
<1> QED BY <1>2, <1>3 DEF On, Active

LEMMA CreateKey ==
    ASSUME RepoTypeOK, RepoTypeOK', NEW q \in RepoCalls, Create(q),
           NEW key \in Keys, key \notin repoTouched', KeyOK(key)
    PROVE  KeyOK(key)'
<1>1. /\ \A p \in RepoCalls \ {q} : repoCall'[p] = repoCall[p]
      /\ repoKept' = repoKept /\ repoRows' = repoRows
    BY RepoStepper DEF Create
<1>2. PICK user \in RepoUsers, name \in RepoNames, how \in {"url", "package", "path"} :
        Create(q)!(user, name, how)
    BY DEF Create
<1> DEFINE row == Row(q, user, name, how)
<1>3. /\ row \in RepoRow /\ row.how = how /\ row.key = <<user, name>> /\ row.id = q
      /\ row.user = user /\ row.name = name
    BY RowType DEF Row
<1>4. ~Active(q) /\ ~On(q, key)
    BY <1>2, ActiveEnds DEF Arrives, Active, On
<1>5. \A p : RowsOf(p)' = RowsOf(p)
    BY <1>1 DEF RowsOf
<1>6. CASE Refuse(q, row)
    <2>1. ~On(q, key)' /\ repoDirs' = repoDirs
        BY <1>6, FinishType, ActiveEnds DEF Refuse, On, Active
    <2>2. \A p \in RepoCalls : On(p, key)' <=> On(p, key)
        BY <2>1, <1>1, <1>4 DEF On, Active
    <2> QED BY <2>1, <2>2, <1>1, <1>4, <1>5, KeyFrame
<1>7. ASSUME NEW at \in Creating, Await(q, row, at), TakenBy(how, user, name) = {},
             \A k \in Keys \ {row.key} : repoDirs'[k] = repoDirs[k],
             \/ /\ how = "package" /\ at = "reading"
                /\ repoDirs'[row.key] = repoDirs[row.key] \cup {Archive(q)}
             \/ how # "package" /\ at = "adding" /\ repoDirs' = repoDirs
      PROVE  KeyOK(key)'
    <2>1. repoCall'[q] = [at |-> at, row |-> row]
        BY <1>3, <1>7, AwaitType
    <2>2. CASE key # row.key
        <3>1. ~On(q, key)'
            BY <2>1, <2>2 DEF On
        <3> HIDE DEF row
        <3> QED BY <2>2, <3>1, <1>1, <1>4, <1>5, <1>7, OtherKeys
    <2>3. CASE key = row.key
        <3> HIDE DEF row
        <3>1. /\ \A p \in RepoCalls : ~On(p, key)
              /\ \A p \in RepoCalls : On(p, key)' <=> p = q
            BY <1>3, <1>4, <1>7, <2>3, AwaitAlone
        <3>2. how # "url" => RowsOf(key) = {}
            <4> SUFFICES ASSUME how # "url", NEW w \in RowsOf(key) PROVE FALSE
                OBVIOUS
            <4>1. w.user = user /\ w.name = name
                BY <1>3, <2>3 DEF KeyOK, RowsOK, RowsOf
            <4>2. w.how \in {"url", "package", "path"} /\ w \in repoRows
                BY DEF RowsOf, RepoTypeOK, RepoRow
            <4> QED BY <4>1, <4>2, <1>7 DEF TakenBy, Rows
        <3>3. \A w : ~Leaving(w, key) /\ ~Leaving(w, key)'
            BY <3>1, <2>1, <1>7 DEF Leaving, Creating
        <3>4. Alone(key)' /\ RowsOK(key)'
            BY <3>1, <1>5 DEF KeyOK, Alone, RowsOK
        <3>5. CallsOK(key)'
            BY <3>1, <3>2, <2>1, <1>3, <1>5, <1>7 DEF CallsOK, Creating, Keeping
        <3>6. FilesThere(key)'
            <4>1. \A w \in RowsOf(key) : w.owns => Files(w.id) \in repoDirs'[key]
                BY <3>3, <2>3, <1>7 DEF KeyOK, FilesThere
            <4> QED BY <4>1, <3>1, <2>1, <1>3, <1>5, <1>7 DEF FilesThere
        <3>7. NothingElse(key)'
            <4>1. ASSUME NEW f \in repoDirs[key]
                  PROVE  \/ f[2] = "files" /\ f[1] \in repoKept
                         \/ \E w \in RowsOf(key) : w.owns /\ f = Files(w.id)
                BY <3>1 DEF KeyOK, NothingElse
            <4>2. ASSUME NEW f \in repoDirs'[key]
                  PROVE  \/ f \in repoDirs[key]
                         \/ f = Archive(q) /\ how = "package" /\ at = "reading"
                BY <1>7, <2>3
            <4> QED BY <4>1, <4>2, <3>1, <3>3, <2>1, <1>1, <1>3, <1>5 DEF NothingElse
        <3> QED BY <3>4, <3>5, <3>6, <3>7 DEF KeyOK
    <2> QED BY <2>2, <2>3
<1>8. row.key \in Keys /\ repoDirs[row.key] \subseteq RepoCalls \X {"archive", "files"}
    BY <1>3 DEF RepoTypeOK, RepoRow
<1> HIDE DEF row
<1>9. CASE how = "package" /\ TakenBy(how, user, name) = {} /\ Await(q, row, "reading")
           /\ repoDirs' = [repoDirs EXCEPT ![row.key] = @ \cup {Archive(q)}]
    <2>1. /\ repoDirs'[row.key] = repoDirs[row.key] \cup {Archive(q)}
          /\ \A k \in Keys \ {row.key} : repoDirs'[k] = repoDirs[k]
        BY <1>8, <1>9 DEF RepoTypeOK
    <2>2. "reading" \in Creating
        BY DEF Creating
    <2> QED BY <2>1, <2>2, <1>7, <1>9
<1>10. CASE how # "package" /\ TakenBy(how, user, name) = {} /\ Await(q, row, "adding") /\ UNCHANGED repoDirs
    <2>2. "adding" \in Creating
        BY DEF Creating
    <2> QED BY <2>2, <1>7, <1>10
<1> QED BY <1>2, <1>6, <1>9, <1>10 DEF row

LEMMA UnpackKey ==
    ASSUME RepoTypeOK, RepoTypeOK', RowIds, NEW q \in RepoCalls, Unpack(q),
           NEW key \in Keys, key \notin repoTouched', KeyOK(key)
    PROVE  KeyOK(key)'
<1>1. /\ \A p \in RepoCalls \ {q} : repoCall'[p] = repoCall[p]
      /\ repoKept' = repoKept /\ repoRows' = repoRows /\ repoCall[q].at = "reading" /\ Active(q)
    BY RepoStepper, ActiveEnds DEF Unpack, Active
<1>2. \A p : RowsOf(p)' = RowsOf(p)
    BY <1>1 DEF RowsOf
<1> DEFINE row == repoCall[q].row
<1>3. row \in RepoRow /\ row.key \in Keys /\ On(q, row.key) /\ \A k : On(q, k) => k = row.key
    BY <1>1, OnOwn
<1>4. row.how = "package" /\ row.id = q
    <2>1. row = Row(q, row.user, row.name, row.how) /\ row.how = "package"
        BY <1>1 DEF RowIds, Creating
    <2> QED BY <2>1 DEF Row
<1> HIDE DEF row
<1>5. \A k \in Keys \ {row.key} : repoDirs'[k] = repoDirs[k]
    BY DEF Unpack, CleanUp, RemoveTree, RepoTypeOK, row
<1>6. \/ repoCall'[q].at = "done"
      \/ repoCall'[q] = [at |-> "adding", row |-> row]
    BY <1>1, FinishType, MoveType, ActiveEnds DEF Unpack, row
<1>7. CASE key # row.key
    <2>1. ~On(q, key) /\ ~On(q, key)'
        BY <1>3, <1>6, <1>7, ActiveEnds DEF On, Active
    <2> QED BY <1>1, <1>2, <1>5, <1>7, <2>1, OtherKeys
<1>8. CASE key = row.key
    <2>1. RowsOf(key) = {} /\ \A p \in RepoCalls : On(p, key) => p = q
        BY <1>1, <1>3, <1>4, <1>8 DEF KeyOK, CallsOK, Alone, Creating, row
    <2>2. CASE CleanUp(q) /\ Finish(q)
        <3>1. repoDirs'[key] = {}
            BY <2>2, <1>3, <1>8 DEF CleanUp, RemoveTree, RepoTypeOK, row
        <3>2. ~On(q, key)'
            BY <2>2, FinishType, ActiveEnds DEF On, Active
        <3>3. Alone(key) /\ RowsOK(key)' /\ On(q, key)
            BY <1>2, <1>3, <1>8 DEF KeyOK, RowsOK
        <3> QED BY <3>1, <3>2, <3>3, <2>1, <1>1, <1>2, KeyEnds
    <2>3. CASE /\ repoDirs' = [repoDirs EXCEPT ![row.key] = (@ \ {Archive(q)}) \cup {Files(q)}]
               /\ repoCall' = [repoCall EXCEPT ![q].at = "adding"]
        <3>1. repoCall'[q] = [at |-> "adding", row |-> row]
            BY <2>3, <1>1, MoveType, ActiveEnds DEF row
        <3>2. repoDirs'[key] = (repoDirs[key] \ {Archive(q)}) \cup {Files(q)}
            BY <2>3, <1>8 DEF RepoTypeOK
        <3>3. \A p \in RepoCalls : On(p, key)' <=> p = q
            BY <3>1, <2>1, <1>1, <1>8, ActiveEnds DEF On, Active
        <3>4. Alone(key)' /\ RowsOK(key)' /\ CallsOK(key)' /\ FilesThere(key)'
            BY <3>1, <3>2, <3>3, <2>1, <1>2, <1>8 DEF Alone, RowsOK, CallsOK, FilesThere, Keeping
        <3>5. NothingElse(key)'
            <4>1. \A f \in repoDirs[key] : f = Archive(q) \/ (f[2] = "files" /\ f[1] \in repoKept)
                BY <2>1, <1>1 DEF KeyOK, NothingElse
            <4>2. On(q, key)' /\ repoCall'[q].at = "adding" /\ repoCall'[q].row.how = "package"
                BY <3>1, <3>3, <1>4
            <4> QED BY <4>1, <4>2, <3>2, <1>1 DEF NothingElse
        <3> QED BY <3>4, <3>5 DEF KeyOK
    <2> QED BY <2>2, <2>3 DEF Unpack, row
<1> QED BY <1>7, <1>8

LEMMA AddRowKey ==
    ASSUME RepoTypeOK, RepoTypeOK', RowIds, NEW q \in RepoCalls, AddRow(q),
           NEW key \in Keys, key \notin repoTouched', KeyOK(key)
    PROVE  KeyOK(key)'
<1>1. /\ \A p \in RepoCalls \ {q} : repoCall'[p] = repoCall[p]
      /\ repoKept' = repoKept /\ repoCall[q].at = "adding" /\ Active(q) /\ Finish(q)
    BY RepoStepper, ActiveEnds DEF AddRow, Active, Raise
<1> DEFINE row == repoCall[q].row
<1>2. row \in RepoRow /\ row.key \in Keys /\ On(q, row.key) /\ \A k : On(q, k) => k = row.key
    BY <1>1, OnOwn
<1>3. row.id = q /\ row.key = <<row.user, row.name>> /\ row.owns = (row.how = "package")
    <2>1. row = Row(q, row.user, row.name, row.how)
        BY <1>1 DEF RowIds, Creating
    <2> QED BY <2>1 DEF Row
<1> HIDE DEF row
<1>4. ~On(q, key)'
    BY <1>1, FinishType, ActiveEnds DEF On, Active
<1>5. \/ repoRows' = repoRows \cup {row} /\ UNCHANGED repoDirs
      \/ Abandon(q) /\ repoRows' = repoRows
      \/ Abandon(q) /\ repoRows' = repoRows \cup {row} /\ row.key \in repoTouched'
    BY DEF AddRow, Touch, row
<1>6. Abandon(q) => /\ \A k \in Keys \ {row.key} : repoDirs'[k] = repoDirs[k]
                    /\ row.how # "package" => repoDirs' = repoDirs
                    /\ row.how = "package" => repoDirs'[row.key] = {}
    BY <1>2 DEF Abandon, CleanUp, RemoveTree, RepoTypeOK, row
<1>7. CASE key # row.key
    <2>1. ~On(q, key) /\ RowsOf(key)' = RowsOf(key) /\ repoDirs'[key] = repoDirs[key]
        BY <1>2, <1>5, <1>6, <1>7 DEF RowsOf
    <2> QED BY <1>1, <1>4, <1>7, <2>1, OtherKeys
<1>8. CASE key = row.key
    <2>1. /\ row.how # "url" => RowsOf(key) = {}
          /\ \A p \in RepoCalls : On(p, key) => p = q
          /\ row.how = "package" => Files(q) \in repoDirs[key]
          /\ Alone(key) /\ On(q, key)
        BY <1>1, <1>2, <1>8 DEF KeyOK, CallsOK, Alone, Creating, FilesThere, row
    <2>2. \A w : ~Leaving(w, key)
        BY <2>1, <1>1 DEF Leaving
    <2>3. \A w \in RowsOf(key) : w.owns => Files(w.id) \in repoDirs[key]
        BY <2>2 DEF KeyOK, FilesThere
    <2>4. \A f \in repoDirs[key] :
              \/ f[2] = "files" /\ f[1] \in repoKept
              \/ \E w \in RowsOf(key) : w.owns /\ f = Files(w.id)
              \/ row.how = "package" /\ f = Files(q)
        BY <1>1, <2>1 DEF KeyOK, NothingElse, row
    <2>5. CASE repoRows' = repoRows \cup {row} /\ UNCHANGED repoDirs
        <3>1. RowsOf(key)' = RowsOf(key) \cup {row}
            BY <2>5, <1>8 DEF RowsOf
        <3>2. RowsOK(key)'
            BY <3>1, <2>1, <1>3 DEF KeyOK, RowsOK
        <3>3. \A w \in RowsOf(key)' : w.owns => Files(w.id) \in repoDirs'[key]
            BY <3>1, <2>1, <2>3, <2>5, <1>3
        <3>4. \A f \in repoDirs'[key] :
                 \/ f[2] = "files" /\ f[1] \in repoKept'
                 \/ \E w \in RowsOf(key)' : w.owns /\ f = Files(w.id)
            BY <3>1, <2>4, <2>5, <1>1, <1>3
        <3> QED BY <3>2, <3>3, <3>4, <2>1, <1>1, <1>4, KeyEnds
    <2>6. CASE Abandon(q) /\ repoRows' = repoRows
        <3>1. RowsOf(key)' = RowsOf(key)
            BY <2>6 DEF RowsOf
        <3>2. RowsOK(key)'
            BY <3>1 DEF KeyOK, RowsOK
        <3>3. \A w \in RowsOf(key)' : w.owns => Files(w.id) \in repoDirs'[key]
            BY <3>1, <2>1, <2>3, <2>6, <1>6, <1>8
        <3>4. \A f \in repoDirs'[key] :
                 \/ f[2] = "files" /\ f[1] \in repoKept'
                 \/ \E w \in RowsOf(key)' : w.owns /\ f = Files(w.id)
            BY <3>1, <2>4, <2>6, <1>1, <1>6, <1>8
        <3> QED BY <3>2, <3>3, <3>4, <2>1, <1>1, <1>4, KeyEnds
    <2> QED BY <2>5, <2>6, <1>5, <1>8
<1> QED BY <1>7, <1>8

LEMMA BeginKey ==
    ASSUME RepoTypeOK, RepoTypeOK', RowIds, NEW q \in RepoCalls, BeginUpdate(q) \/ BeginDelete(q),
           NEW key \in Keys, key \notin repoTouched', KeyOK(key)
    PROVE  KeyOK(key)'
<1>1. /\ \A p \in RepoCalls \ {q} : repoCall'[p] = repoCall[p]
      /\ repoKept' = repoKept /\ repoRows' = repoRows /\ repoDirs' = repoDirs
      /\ ~Active(q) /\ ~On(q, key)
    BY RepoStepper, ActiveEnds DEF BeginUpdate, BeginDelete, Active, Arrives, On
<1>2. PICK w \in repoRows, at \in {"updating", "cleaning"} : Await(q, w, at)
    BY DEF BeginUpdate, BeginDelete
<1>3. w \in RepoRow /\ w.key \in Keys /\ at \in Keeping /\ at \notin Creating
    BY DEF RepoTypeOK, RepoRow, Keeping, Creating
<1>4. repoCall'[q] = [at |-> at, row |-> w]
    BY <1>2, <1>3, AwaitType
<1>5. RowsOf(key)' = RowsOf(key)
    BY <1>1 DEF RowsOf
<1>6. CASE key # w.key
    <2>1. ~On(q, key)'
        BY <1>4, <1>6 DEF On
    <2> QED BY <2>1, <1>1, <1>5, <1>6, OtherKeys
<1>7. CASE key = w.key
    <2>1. /\ \A p \in RepoCalls : ~On(p, key)
          /\ \A p \in RepoCalls : On(p, key)' <=> p = q
        BY <1>1, <1>2, <1>3, <1>7, AwaitAlone
    <2>2. \A x : ~Leaving(x, key) /\ ~Leaving(x, key)'
        BY <2>1, <1>2, <1>4 DEF Leaving
    <2>3. Alone(key)' /\ RowsOK(key)'
        BY <2>1, <1>5 DEF KeyOK, Alone, RowsOK
    <2>4. CallsOK(key)'
        BY <2>1, <1>1, <1>3, <1>4 DEF CallsOK
    <2>5. FilesThere(key)'
        BY <2>1, <2>2, <1>1, <1>2, <1>4, <1>5 DEF KeyOK, FilesThere
    <2>6. NothingElse(key)'
        BY <2>1, <2>2, <1>1, <1>5 DEF KeyOK, NothingElse
    <2> QED BY <2>3, <2>4, <2>5, <2>6 DEF KeyOK
<1> QED BY <1>6, <1>7

LEMMA UpdateKey ==
    ASSUME RepoTypeOK, RepoTypeOK', RowIds, NEW q \in RepoCalls, Update(q) \/ DeleteStops(q),
           NEW key \in Keys, key \notin repoTouched', KeyOK(key)
    PROVE  KeyOK(key)'
<1>1. /\ \A p \in RepoCalls \ {q} : repoCall'[p] = repoCall[p]
      /\ repoKept' = repoKept /\ repoDirs' = repoDirs
      /\ repoCall[q].at \in {"updating", "cleaning"} /\ Active(q) /\ Finish(q)
    BY RepoStepper, ActiveEnds DEF Update, DeleteStops, Active, Raise
<1> DEFINE row == repoCall[q].row
<1>2. row \in RepoRow /\ row.key \in Keys /\ On(q, row.key) /\ \A k : On(q, k) => k = row.key
    BY <1>1, OnOwn
<1>4. ~On(q, key)'
    BY <1>1, FinishType, ActiveEnds DEF On, Active
<1>5. RowsOf(key)' = RowsOf(key)
    <2>1. CASE repoRows' = repoRows
        BY <2>1 DEF RowsOf
    <2>2. ASSUME NEW name \in RepoNames,
                 repoRows' = (repoRows \ {row}) \cup {[row EXCEPT !.name = name, !.how = "url"]},
                 row.key \in repoTouched'
          PROVE  RowsOf(key)' = RowsOf(key)
        <3> DEFINE v == [row EXCEPT !.name = name, !.how = "url"]
        <3>1. v.key = row.key /\ key # row.key
            BY <1>2, <2>2 DEF RepoRow
        <3>2. repoRows' = (repoRows \ {row}) \cup {v}
            BY <2>2
        <3> HIDE DEF v, row
        <3> QED BY <3>1, <3>2 DEF RowsOf
    <2> QED BY <2>1, <2>2 DEF Update, DeleteStops, Touch
<1> HIDE DEF row
<1>6. CASE key # row.key
    BY <1>1, <1>2, <1>4, <1>5, <1>6, OtherKeys
<1>7. CASE key = row.key
    <2>1. Alone(key) /\ On(q, key) /\ \A p \in RepoCalls : On(p, key) => p = q
        BY <1>2, <1>7 DEF KeyOK, Alone
    <2>2. \A w : ~Leaving(w, key)
        BY <2>1, <1>1 DEF Leaving
    <2>3. RowsOK(key)'
        BY <1>5 DEF KeyOK, RowsOK
    <2>4. \A w \in RowsOf(key)' : w.owns => Files(w.id) \in repoDirs'[key]
        BY <2>2, <1>1, <1>5 DEF KeyOK, FilesThere
    <2>5. \A f \in repoDirs'[key] :
             \/ f[2] = "files" /\ f[1] \in repoKept'
             \/ \E w \in RowsOf(key)' : w.owns /\ f = Files(w.id)
        BY <2>1, <1>1, <1>5 DEF KeyOK, NothingElse
    <2> QED BY <2>1, <2>3, <2>4, <2>5, <1>1, <1>4, KeyEnds
<1> QED BY <1>6, <1>7

LEMMA DeleteFilesKey ==
    ASSUME RepoTypeOK, RepoTypeOK', RowIds, NEW q \in RepoCalls, NEW local \in BOOLEAN, DeleteFiles(q, local),
           NEW key \in Keys, key \notin repoTouched', KeyOK(key)
    PROVE  KeyOK(key)'
<1>1. /\ \A p \in RepoCalls \ {q} : repoCall'[p] = repoCall[p]
      /\ repoKept \subseteq repoKept' /\ repoRows' = repoRows
      /\ repoCall[q].at = "cleaning" /\ Active(q)
    BY RepoStepper, ActiveEnds DEF DeleteFiles, Active
<1> DEFINE row == repoCall[q].row
<1>2. row \in RepoRow /\ row.key \in Keys /\ On(q, row.key) /\ \A k : On(q, k) => k = row.key
    BY <1>1, OnOwn
<1>3. RowsOf(key)' = RowsOf(key)
    BY <1>1 DEF RowsOf
<1>4. \/ repoCall'[q] = [at |-> "deleting", row |-> row]
      \/ repoCall'[q].at = "done" /\ row.key \in repoTouched'
    BY <1>1, FinishType, MoveType, ActiveEnds DEF DeleteFiles, Raise, Touch
<1>5. /\ \A k \in Keys \ {row.key} : repoDirs'[k] = repoDirs[k]
      /\ IF local /\ row.owns THEN repoDirs'[row.key] = {} ELSE repoDirs' = repoDirs
      /\ ~local => row.id \in repoKept'
    BY <1>2 DEF DeleteFiles, RemoveTree, RepoTypeOK
<1>6. row.owns \in BOOLEAN
    BY <1>2 DEF RepoRow
<1> HIDE DEF row
<1>7. CASE key # row.key
    <2>1. ~On(q, key) /\ ~On(q, key)'
        BY <1>2, <1>4, <1>7, ActiveEnds DEF On, Active
    <2> QED BY <2>1, <1>1, <1>3, <1>5, <1>7, OtherKeys
<1>8. CASE key = row.key
    <2>1. Alone(key) /\ On(q, key) /\ \A p \in RepoCalls : On(p, key) => p = q
        BY <1>2, <1>8 DEF KeyOK, Alone
    <2>2. repoCall'[q] = [at |-> "deleting", row |-> row]
        BY <1>4, <1>8
    <2>3. \A p \in RepoCalls : On(p, key)' <=> p = q
        BY <2>1, <2>2, <1>1, <1>8, ActiveEnds DEF On, Active
    <2>4. row \in RowsOf(key) /\ row \in repoRows
        BY <2>1, <1>1, <1>8 DEF KeyOK, CallsOK, Keeping, RowsOf, row
    <2>5. /\ \A w : ~Leaving(w, key)
          /\ \A w : Leaving(w, key)' <=> w = row
        BY <2>1, <2>2, <2>3, <1>1 DEF Leaving
    <2>6. Alone(key)' /\ RowsOK(key)'
        BY <2>3, <1>3 DEF KeyOK, Alone, RowsOK
    <2>7. CallsOK(key)'
        BY <2>2, <2>3, <2>4, <1>1 DEF CallsOK, Creating
    <2>8. \A w \in RowsOf(key) : w.owns /\ row.owns => w = row
        BY <2>4 DEF KeyOK, RowsOK
    <2>9. FilesThere(key)'
        <3>1. \A w \in RowsOf(key) : w.owns => Files(w.id) \in repoDirs[key]
            BY <2>5 DEF KeyOK, FilesThere
        <3>2. \A w \in RowsOf(key) : w.owns => Files(w.id) \in repoDirs'[key] \/ w = row
            BY <3>1, <2>8, <1>5, <1>6, <1>8
        <3> QED BY <3>2, <2>2, <2>3, <2>5, <1>3 DEF FilesThere
    <2>10. NothingElse(key)'
        <3>1. \A f \in repoDirs[key] :
                  \/ f[2] = "files" /\ f[1] \in repoKept
                  \/ \E w \in RowsOf(key) : w.owns /\ f = Files(w.id)
            BY <2>1, <1>1 DEF KeyOK, NothingElse
        <3>2. ASSUME NEW f \in repoDirs'[key]
              PROVE  \/ f[2] = "files" /\ f[1] \in repoKept'
                     \/ \E w \in RowsOf(key) : w.owns /\ f = Files(w.id) /\ w # row
            <4>1. ~(local /\ row.owns) /\ f \in repoDirs[key]
                BY <3>2, <1>5, <1>8
            <4>2. CASE f[2] = "files" /\ f[1] \in repoKept
                BY <4>2, <1>1
            <4>3. ASSUME NEW w \in RowsOf(key), w.owns, f = Files(w.id)
                  PROVE  \/ f[2] = "files" /\ f[1] \in repoKept'
                         \/ \E x \in RowsOf(key) : x.owns /\ f = Files(x.id) /\ x # row
                <5>1. CASE w = row
                    BY <5>1, <4>1, <4>3, <1>5 DEF Files
                <5>2. CASE w # row
                    BY <5>2, <4>3
                <5> QED BY <5>1, <5>2
            <4> QED BY <4>1, <4>2, <4>3, <3>1
        <3> QED BY <3>2, <2>5, <1>3 DEF NothingElse
    <2> QED BY <2>6, <2>7, <2>9, <2>10 DEF KeyOK
<1> QED BY <1>7, <1>8

LEMMA DeleteRowKey ==
    ASSUME RepoTypeOK, RepoTypeOK', RowIds, NEW q \in RepoCalls, DeleteRow(q),
           NEW key \in Keys, key \notin repoTouched', KeyOK(key)
    PROVE  KeyOK(key)'
<1>1. /\ \A p \in RepoCalls \ {q} : repoCall'[p] = repoCall[p]
      /\ repoKept' = repoKept /\ repoDirs' = repoDirs
      /\ repoCall[q].at = "deleting" /\ Active(q) /\ Finish(q)
    BY RepoStepper, ActiveEnds DEF DeleteRow, Active, Raise
<1> DEFINE row == repoCall[q].row
<1>2. row \in RepoRow /\ row.key \in Keys /\ On(q, row.key) /\ \A k : On(q, k) => k = row.key
    BY <1>1, OnOwn
<1>3. ~On(q, key)'
    BY <1>1, FinishType, ActiveEnds DEF On, Active
<1>4. \A v \in repoRows : v.id = row.id => v.key = row.key
    BY <1>1 DEF RowIds, Keeping
<1>5. \/ repoRows' = {v \in repoRows : v.id # row.id}
      \/ repoRows' = repoRows /\ row.key \in repoTouched'
    BY DEF DeleteRow, Touch
<1>9. \A v, w \in repoRows : v.id = w.id => v = w
    BY DEF RowIds
<1> HIDE DEF row
<1>6. CASE key # row.key
    <2>1. ~On(q, key) /\ RowsOf(key)' = RowsOf(key)
        BY <1>2, <1>4, <1>5, <1>6 DEF RowsOf
    <2> QED BY <2>1, <1>1, <1>3, <1>6, OtherKeys
<1>7. CASE key = row.key
    <2>1. Alone(key) /\ On(q, key) /\ \A p \in RepoCalls : On(p, key) => p = q
        BY <1>2, <1>7 DEF KeyOK, Alone
    <2>2. row \in repoRows
        BY <2>1, <1>1 DEF KeyOK, CallsOK, Keeping, row
    <2>3. RowsOf(key)' = RowsOf(key) \ {row}
        BY <2>2, <1>5, <1>7, <1>9 DEF RowsOf
    <2>4. \A w : Leaving(w, key) <=> w = row
        BY <2>1, <1>1 DEF Leaving, row
    <2>5. RowsOK(key)'
        BY <2>3 DEF KeyOK, RowsOK
    <2>6. \A w \in RowsOf(key)' : w.owns => Files(w.id) \in repoDirs'[key]
        BY <2>3, <2>4, <1>1 DEF KeyOK, FilesThere
    <2>7. \A f \in repoDirs'[key] :
             \/ f[2] = "files" /\ f[1] \in repoKept'
             \/ \E w \in RowsOf(key)' : w.owns /\ f = Files(w.id)
        BY <2>1, <2>3, <2>4, <1>1 DEF KeyOK, NothingElse
    <2> QED BY <2>1, <2>5, <2>6, <2>7, <1>1, <1>3, KeyEnds
<1> QED BY <1>6, <1>7

LEMMA RepoInitInv == RepoInit => RepoInv
<1> SUFFICES ASSUME RepoInit PROVE RepoInv
    OBVIOUS
<1>1. RepoTypeOK
    BY DEF RepoInit, RepoTypeOK, RepoCallType, NoRepoCall
<1>2. RowIds
    BY DEF RepoInit, RowIds, NoRepoCall, Creating, Keeping
<1>3. \A key \in Keys : KeyOK(key)
    <2> TAKE key \in Keys
    <2>1. \A p \in RepoCalls : ~On(p, key)
        BY DEF RepoInit, NoRepoCall, On, Active, Creating, Keeping
    <2>2. repoDirs[key] = {} /\ RowsOf(key) = {}
        BY DEF RepoInit, RowsOf
    <2> QED BY <2>1, <2>2 DEF KeyOK, Alone, RowsOK, CallsOK, FilesThere, NothingElse
<1> QED BY <1>1, <1>2, <1>3 DEF RepoInv

LEMMA RepoStepInv == RepoInv /\ [RepoNext]_repoVars => RepoInv'
<1> SUFFICES ASSUME RepoInv, [RepoNext]_repoVars PROVE RepoInv'
    OBVIOUS
<1>1. CASE UNCHANGED repoVars
    <2>1. RepoTypeOK' /\ RowIds'
        BY <1>1 DEF RepoInv, repoVars, RepoTypeOK, RowIds
    <2>2. \A key : Alone(key)' = Alone(key) /\ RowsOK(key)' = RowsOK(key)
        BY <1>1 DEF repoVars, Alone, RowsOK, RowsOf, On, Active
    <2>3. \A key : CallsOK(key)' = CallsOK(key) /\ FilesThere(key)' = FilesThere(key)
        BY <1>1 DEF repoVars, CallsOK, FilesThere, RowsOf, On, Active, Leaving
    <2>4. \A key : NothingElse(key)' = NothingElse(key)
        BY <1>1 DEF repoVars, NothingElse, RowsOf, On, Active, Leaving
    <2> QED BY <2>1, <2>2, <2>3, <2>4, <1>1 DEF RepoInv, KeyOK, repoVars
<1>2. ASSUME NEW q \in RepoCalls,
             \/ Create(q) \/ Unpack(q) \/ AddRow(q) \/ BeginUpdate(q) \/ Update(q)
             \/ BeginDelete(q) \/ (\E local \in BOOLEAN : DeleteFiles(q, local)) \/ DeleteStops(q) \/ DeleteRow(q)
      PROVE  RepoInv'
    <2>1. RepoTypeOK /\ RowIds
        BY DEF RepoInv
    <2>2. RepoTypeOK'
        BY <1>2, <2>1, RepoTypeStep
    <2>3. RowIds'
        BY <1>2, <2>1, <2>2, RowIdsStep
    <2>4. ASSUME NEW key \in Keys \ repoTouched' PROVE KeyOK(key)'
        <3>1. key \in Keys /\ key \notin repoTouched' /\ KeyOK(key)
            BY <1>2, <2>1, RepoStepper DEF RepoInv
        <3> QED BY <3>1, <1>2, <2>1, <2>2, CreateKey, UnpackKey, AddRowKey, BeginKey, UpdateKey,
                   DeleteFilesKey, DeleteRowKey
    <2> QED BY <2>2, <2>3, <2>4 DEF RepoInv
<1> QED BY <1>1, <1>2 DEF RepoNext

LEMMA RepoInvSound == RepoInv => ReposSound
<1> SUFFICES ASSUME RepoInv PROVE ReposSound
    OBVIOUS
<1>1. NamesUnique
    <2> SUFFICES ASSUME NEW v \in repoRows, NEW w \in repoRows, v # w, v.key = w.key,
                        {v.how, w.how} \subseteq {"package", "path"}, v.key \notin repoTouched
                 PROVE  FALSE
        BY DEF NamesUnique
    <2>1. v.key \in Keys
        BY DEF RepoInv, RepoTypeOK, RepoRow
    <2>2. v \in RowsOf(v.key) /\ w \in RowsOf(v.key)
        BY DEF RowsOf
    <2> QED BY <2>1, <2>2 DEF RepoInv, KeyOK, RowsOK
<1>2. UploadsKept
    <2> SUFFICES ASSUME NEW key \in Keys \ repoTouched,
                        \A q \in RepoCalls : repoCall[q].at \notin {"new", "done"} => repoCall[q].row.key # key
                 PROVE  LET owned == {w.id : w \in {v \in repoRows : v.owns /\ v.key = key}} IN
                        /\ \A id \in owned : Files(id) \in repoDirs[key]
                        /\ \A f \in repoDirs[key] : f[2] = "files" /\ f[1] \in owned \cup repoKept
        BY DEF UploadsKept
    <2>1. \A q \in RepoCalls : ~On(q, key)
        BY DEF On, Active, Creating, Keeping
    <2>2. KeyOK(key)
        BY DEF RepoInv
    <2>3. \A w \in RowsOf(key) : w.owns => Files(w.id) \in repoDirs[key]
        BY <2>1, <2>2 DEF KeyOK, FilesThere, Leaving
    <2>4. \A f \in repoDirs[key] :
              \/ f[2] = "files" /\ f[1] \in repoKept
              \/ \E w \in RowsOf(key) : w.owns /\ f = Files(w.id)
        BY <2>1, <2>2 DEF KeyOK, NothingElse
    <2> QED BY <2>3, <2>4 DEF RowsOf, Files
<1> QED BY <1>1, <1>2 DEF ReposSound

\* For any users, names and calls, and any number of failing steps: while
\* requests for a name do not overlap, a row of an upload has its files and
\* no other row has them, and no two uploads or paths share a name.
THEOREM ReposAreSound == RepoSpec => []ReposSound
BY RepoInitInv, RepoStepInv, RepoInvSound, PTL DEF RepoSpec

-----------------------------------------------------------------------------
(***************************************************************************)
(* The vectors of a file. A call that has the file to itself is the only   *)
(* one under way, and between its deletion and its insertion nothing but   *)
(* its own records is there.                                               *)
(***************************************************************************)

\* The calls and the state of the index.
VecAts == {"none", "embed", "create", "exists", "delete", "insert"}
VecCallOK(r) ==
    /\ r = [at |-> r.at, kind |-> r.kind, version |-> r.version, tries |-> r.tries,
            alone |-> r.alone, missed |-> r.missed]
    /\ r.at \in VecAts /\ r.kind \in {"store", "delete"} /\ r.alone \in BOOLEAN /\ r.missed \in BOOLEAN
    /\ r.at # "none" /\ r.kind = "store" => r.version \in Versions
    /\ (r.at = "insert" => r.kind = "store") /\ (r.at = "exists" => r.kind = "delete")
VecCallsOK ==
    /\ vecCall = [c \in VecCallers |-> vecCall[c]]
    /\ \A c \in VecCallers : VecCallOK(vecCall[c])
    /\ vecGone \in BOOLEAN /\ vecSpace \in {"absent", "mapped", "unmapped"}
\* A call that was alone is the only one under way, and its index was made.
VecAlone ==
    /\ \A c, d \in VecCallers : vecCall[c].at # "none" /\ vecCall[d].at # "none" /\ vecCall[c].alone => c = d
    /\ vecLast.kind # "none" => \A c \in VecCallers : vecCall[c].at = "none"
\* Who deletes or inserts has found the index, or made it.
VecMade == \A c \in VecCallers : vecCall[c].at \in {"delete", "insert"} => vecSpace # "absent" \/ vecGone
\* Between its requests, what lies in the index is its own.
VecOwn ==
    \A c \in VecCallers : vecCall[c].at = "insert" /\ vecCall[c].alone /\ ~vecCall[c].missed
        => vecDocs \subseteq Records(vecCall[c].version)
VecInv == VectorsSound /\ VecCallsOK /\ VecAlone /\ VecMade /\ VecOwn

LEMMA VecEnds ==
    ASSUME VecCallsOK, VecAlone, NEW c \in VecCallers, vecCall[c].at # "none", NEW how, VecReturn(c, how)
    PROVE  /\ vecCall' = [k \in VecCallers |-> vecCall'[k]]
           /\ vecCall'[c] = NoVecCall
           /\ \A k \in VecCallers \ {c} : vecCall'[k] = vecCall[k]
           /\ \A k \in VecCallers : VecCallOK(vecCall'[k])
           /\ VecAlone'
           /\ vecLast'.kind # "none" =>
                /\ vecCall[c].alone /\ how = "done"
                /\ vecLast'.kind = vecCall[c].kind /\ vecLast'.version = vecCall[c].version
                /\ vecLast'.missed = vecCall[c].missed
<1>1. vecCall = [k \in VecCallers |-> vecCall[k]] /\ \A k \in VecCallers : VecCallOK(vecCall[k])
    BY DEF VecCallsOK
<1>2. /\ vecCall' = [k \in VecCallers |-> vecCall'[k]]
      /\ vecCall'[c] = NoVecCall
      /\ \A k \in VecCallers \ {c} : vecCall'[k] = vecCall[k]
    BY <1>1 DEF VecReturn
<1>3. VecCallOK(NoVecCall)
    BY DEF VecCallOK, NoVecCall, VecAts
<1>4. \A k \in VecCallers : VecCallOK(vecCall'[k])
    BY <1>1, <1>2, <1>3
<1>5. vecLast'.kind # "none" =>
                /\ vecCall[c].alone /\ how = "done"
                /\ vecLast'.kind = vecCall[c].kind /\ vecLast'.version = vecCall[c].version
                /\ vecLast'.missed = vecCall[c].missed
    BY DEF VecReturn, NothingLast
<1>6. VecAlone'
    <2>1. vecCall'[c].at = "none"
        BY <1>2 DEF NoVecCall
    <2> QED BY <2>1, <1>2, <1>5 DEF VecAlone
<1> QED BY <1>2, <1>4, <1>5, <1>6

LEMMA VecMoves ==
    ASSUME VecCallsOK, VecAlone, NEW c \in VecCallers, vecCall[c].at # "none", NEW r, VecCallOK(r),
           vecCall' = [vecCall EXCEPT ![c] = r], vecLast' = vecLast,
           r.at # "none", r.alone = vecCall[c].alone
    PROVE  /\ vecCall' = [k \in VecCallers |-> vecCall'[k]]
           /\ vecCall'[c] = r
           /\ \A k \in VecCallers \ {c} : vecCall'[k] = vecCall[k]
           /\ \A k \in VecCallers : VecCallOK(vecCall'[k])
           /\ VecAlone'
           /\ vecLast'.kind = "none"
<1>1. vecCall = [k \in VecCallers |-> vecCall[k]] /\ \A k \in VecCallers : VecCallOK(vecCall[k])
    BY DEF VecCallsOK
<1>2. /\ vecCall' = [k \in VecCallers |-> vecCall'[k]]
      /\ vecCall'[c] = r
      /\ \A k \in VecCallers \ {c} : vecCall'[k] = vecCall[k]
    BY <1>1
<1>3. vecLast.kind = "none"
    BY DEF VecAlone
<1>4. VecAlone'
    BY <1>2, <1>3 DEF VecAlone
<1> QED BY <1>1, <1>2, <1>3, <1>4

LEMMA VecGoes ==
    ASSUME VecCallsOK, VecAlone, NEW c \in VecCallers, vecCall[c].at # "none", NEW at \in VecAts \ {"none"},
           VecGoto(c, at), vecLast' = vecLast,
           (at = "insert" => vecCall[c].kind = "store") /\ (at = "exists" => vecCall[c].kind = "delete")
    PROVE  /\ vecCall' = [k \in VecCallers |-> vecCall'[k]]
           /\ vecCall'[c].at = at /\ vecCall'[c].alone = vecCall[c].alone
           /\ \A k \in VecCallers \ {c} : vecCall'[k] = vecCall[k]
           /\ \A k \in VecCallers : VecCallOK(vecCall'[k])
           /\ VecAlone'
           /\ vecLast'.kind = "none"
<1> DEFINE r == [vecCall[c] EXCEPT !.at = at]
<1>1. VecCallOK(vecCall[c])
    BY DEF VecCallsOK
<1>2. r.at = at /\ r.alone = vecCall[c].alone /\ VecCallOK(r)
    BY <1>1 DEF VecCallOK
<1>3. vecCall' = [vecCall EXCEPT ![c] = r]
    BY DEF VecGoto
<1> HIDE DEF r
<1> QED BY <1>2, <1>3, VecMoves

\* Ids name one record of a version.
LEMMA RecordIds ==
    \A v \in Versions : \A d, e \in Records(v) : d.id = e.id => d = e
BY DEF Records, StableId

LEMMA IndexedOK ==
    ASSUME VecTypeOK, NEW v \in Versions, NEW new \in SUBSET Records(v), BulkApplies(new)
    PROVE  VecTypeOK'
<1>1. vecDocs' = {d \in vecDocs : \A n \in new : n.id # d.id} \cup new
    BY DEF BulkApplies, Indexed
<1>2. vecDocs' \subseteq UNION {Records(w) : w \in Versions}
    BY <1>1 DEF VecTypeOK
<1>3. \A d, e \in vecDocs' : d.id = e.id => d = e
    BY <1>1, RecordIds DEF VecTypeOK
<1>4. vecSpace' # "absent"
    BY DEF BulkApplies
<1> QED BY <1>2, <1>3, <1>4 DEF VecTypeOK

LEMMA VecBeginInv ==
    ASSUME VecInv, NEW c \in VecCallers, NEW kind \in {"store", "delete"}, NEW v,
           kind = "store" => v \in Versions, VecBegin(c, kind, v)
    PROVE  VecInv'
<1> USE DEF VecInv
<1> DEFINE free == VecBusy = {}
           r == [NoVecCall EXCEPT !.at = "embed", !.kind = kind, !.version = v, !.alone = free]
<1>1. /\ vecLast'.kind = "none" /\ vecDocs' = vecDocs /\ vecSpace' = vecSpace /\ vecGone' = vecGone
      /\ vecCall' = [k \in VecCallers |-> IF k = c THEN r ELSE [vecCall[k] EXCEPT !.alone = FALSE]]
    BY DEF VecBegin, NothingLast
<1>f. free \in BOOLEAN
    OBVIOUS
<1>b. free => \A k \in VecCallers : vecCall[k].at = "none"
    BY DEF VecBusy
<1> HIDE DEF free
<1>r. r = [at |-> "embed", kind |-> kind, version |-> v, tries |-> 0, alone |-> free, missed |-> FALSE]
    <2> DEFINE none == "none"   store == "store"   one == 1   zero == 0   yes == TRUE   no == FALSE
               embed == "embed"
               s1 == [NoVecCall EXCEPT !.at = embed]
               s2 == [s1 EXCEPT !.kind = kind]
               s3 == [s2 EXCEPT !.version = v]
               s4 == [s3 EXCEPT !.alone = free]
    <2>1. r = s4
        BY Zenon
    <2>2. NoVecCall = [at |-> none, kind |-> store, version |-> one, tries |-> zero, alone |-> yes, missed |-> no]
        BY DEF NoVecCall
    <2> HIDE DEF none, store, one, zero, yes, no, embed
    <2>3. s1 = [at |-> embed, kind |-> store, version |-> one, tries |-> zero, alone |-> yes, missed |-> no]
        BY ONLY <2>2, SMT DEF s1
    <2> HIDE DEF s1
    <2>4. s2 = [at |-> embed, kind |-> kind, version |-> one, tries |-> zero, alone |-> yes, missed |-> no]
        BY ONLY <2>3, SMT DEF s2
    <2> HIDE DEF s2
    <2>5. s3 = [at |-> embed, kind |-> kind, version |-> v, tries |-> zero, alone |-> yes, missed |-> no]
        BY ONLY <2>4, SMT DEF s3
    <2> HIDE DEF s3
    <2>6. s4 = [at |-> embed, kind |-> kind, version |-> v, tries |-> zero, alone |-> free, missed |-> no]
        BY ONLY <2>5, SMT DEF s4
    <2> HIDE DEF s4
    <2> QED BY <2>1, <2>6 DEF embed, zero, no
<1> HIDE DEF r
<1>2. r.at = "embed" /\ r.alone = free /\ VecCallOK(r)
    <2>1. r.at = "embed" /\ r.alone = free /\ r.kind = kind /\ r.version = v /\ r.missed = FALSE /\ r.tries = 0
        BY <1>r
    <2> QED BY <2>1, <1>r, <1>f DEF VecCallOK, VecAts
<1>3. ASSUME NEW k \in VecCallers \ {c}
      PROVE  /\ VecCallOK(vecCall'[k]) /\ vecCall'[k].alone = FALSE /\ vecCall'[k].at = vecCall[k].at
    <2>1. VecCallOK(vecCall[k])
        BY DEF VecCallsOK
    <2> QED BY <2>1, <1>1 DEF VecCallOK
<1>4. vecCall'[c] = r
    BY <1>1
<1>5. VecCallsOK'
    BY <1>1, <1>2, <1>3, <1>4 DEF VecCallsOK
<1>6. VecAlone'
    <2>1. ASSUME NEW k \in VecCallers, NEW d \in VecCallers, vecCall'[k].at # "none",
                 vecCall'[d].at # "none", vecCall'[k].alone
          PROVE  k = d
        <3>1. k = c /\ free
            BY <2>1, <1>2, <1>3, <1>4
        <3> QED BY <3>1, <2>1, <1>b, <1>3
    <2> QED BY <2>1, <1>1 DEF VecAlone
<1>7. VecMade' /\ VecOwn'
    BY <1>1, <1>2, <1>3, <1>4 DEF VecMade, VecOwn
<1>8. VectorsSound'
    BY <1>1 DEF VectorsSound, VecTypeOK, VecStored, VecDeleted, VecSearchable
<1> QED BY <1>5, <1>6, <1>7, <1>8

\* A step that leaves the index alone and notes no success.
LEMMA VecQuiet ==
    ASSUME VecInv, NEW c \in VecCallers, VecCallsOK', VecAlone',
           UNCHANGED <<vecSpace, vecDocs, vecGone>>,
           \A k \in VecCallers \ {c} : vecCall'[k] = vecCall[k],
           vecLast'.kind = "none" \/ (vecLast'.kind = "delete" /\ vecDocs = {}),
           vecCall'[c].at \in {"delete", "insert"} => vecSpace # "absent" \/ vecGone,
           vecCall'[c].at # "insert"
    PROVE  VecInv'
<1> USE DEF VecInv
<1>1. VecMade' /\ VecOwn'
    BY DEF VecMade, VecOwn
<1>2. VectorsSound'
    BY DEF VectorsSound, VecTypeOK, VecStored, VecDeleted, VecSearchable
<1> QED BY <1>1, <1>2

LEMMA EmbedInv ==
    ASSUME VecInv, NEW c \in VecCallers, Embed(c) PROVE VecInv'
<1>1. VecCallsOK /\ VecAlone /\ vecCall[c].at # "none" /\ VecCallOK(vecCall[c])
    BY DEF VecInv, VecCallsOK, Embed
<1>2. UNCHANGED <<vecSpace, vecDocs, vecGone>>
    BY DEF Embed
<1>3. CASE \E how \in {"kept", "failed"} : VecReturn(c, how)
    <2>1. vecCall'[c].at = "none" /\ vecLast'.kind = "none" /\ VecCallsOK' /\ VecAlone'
          /\ \A k \in VecCallers \ {c} : vecCall'[k] = vecCall[k]
        BY <1>1, <1>2, <1>3, VecEnds DEF VecCallsOK, NoVecCall
    <2> QED BY <2>1, <1>2, VecQuiet
<1>4. CASE VecGoto(c, IF vecCall[c].kind = "store" THEN "create" ELSE "exists") /\ vecLast' = vecLast
    <2> DEFINE at == IF vecCall[c].kind = "store" THEN "create" ELSE "exists"
    <2>0. at \in VecAts \ {"none"} /\ at \notin {"delete", "insert"} /\ (at = "exists" => vecCall[c].kind = "delete")
        BY <1>1 DEF VecCallOK, VecAts
    <2> HIDE DEF at
    <2>1. /\ vecCall'[c].at = at /\ vecLast'.kind = "none" /\ VecCallsOK' /\ VecAlone'
          /\ \A k \in VecCallers \ {c} : vecCall'[k] = vecCall[k]
        BY <2>0, <1>1, <1>2, <1>4, VecGoes DEF VecCallsOK, at
    <2> QED BY <2>0, <2>1, <1>2, VecQuiet
<1>5. CASE vecCall' = [vecCall EXCEPT ![c].at = "create", ![c].tries = Attempts] /\ vecLast' = vecLast
    <2> DEFINE r == [vecCall[c] EXCEPT !.at = "create", !.tries = Attempts]
    <2>0. vecCall' = [vecCall EXCEPT ![c] = r]
        BY <1>5, <1>1
    <2>r. /\ vecCall[c].kind \in {"store", "delete"} /\ vecCall[c].alone \in BOOLEAN
          /\ vecCall[c].missed \in BOOLEAN
          /\ vecCall[c].kind = "store" => vecCall[c].version \in Versions
        BY <1>1 DEF VecCallOK
    <2>s. r = [at |-> "create", kind |-> vecCall[c].kind, version |-> vecCall[c].version, tries |-> Attempts,
               alone |-> vecCall[c].alone, missed |-> vecCall[c].missed]
        <3>1. vecCall[c] = [at |-> vecCall[c].at, kind |-> vecCall[c].kind, version |-> vecCall[c].version,
                            tries |-> vecCall[c].tries, alone |-> vecCall[c].alone, missed |-> vecCall[c].missed]
            BY <1>1 DEF VecCallOK
        <3> DEFINE s1 == [vecCall[c] EXCEPT !.at = "create"]
        <3>2. r = [s1 EXCEPT !.tries = Attempts]
            BY Zenon
        <3>3. s1 = [at |-> "create", kind |-> vecCall[c].kind, version |-> vecCall[c].version,
                    tries |-> vecCall[c].tries, alone |-> vecCall[c].alone, missed |-> vecCall[c].missed]
            BY ONLY <3>1, SMT DEF s1
        <3> HIDE DEF r, s1
        <3> QED BY ONLY <3>2, <3>3, SMT
    <2>1. VecCallOK(r) /\ r.at = "create" /\ r.alone = vecCall[c].alone
        BY <2>r, <2>s DEF VecCallOK, VecAts
    <2> HIDE DEF r
    <2>2. /\ vecCall'[c].at = "create" /\ vecLast'.kind = "none" /\ VecCallsOK' /\ VecAlone'
          /\ \A k \in VecCallers \ {c} : vecCall'[k] = vecCall[k]
        BY <2>0, <2>1, <1>1, <1>2, <1>5, VecMoves DEF VecCallsOK
    <2> QED BY <2>2, <1>2, VecQuiet
<1> QED BY <1>3, <1>4, <1>5 DEF Embed

LEMMA CreateSpaceInv ==
    ASSUME VecInv, NEW c \in VecCallers, CreateSpace(c) PROVE VecInv'
<1>1. VecCallsOK /\ VecAlone /\ vecCall[c].at # "none" /\ VectorsSound
    BY DEF VecInv, CreateSpace
<1>2. /\ vecCall'[c].at = "delete" /\ vecLast'.kind = "none" /\ VecAlone'
      /\ \A k \in VecCallers \ {c} : vecCall'[k] = vecCall[k]
      /\ vecCall' = [k \in VecCallers |-> vecCall'[k]]
      /\ \A k \in VecCallers : VecCallOK(vecCall'[k])
    BY <1>1, VecGoes DEF CreateSpace, VecAts
<1>3. /\ vecDocs' = vecDocs
      /\ \/ vecSpace' = (IF vecSpace = "absent" THEN "mapped" ELSE vecSpace) /\ vecGone' = vecGone
         \/ vecSpace' = vecSpace /\ vecGone' = TRUE
    BY DEF CreateSpace
<1>4. VecCallsOK'
    BY <1>1, <1>2, <1>3 DEF VecCallsOK
<1>5. VecMade' /\ VecOwn'
    BY <1>2, <1>3 DEF VecMade, VecOwn, VecInv
<1>6. VectorsSound'
    BY <1>1, <1>2, <1>3 DEF VectorsSound, VecTypeOK, VecStored, VecDeleted, VecSearchable
<1> QED BY <1>2, <1>4, <1>5, <1>6 DEF VecInv

LEMMA SpaceExistsInv ==
    ASSUME VecInv, NEW c \in VecCallers, SpaceExists(c) PROVE VecInv'
<1>1. VecCallsOK /\ VecAlone /\ vecCall[c].at # "none" /\ vecCall[c].kind = "delete"
    BY DEF VecInv, VecCallsOK, VecCallOK, SpaceExists
<1>2. UNCHANGED <<vecSpace, vecDocs, vecGone>>
    BY DEF SpaceExists
<1>3. CASE VecReturn(c, "failed") \/ (VecReturn(c, "done") /\ vecSpace = "absent")
    <2>1. /\ vecCall'[c].at = "none" /\ VecCallsOK' /\ VecAlone'
          /\ \A k \in VecCallers \ {c} : vecCall'[k] = vecCall[k]
          /\ vecLast'.kind = "none" \/ (vecLast'.kind = "delete" /\ vecSpace = "absent")
        BY <1>1, <1>2, <1>3, VecEnds DEF VecCallsOK, NoVecCall
    <2>2. vecSpace = "absent" => vecDocs = {}
        BY DEF VecInv, VectorsSound, VecTypeOK
    <2> QED BY <2>1, <2>2, <1>2, VecQuiet
<1>4. CASE vecSpace # "absent" /\ VecGoto(c, "delete") /\ vecLast' = vecLast
    <2>1. /\ vecCall'[c].at = "delete" /\ vecLast'.kind = "none" /\ VecCallsOK' /\ VecAlone'
          /\ \A k \in VecCallers \ {c} : vecCall'[k] = vecCall[k]
        BY <1>1, <1>2, <1>4, VecGoes DEF VecCallsOK, VecAts
    <2> QED BY <2>1, <1>2, <1>4, VecQuiet
<1> QED BY <1>3, <1>4 DEF SpaceExists

LEMMA DeleteRecordsInv ==
    ASSUME VecInv, NEW c \in VecCallers, DeleteRecords(c) PROVE VecInv'
<1>1. VecCallsOK /\ VecAlone /\ vecCall[c].at # "none" /\ VectorsSound /\ VecCallOK(vecCall[c])
    BY DEF VecInv, VecCallsOK, DeleteRecords
<1>2. vecSpace' = vecSpace /\ vecGone' = vecGone
    BY DEF DeleteRecords
<1>3. PICK works \in BOOLEAN :
        /\ IF works THEN vecDocs' = {} ELSE vecDocs' = vecDocs
        /\ IF vecCall[c].kind = "delete" THEN VecReturn(c, IF works THEN "done" ELSE "failed")
           ELSE IF vecCall[c].tries = Attempts THEN VecReturn(c, "raised")
           ELSE /\ vecCall' = [vecCall EXCEPT ![c].at = "insert", ![c].missed = ~works]
                /\ UNCHANGED vecLast
    BY DEF DeleteRecords
<1>4. vecDocs' \subseteq vecDocs
    BY <1>3
<1>5. VecTypeOK' /\ VecSearchable'
    BY <1>1, <1>2, <1>4 DEF VectorsSound, VecTypeOK, VecSearchable
<1>6. vecSpace # "absent" \/ vecGone
    BY DEF VecInv, VecMade, DeleteRecords
<1>7. CASE \E how : VecReturn(c, how) /\ (how = "done" => works /\ vecCall[c].kind = "delete")
    <2>1. /\ vecCall'[c].at = "none" /\ VecCallsOK' /\ VecAlone'
          /\ \A k \in VecCallers \ {c} : vecCall'[k] = vecCall[k]
          /\ vecLast'.kind = "none" \/ (vecLast'.kind = "delete" /\ vecDocs' = {})
        BY <1>1, <1>2, <1>3, <1>7, VecEnds DEF VecCallsOK, NoVecCall
    <2>2. VecMade' /\ VecOwn'
        BY <2>1, <1>2, <1>4 DEF VecInv, VecMade, VecOwn
    <2>3. VecStored' /\ VecDeleted'
        BY <2>1 DEF VecStored, VecDeleted
    <2> QED BY <2>1, <2>2, <2>3, <1>5 DEF VecInv, VectorsSound
<1>8. CASE /\ vecCall[c].kind # "delete" /\ vecLast' = vecLast
           /\ vecCall' = [vecCall EXCEPT ![c].at = "insert", ![c].missed = ~works]
    <2> DEFINE missed == ~works
               r == [vecCall[c] EXCEPT !.at = "insert", !.missed = missed]
    <2>0. vecCall' = [vecCall EXCEPT ![c] = r]
        BY <1>8, <1>1
    <2>m. missed \in BOOLEAN /\ (~missed => works)
        OBVIOUS
    <2> HIDE DEF missed
    <2>1. /\ VecCallOK(r) /\ r.at = "insert" /\ r.alone = vecCall[c].alone
          /\ r.missed = missed /\ r.version = vecCall[c].version
        <3>1. /\ vecCall[c].kind = "store" /\ vecCall[c].alone \in BOOLEAN
              /\ vecCall[c].version \in Versions
            BY <1>1, <1>8 DEF VecCallOK
        <3>2. r = [at |-> "insert", kind |-> vecCall[c].kind, version |-> vecCall[c].version,
                   tries |-> vecCall[c].tries, alone |-> vecCall[c].alone, missed |-> missed]
            <4>1. vecCall[c] = [at |-> vecCall[c].at, kind |-> vecCall[c].kind, version |-> vecCall[c].version,
                                tries |-> vecCall[c].tries, alone |-> vecCall[c].alone, missed |-> vecCall[c].missed]
                BY <1>1 DEF VecCallOK
            <4> DEFINE s1 == [vecCall[c] EXCEPT !.at = "insert"]
            <4>2. r = [s1 EXCEPT !.missed = missed]
                BY Zenon
            <4>3. s1 = [at |-> "insert", kind |-> vecCall[c].kind, version |-> vecCall[c].version,
                        tries |-> vecCall[c].tries, alone |-> vecCall[c].alone, missed |-> vecCall[c].missed]
                BY ONLY <4>1, SMT DEF s1
            <4> HIDE DEF r, s1
            <4> QED BY ONLY <4>2, <4>3, SMT
        <3> QED BY <3>1, <3>2, <2>m DEF VecCallOK, VecAts
    <2> HIDE DEF r
    <2>2. /\ vecCall'[c] = r /\ vecLast'.kind = "none" /\ VecCallsOK' /\ VecAlone'
          /\ \A k \in VecCallers \ {c} : vecCall'[k] = vecCall[k]
        BY <2>0, <2>1, <1>1, <1>2, <1>8, VecMoves DEF VecCallsOK
    <2>3. VecMade' /\ VecOwn'
        BY <2>1, <2>2, <2>m, <1>2, <1>3, <1>4, <1>6 DEF VecInv, VecMade, VecOwn
    <2>4. VecStored' /\ VecDeleted'
        BY <2>2 DEF VecStored, VecDeleted
    <2> QED BY <2>2, <2>3, <2>4, <1>5 DEF VecInv, VectorsSound
<1>9. \/ vecCall[c].kind = "delete" /\ VecReturn(c, IF works THEN "done" ELSE "failed")
      \/ VecReturn(c, "raised")
      \/ /\ vecCall[c].kind # "delete" /\ vecLast' = vecLast
         /\ vecCall' = [vecCall EXCEPT ![c].at = "insert", ![c].missed = ~works]
    BY <1>3
<1> QED BY <1>7, <1>8, <1>9

LEMMA InsertRecordsInv ==
    ASSUME VecInv, NEW c \in VecCallers, InsertRecords(c) PROVE VecInv'
<1>1. VecCallsOK /\ VecAlone /\ vecCall[c].at = "insert" /\ VectorsSound /\ VecCallOK(vecCall[c])
    BY DEF VecInv, VecCallsOK, InsertRecords
<1> DEFINE v == vecCall[c].version
           new == Records(v)
<1>2. v \in Versions /\ vecCall[c].kind = "store" /\ vecCall[c].missed \in BOOLEAN
    BY <1>1 DEF VecCallOK
<1>3. vecGone' = vecGone /\ (vecSpace # "absent" \/ vecGone)
    BY <1>1 DEF InsertRecords, VecInv, VecMade
<1>4. \/ UNCHANGED <<vecDocs, vecSpace>>
      \/ \E some \in SUBSET new : BulkApplies(some)
    BY DEF InsertRecords
<1>5. \/ VecReturn(c, "done") /\ BulkApplies(new)
      \/ VecReturn(c, "raised")
      \/ vecCall' = [vecCall EXCEPT ![c].tries = @ + 1] /\ vecLast' = vecLast
    BY DEF InsertRecords
<1> HIDE DEF new, v
<1>6. VecTypeOK' /\ VecSearchable' /\ (vecSpace # "absent" => vecSpace' # "absent")
      /\ vecSpace' \in {"absent", "mapped", "unmapped"}
    <2>1. CASE UNCHANGED <<vecDocs, vecSpace>>
        BY <2>1, <1>1, <1>3 DEF VectorsSound, VecTypeOK, VecSearchable, VecCallsOK
    <2>2. ASSUME NEW some \in SUBSET new, BulkApplies(some)
          PROVE  VecTypeOK' /\ VecSearchable' /\ vecSpace' # "absent" /\ vecSpace' \in {"absent", "mapped", "unmapped"}
        <3>1. VecTypeOK'
            BY <2>2, <1>1, <1>2, IndexedOK DEF VectorsSound, new
        <3>2. vecSpace' = IF vecSpace = "absent" THEN "unmapped" ELSE vecSpace
            BY <2>2 DEF BulkApplies
        <3>3. VecSearchable'
            BY <3>2, <1>1, <1>3 DEF VectorsSound, VecSearchable
        <3> QED BY <3>1, <3>2, <3>3, <1>1 DEF VecCallsOK
    <2> QED BY <2>1, <2>2, <1>4
<1>7. \A d \in vecDocs' : d \in vecDocs \/ d \in new
    BY <1>4 DEF BulkApplies, Indexed
<1>8. vecCall[c].alone /\ ~vecCall[c].missed => vecDocs \subseteq new
    BY <1>1 DEF VecInv, VecOwn, new, v
<1>9. \A k \in VecCallers \ {c} : vecCall[k].at # "none" => ~vecCall[k].alone
    BY <1>1 DEF VecAlone, VecCallsOK, VecCallOK
<1>10. CASE \E how : VecReturn(c, how) /\ (how = "done" => BulkApplies(new))
    <2>1. PICK how : VecReturn(c, how) /\ (how = "done" => BulkApplies(new))
        BY <1>10
    <2>2. /\ vecCall'[c] = NoVecCall
          /\ vecCall' = [k \in VecCallers |-> vecCall'[k]]
          /\ \A k \in VecCallers \ {c} : vecCall'[k] = vecCall[k]
          /\ \A k \in VecCallers : VecCallOK(vecCall'[k])
          /\ VecAlone'
          /\ vecLast'.kind # "none" =>
                /\ vecCall[c].alone /\ how = "done"
                /\ vecLast'.kind = vecCall[c].kind /\ vecLast'.version = vecCall[c].version
                /\ vecLast'.missed = vecCall[c].missed
        BY <2>1, <1>1, VecEnds
    <2>3. VecCallsOK'
        BY <2>2, <1>1, <1>3, <1>6 DEF VecCallsOK
    <2>4. VecMade' /\ VecOwn'
        BY <2>2, <1>3, <1>6, <1>9 DEF VecInv, VecMade, VecOwn, NoVecCall
    <2>5. VecStored'
        <3> SUFFICES ASSUME vecLast'.kind = "store"
                     PROVE  /\ Records(vecLast'.version) \subseteq vecDocs'
                            /\ \A d \in vecDocs' \ Records(vecLast'.version) :
                                  /\ vecLast'.missed
                                  /\ \A i \in DOMAIN Chunks[vecLast'.version] : d.id # StableId(vecLast'.version, i)
            BY DEF VecStored
        <3>1. vecLast'.version = v /\ vecLast'.missed = vecCall[c].missed /\ vecCall[c].alone /\ BulkApplies(new)
            BY <2>1, <2>2 DEF v
        <3>2. vecDocs' = {d \in vecDocs : \A n \in new : n.id # d.id} \cup new
            BY <3>1 DEF BulkApplies, Indexed
        <3>3. ASSUME NEW d \in vecDocs' \ new
              PROVE  vecCall[c].missed /\ \A i \in DOMAIN Chunks[v] : d.id # StableId(v, i)
            <4>1. vecCall[c].missed
                BY <3>1, <3>2, <1>2, <1>8
            <4>2. \A i \in DOMAIN Chunks[v] : [id |-> StableId(v, i), version |-> v] \in new
                BY DEF new, Records
            <4> QED BY <4>1, <4>2, <3>2
        <3> QED BY <3>1, <3>2, <3>3 DEF new
    <2>6. VecDeleted'
        BY <2>2, <1>2 DEF VecDeleted
    <2> QED BY <2>2, <2>3, <2>4, <2>5, <2>6, <1>6 DEF VecInv, VectorsSound
<1>11. CASE vecCall' = [vecCall EXCEPT ![c].tries = @ + 1] /\ vecLast' = vecLast
    <2> DEFINE r == [vecCall[c] EXCEPT !.tries = @ + 1]
    <2>0. vecCall' = [vecCall EXCEPT ![c] = r]
        BY <1>11, <1>1
    <2>1. /\ VecCallOK(r) /\ r.at = "insert" /\ r.alone = vecCall[c].alone
          /\ r.missed = vecCall[c].missed /\ r.version = v
        BY <1>1 DEF VecCallOK, v
    <2> HIDE DEF r
    <2>2. /\ vecCall'[c] = r /\ vecLast'.kind = "none" /\ VecAlone'
          /\ vecCall' = [k \in VecCallers |-> vecCall'[k]]
          /\ \A k \in VecCallers \ {c} : vecCall'[k] = vecCall[k]
          /\ \A k \in VecCallers : VecCallOK(vecCall'[k])
        BY <2>0, <2>1, <1>1, <1>11, VecMoves
    <2>3. VecCallsOK'
        BY <2>2, <1>1, <1>3, <1>6 DEF VecCallsOK
    <2>4. VecMade'
        BY <2>1, <2>2, <1>3, <1>6 DEF VecInv, VecMade
    <2>5. VecOwn'
        BY <2>1, <2>2, <1>7, <1>8, <1>9 DEF VecOwn, new
    <2>6. VecStored' /\ VecDeleted'
        BY <2>2 DEF VecStored, VecDeleted
    <2> QED BY <2>2, <2>3, <2>4, <2>5, <2>6, <1>6 DEF VecInv, VectorsSound
<1> QED BY <1>5, <1>10, <1>11

LEMMA VecInitInv == VecInit => VecInv
<1> SUFFICES ASSUME VecInit PROVE VecInv
    OBVIOUS
<1>1. VecCallOK(NoVecCall) /\ NoVecCall.at = "none"
    BY DEF VecCallOK, NoVecCall, VecAts
<1>2. VecCallsOK /\ VecAlone /\ VecMade /\ VecOwn
    BY <1>1 DEF VecInit, VecCallsOK, VecAlone, VecMade, VecOwn, NothingLast
<1>3. VectorsSound
    BY DEF VecInit, VectorsSound, VecTypeOK, VecStored, VecDeleted, VecSearchable, NothingLast
<1> QED BY <1>2, <1>3 DEF VecInv

LEMMA VecStepInv == VecInv /\ [VecNext]_vecVars => VecInv'
<1> SUFFICES ASSUME VecInv, [VecNext]_vecVars PROVE VecInv'
    OBVIOUS
<1>1. CASE UNCHANGED vecVars
    BY <1>1 DEF vecVars, VecInv, VecCallsOK, VecAlone, VecMade, VecOwn,
                VectorsSound, VecTypeOK, VecStored, VecDeleted, VecSearchable
<1>2. CASE VecNext
    BY <1>2, VecBeginInv, EmbedInv, CreateSpaceInv, SpaceExistsInv, DeleteRecordsInv, InsertRecordsInv
       DEF VecNext, VecStep
<1> QED BY <1>1, <1>2

\* For any versions of a file and any number of callers, attempts and
\* failures: a version that was stored by a call alone is found whole and
\* with nothing older but what a failed deletion left behind its end; a
\* deletion leaves nothing.
THEOREM VectorsAreSound == VecSpec => []VectorsSound
<1>1. VecInv => VectorsSound
    BY DEF VecInv
<1> QED BY <1>1, VecInitInv, VecStepInv, PTL DEF VecSpec

-----------------------------------------------------------------------------
(***************************************************************************)
(* The graph of the code. The stamps tell what the running generation has  *)
(* saved from what is older: while nothing is edited, its number is on     *)
(* what it saved, and on that only.                                        *)
(***************************************************************************)

\* Types.
GraphTypeOK ==
    /\ sources \in [SourceNames -> Text]
    /\ graphFile \in [SourceNames -> Nat]
    /\ graphPart \in [SourceNames \X Parts -> Nat]
    /\ graphHas \subseteq SourceNames \X Parts
    /\ graphDeps \subseteq SourceNames \X SourceNames
    /\ generation \in [at : {"idle", "reading", "saving"}, number : Nat \ {0},
                       seen : [SourceNames -> {"unseen", "text", "absent", "broken"}],
                       saved : SUBSET SourceNames, exact : BOOLEAN]

\* No stamp is ahead of the generation that runs, which has the highest if it
\* has just begun.
Stamps ==
    /\ \A f \in SourceNames : graphFile[f] <= generation.number
    /\ \A k \in SourceNames \X Parts : graphPart[k] <= generation.number /\ graphPart[k] # 1
    /\ generation.at # "idle" => generation.number > 1
    /\ generation.at = "reading" =>
         /\ \A f \in SourceNames : graphFile[f] < generation.number
         /\ \A k \in SourceNames \X Parts : graphPart[k] < generation.number
         /\ generation.saved = {}
\* A file that is only referred to contains nothing.
Containers == \A k \in graphHas : graphFile[k[1]] > 1
\* A file that the generation has not looked at, or has found as it is; a
\* part that it has stamped.
Kept(f) == generation.seen[f] \in {"unseen", sources[f].state}
Refreshed(k) ==
    \E g \in generation.saved : Saves(g, sources[g].is, k) \/ Calls(sources[g].is, k)
\* While nothing is edited, a generation has seen the files as they are, and
\* what bears its number is what it has saved.
AsSaved ==
    generation.exact =>
        /\ generation.at = "reading" => \A f \in SourceNames : Kept(f)
        /\ generation.at = "saving" =>
             /\ \A f \in SourceNames : generation.seen[f] = sources[f].state
             /\ \A f \in SourceNames : graphFile[f] = generation.number <=> f \in generation.saved
             /\ \A k \in SourceNames \X Parts : graphPart[k] = generation.number <=> Refreshed(k)
             /\ \A g \in generation.saved :
                  /\ sources[g].state = "text"
                  /\ {g} \X sources[g].is.parts \subseteq graphHas
                  /\ {g} \X sources[g].is.imports \subseteq graphDeps
GraphInv == GraphSound /\ GraphTypeOK /\ Stamps /\ Containers /\ AsSaved

\* What is known of a file.
LEMMA TextFacts ==
    ASSUME GraphTypeOK, NEW f \in SourceNames
    PROVE  /\ sources[f] \in Text
           /\ sources[f].state \in {"text", "absent", "broken"}
           /\ sources[f].is.imports \subseteq SourceNames /\ sources[f].is.parts \subseteq Parts
           /\ sources[f].state # "text" => sources[f].is.imports = {} /\ sources[f].is.parts = {}
<1>1. sources[f] \in Text
    BY DEF GraphTypeOK
<1>2. CASE sources[f] \in {[state |-> "text", is |-> v] : v \in Contents \cap Parseable}
    BY <1>1, <1>2 DEF Parseable
<1>3. CASE sources[f] \in {[state |-> s, is |-> [imports |-> {}, parts |-> {}]] : s \in {"absent", "broken"}}
    BY <1>1, <1>3
<1> QED BY <1>1, <1>2, <1>3 DEF Text

GenerationType == [at : {"idle", "reading", "saving"}, number : Nat \ {0},
                   seen : [SourceNames -> {"unseen", "text", "absent", "broken"}],
                   saved : SUBSET SourceNames, exact : BOOLEAN]

\* A generation that is not exact, or not running, promises less.
LEMMA NotExactInv ==
    ASSUME GraphInv, GraphTypeOK', Stamps', Containers', ~generation'.exact,
           generation'.at # "idle" => generation.at # "idle" /\ graphBefore' = graphBefore /\ Shown \subseteq Shown'
    PROVE  GraphInv'
<1>1. GraphCurrent' /\ AsSaved'
    BY DEF GraphCurrent, AsSaved
<1>2. NothingLostByFailure'
    BY DEF NothingLostByFailure, GraphInv, GraphSound
<1> QED BY <1>1, <1>2 DEF GraphInv, GraphSound

LEMMA BeginGenerationInv == ASSUME GraphInv, BeginGeneration PROVE GraphInv'
<1>1. GraphTypeOK /\ Stamps /\ Containers
    BY DEF GraphInv
<1>2. generation'.at = "reading" /\ generation'.number = generation.number + 1 /\ generation'.saved = {}
      /\ generation'.seen = [f \in SourceNames |-> "unseen"] /\ generation'.exact = TRUE
    BY DEF BeginGeneration
<1>3. /\ UNCHANGED <<sources, graphFile, graphPart, graphHas, graphDeps>>
      /\ generation.number \in Nat \ {0}
    BY <1>1 DEF BeginGeneration, Cleared, GraphTypeOK
<1>4. generation' \in GenerationType
    BY <1>3 DEF BeginGeneration, GenerationType
<1>5. GraphTypeOK'
    BY <1>1, <1>3, <1>4 DEF GraphTypeOK, GenerationType
<1>6. Stamps'
    <2>1. \A f \in SourceNames : graphFile[f] \in Nat /\ graphFile[f] <= generation.number
        BY <1>1 DEF Stamps, GraphTypeOK
    <2>2. \A k \in SourceNames \X Parts :
             graphPart[k] \in Nat /\ graphPart[k] <= generation.number /\ graphPart[k] # 1
        BY <1>1 DEF Stamps, GraphTypeOK
    <2>3. \A f \in SourceNames : graphFile'[f] < generation.number + 1
        BY <2>1, <1>3
    <2>4. \A k \in SourceNames \X Parts : graphPart'[k] < generation.number + 1 /\ graphPart'[k] # 1
        BY <2>2, <1>3
    <2>5. \A f \in SourceNames : graphFile'[f] <= generation.number + 1
        BY <2>1, <1>3
    <2>6. \A k \in SourceNames \X Parts : graphPart'[k] <= generation.number + 1
        BY <2>2, <1>3
    <2> QED BY <2>3, <2>4, <2>5, <2>6, <1>2, <1>3 DEF Stamps
<1>7. Containers'
    BY <1>1, <1>3 DEF Containers
<1>8. AsSaved'
    BY <1>2 DEF AsSaved, Kept
<1>9. GraphCurrent' /\ NothingLostByFailure'
    BY <1>2, <1>3 DEF GraphCurrent, NothingLostByFailure, BeginGeneration, Shown
<1> QED BY <1>5, <1>6, <1>7, <1>8, <1>9 DEF GraphInv, GraphSound

LEMMA AnalyseInv == ASSUME GraphInv, NEW f \in SourceNames, Analyse(f) PROVE GraphInv'
<1>1. GraphTypeOK /\ Stamps /\ Containers /\ AsSaved
    BY DEF GraphInv
<1>2. generation \in GenerationType
    BY <1>1 DEF GraphTypeOK, GenerationType
<1> DEFINE at == IF \E g \in SourceNames \ {f} : generation.seen[g] = "unseen" THEN "reading" ELSE "saving"
           seen == [generation.seen EXCEPT ![f] = sources[f].state]
<1>3. generation' = [generation EXCEPT !.seen = seen, !.at = at]
    BY DEF Analyse
<1>4. at \in {"reading", "saving"} /\ seen \in [SourceNames -> {"unseen", "text", "absent", "broken"}]
      /\ (at = "saving" => \A g \in SourceNames \ {f} : generation.seen[g] # "unseen")
    BY <1>1, <1>2, TextFacts DEF GenerationType
<1>5. seen[f] = sources[f].state /\ \A g \in SourceNames \ {f} : seen[g] = generation.seen[g]
    BY <1>2 DEF GenerationType
<1> HIDE DEF at, seen
<1>6. /\ generation'.at = at /\ generation'.seen = seen /\ generation'.number = generation.number
      /\ generation'.saved = generation.saved /\ generation'.exact = generation.exact
      /\ generation' \in GenerationType
    BY <1>2, <1>3, <1>4 DEF GenerationType
<1>7. /\ UNCHANGED <<sources, graphFile, graphPart, graphHas, graphDeps, graphBefore>>
      /\ generation.at = "reading"
    BY DEF Analyse
<1>8. GraphTypeOK'
    BY <1>1, <1>6, <1>7 DEF GraphTypeOK, GenerationType
<1>9. Stamps' /\ Containers'
    BY <1>1, <1>4, <1>6, <1>7 DEF Stamps, Containers
<1>10. AsSaved'
    <2> SUFFICES ASSUME generation.exact PROVE AsSaved'
        BY <1>6 DEF AsSaved
    <2>1. \A g \in SourceNames : Kept(g)
        BY <1>1, <1>7 DEF AsSaved
    <2>2. \A g \in SourceNames : seen[g] \in {"unseen", sources[g].state}
        BY <2>1, <1>5 DEF Kept
    <2>3. at = "saving" => \A g \in SourceNames : seen[g] = sources[g].state
        BY <2>1, <1>4, <1>5 DEF Kept
    <2>4. /\ generation.saved = {}
          /\ \A g \in SourceNames : graphFile[g] # generation.number
          /\ \A k \in SourceNames \X Parts : graphPart[k] # generation.number
        BY <1>1, <1>7 DEF Stamps, GraphTypeOK
    <2> QED BY <2>2, <2>3, <2>4, <1>4, <1>6, <1>7 DEF AsSaved, Kept, Refreshed
<1>11. GraphCurrent' /\ NothingLostByFailure'
    BY <1>4, <1>6, <1>7 DEF GraphCurrent, NothingLostByFailure, Shown, GraphInv, GraphSound
<1> QED BY <1>8, <1>9, <1>10, <1>11 DEF GraphInv, GraphSound

LEMMA SaveFileInv == ASSUME GraphInv, NEW f \in SourceNames, SaveFile(f) PROVE GraphInv'
<1>1. GraphTypeOK /\ Stamps /\ Containers /\ AsSaved
    BY DEF GraphInv
<1> DEFINE v == sources[f].is
           n == generation.number
<1>2. generation \in GenerationType /\ n \in Nat /\ n > 1 /\ generation.at = "saving"
      /\ generation.seen[f] = "text" /\ f \notin generation.saved
    BY <1>1 DEF GraphTypeOK, GenerationType, Stamps, SaveFile
<1>3. v.imports \subseteq SourceNames /\ v.parts \subseteq Parts
    BY <1>1, TextFacts
<1>4. /\ generation'.at = "saving" /\ generation'.number = n /\ generation'.seen = generation.seen
      /\ generation'.saved = generation.saved \cup {f} /\ generation'.exact = generation.exact
      /\ generation' \in GenerationType
    BY <1>2 DEF SaveFile, GenerationType
<1> HIDE DEF v, n
<1>5. /\ sources' = sources /\ graphBefore' = graphBefore
      /\ graphHas' = graphHas \cup ({f} \X v.parts)
      /\ graphDeps' = graphDeps \cup ({f} \X v.imports)
    BY DEF SaveFile, v
<1>6. graphFile' = [g \in SourceNames |-> IF g = f THEN n
                        ELSE IF g \in v.imports /\ graphFile[g] = 0 THEN 1 ELSE graphFile[g]]
    BY DEF SaveFile, FilesAfter, Stamped, v, n
<1>7. graphPart' = [k \in SourceNames \X Parts |->
                        IF Saves(f, v, k) \/ Calls(v, k) THEN n ELSE graphPart[k]]
    BY DEF SaveFile, Stamped, v, n
<1>8. GraphTypeOK'
    <2>1. graphFile' \in [SourceNames -> Nat] /\ graphPart' \in [SourceNames \X Parts -> Nat]
        BY <1>1, <1>2, <1>6, <1>7 DEF GraphTypeOK
    <2>2. graphHas' \subseteq SourceNames \X Parts /\ graphDeps' \subseteq SourceNames \X SourceNames
        BY <1>1, <1>3, <1>5 DEF GraphTypeOK
    <2> QED BY <2>1, <2>2, <1>1, <1>4, <1>5 DEF GraphTypeOK, GenerationType
<1>9. Stamps'
    <2>1. \A g \in SourceNames : graphFile'[g] <= n
        BY <1>1, <1>2, <1>6 DEF Stamps, GraphTypeOK, n
    <2>2. \A k \in SourceNames \X Parts : graphPart'[k] <= n /\ graphPart'[k] # 1
        BY <1>1, <1>2, <1>7 DEF Stamps, GraphTypeOK, n
    <2> QED BY <2>1, <2>2, <1>2, <1>4 DEF Stamps
<1>10. Containers'
    <2> SUFFICES ASSUME NEW k \in graphHas' PROVE graphFile'[k[1]] > 1
        BY DEF Containers
    <2>1. CASE k \in graphHas
        <3>1. k[1] \in SourceNames /\ graphFile[k[1]] > 1 /\ graphFile[k[1]] \in Nat
            BY <2>1, <1>1 DEF Containers, GraphTypeOK
        <3> QED BY <3>1, <1>2, <1>6
    <2>2. CASE k[1] = f
        BY <2>2, <1>2, <1>6
    <2> QED BY <2>1, <2>2, <1>5
<1>11. AsSaved'
    <2> SUFFICES ASSUME generation.exact PROVE AsSaved'
        BY <1>4 DEF AsSaved
    <2>1. /\ \A g \in SourceNames : generation.seen[g] = sources[g].state
          /\ \A g \in SourceNames : graphFile[g] = n <=> g \in generation.saved
          /\ \A k \in SourceNames \X Parts : graphPart[k] = n <=> Refreshed(k)
          /\ \A g \in generation.saved :
                  /\ sources[g].state = "text"
                  /\ {g} \X sources[g].is.parts \subseteq graphHas
                  /\ {g} \X sources[g].is.imports \subseteq graphDeps
        BY <1>1, <1>2 DEF AsSaved, n
    <2>2. \A g \in SourceNames : graphFile'[g] = n <=> g \in generation.saved \cup {f}
        BY <2>1, <1>2, <1>6, <1>1 DEF GraphTypeOK
    <2>3. ASSUME NEW k \in SourceNames \X Parts PROVE graphPart'[k] = n <=> Refreshed(k)'
        <3>1. Refreshed(k)' <=> Refreshed(k) \/ Saves(f, v, k) \/ Calls(v, k)
            BY <1>4, <1>5 DEF Refreshed, Saves, Calls, v
        <3> QED BY <3>1, <2>1, <1>7
    <2>4. \A g \in generation.saved \cup {f} :
                  /\ sources[g].state = "text"
                  /\ {g} \X sources[g].is.parts \subseteq graphHas'
                  /\ {g} \X sources[g].is.imports \subseteq graphDeps'
        BY <2>1, <1>2, <1>5 DEF v
    <2> QED BY <2>1, <2>2, <2>3, <2>4, <1>4, <1>5 DEF AsSaved
<1>12. NothingLostByFailure'
    <2>1. Shown \subseteq Shown'
        BY <1>1, <1>2, <1>5, <1>6 DEF Shown, GraphTypeOK
    <2> QED BY <2>1, <1>2, <1>5 DEF NothingLostByFailure, GraphInv, GraphSound
<1>13. GraphCurrent'
    BY <1>4 DEF GraphCurrent
<1> QED BY <1>8, <1>9, <1>10, <1>11, <1>12, <1>13 DEF GraphInv, GraphSound

LEMMA EndGenerationInv == ASSUME GraphInv, EndGeneration PROVE GraphInv'
<1>1. GraphTypeOK /\ Stamps /\ Containers /\ AsSaved
    BY DEF GraphInv
<1> DEFINE n == generation.number
<1>2. generation \in GenerationType /\ n \in Nat /\ n > 1 /\ generation.at = "saving"
      /\ \A f \in SourceNames : generation.seen[f] = "text" => f \in generation.saved
    BY <1>1 DEF GraphTypeOK, GenerationType, Stamps, EndGeneration
<1>4. /\ generation'.at = "idle" /\ generation'.number = n
      /\ generation'.exact = generation.exact /\ generation' \in GenerationType
    BY <1>2 DEF EndGeneration, GenerationType
<1>5. /\ sources' = sources /\ graphBefore' = graphBefore
      /\ graphHas' = {k \in graphHas : graphFile'[k[1]] # 0 /\ graphPart'[k] # 0}
      /\ graphDeps' = {d \in graphDeps : graphFile'[d[1]] # 0 /\ graphFile'[d[2]] # 0}
    BY DEF EndGeneration
<1>6. graphFile' = [f \in SourceNames |-> IF graphFile[f] > 1 /\ graphFile[f] < n THEN 0 ELSE graphFile[f]]
    BY DEF EndGeneration, Stale
<1>7. graphPart' = [k \in SourceNames \X Parts |-> IF graphPart[k] > 1 /\ graphPart[k] < n THEN 0 ELSE graphPart[k]]
    BY DEF EndGeneration, Stale
<1>3. /\ \A f \in SourceNames : graphFile[f] \in Nat /\ graphFile[f] <= n
      /\ \A k \in SourceNames \X Parts : graphPart[k] \in Nat /\ graphPart[k] <= n /\ graphPart[k] # 1
    BY <1>1 DEF GraphTypeOK, Stamps
<1> HIDE DEF n
<1>8. /\ \A f \in SourceNames : graphFile'[f] \in {0, 1, n} /\ (graphFile'[f] # 0 => graphFile'[f] = graphFile[f])
                                /\ (graphFile[f] = n => graphFile'[f] = n)
      /\ \A k \in SourceNames \X Parts : graphPart'[k] \in {0, n} /\ (graphPart'[k] # 0 => graphPart'[k] = graphPart[k])
                                /\ (graphPart[k] = n => graphPart'[k] = n)
    BY <1>2, <1>3, <1>6, <1>7
<1>9. GraphTypeOK'
    <2>1. graphFile' \in [SourceNames -> Nat] /\ graphPart' \in [SourceNames \X Parts -> Nat]
        BY <1>2, <1>6, <1>7, <1>8
    <2> QED BY <2>1, <1>1, <1>4, <1>5 DEF GraphTypeOK, GenerationType
<1>10. Stamps'
    <2>1. \A f \in SourceNames : graphFile'[f] <= n
        BY <1>2, <1>8
    <2>2. \A k \in SourceNames \X Parts : graphPart'[k] <= n /\ graphPart'[k] # 1
        BY <1>2, <1>8
    <2> QED BY <2>1, <2>2, <1>4 DEF Stamps
<1>11. Containers'
    <2> SUFFICES ASSUME NEW k \in graphHas' PROVE graphFile'[k[1]] > 1
        BY DEF Containers
    <2>1. k \in graphHas /\ k[1] \in SourceNames /\ graphFile'[k[1]] # 0
        BY <1>1, <1>5 DEF GraphTypeOK
    <2> QED BY <2>1, <1>1, <1>8 DEF Containers
<1>12. GraphCurrent'
    <2> SUFFICES ASSUME generation.exact, NEW f \in SourceNames
                 PROVE  LET v == sources[f].is
                            text == sources[f].state = "text"
                            called == \E g \in SourceNames : f \in sources[g].is.imports /\ "function" \in sources[g].is.parts
                        IN  /\ text => graphFile'[f] = n /\ v.parts \subseteq Summary(f)'
                            /\ ~text => graphFile'[f] \in {0, 1} /\ Summary(f)' = {}
                            /\ Summary(f)' \subseteq v.parts \cup (IF called THEN {"function"} ELSE {})
                            /\ text => {g \in SourceNames : f \in sources[g].is.imports /\ g # f} \subseteq Dependents(f)'
        BY <1>4, <1>5 DEF GraphCurrent
    <2>1. /\ \A g \in SourceNames : generation.seen[g] = sources[g].state
          /\ \A g \in SourceNames : graphFile[g] = n <=> g \in generation.saved
          /\ \A k \in SourceNames \X Parts : graphPart[k] = n <=> Refreshed(k)
          /\ \A g \in generation.saved :
                  /\ sources[g].state = "text"
                  /\ {g} \X sources[g].is.parts \subseteq graphHas
                  /\ {g} \X sources[g].is.imports \subseteq graphDeps
        BY <1>1, <1>2 DEF AsSaved, n
    <2>2. \A g \in SourceNames : sources[g].state = "text" <=> g \in generation.saved
        BY <2>1, <1>2
    <2>3. \A g \in SourceNames : sources[g].state = "text" => graphFile'[g] = n
        BY <2>1, <2>2, <1>8
    <2>4. sources[f].is.parts \subseteq Parts /\ \A g \in SourceNames : sources[g].is.imports # {} => sources[g].state = "text"
        BY <1>1, TextFacts
    <2> DEFINE called == \E g \in SourceNames : f \in sources[g].is.imports /\ "function" \in sources[g].is.parts
    <2>5. ASSUME sources[f].state = "text", NEW p \in sources[f].is.parts PROVE p \in Summary(f)'
        <3>1. f \in generation.saved /\ <<f, p>> \in SourceNames \X Parts /\ p \in Parts
            BY <2>2, <2>4, <2>5
        <3>2. <<f, p>> \in graphHas
            BY <2>1, <3>1
        <3>3. Refreshed(<<f, p>>)
            BY <3>1, <2>5 DEF Refreshed, Saves
        <3>4. graphPart'[<<f, p>>] = n
            BY <3>1, <3>3, <2>1, <1>8
        <3>5. graphFile'[f] = n
            BY <2>3, <2>5
        <3>6. <<f, p>> \in graphHas'
            BY <3>2, <3>4, <3>5, <1>2, <1>5
        <3> QED BY <3>1, <3>5, <3>6, <1>2 DEF Summary
    <2>6. ASSUME NEW p \in Summary(f)'
          PROVE  /\ sources[f].state = "text"
                 /\ p \in sources[f].is.parts \cup (IF called THEN {"function"} ELSE {})
        <3>1. p \in Parts /\ <<f, p>> \in graphHas' /\ graphFile'[f] # 0
            BY DEF Summary
        <3>2. graphFile'[f] > 1
            BY <3>1, <1>11 DEF Containers
        <3>3. graphFile'[f] = n
            BY <3>2, <1>8
        <3>4. graphFile[f] = n
            BY <3>3, <3>1, <1>8
        <3>5. graphPart'[<<f, p>>] # 0 /\ <<f, p>> \in SourceNames \X Parts
            BY <3>1, <1>5
        <3>6. graphPart[<<f, p>>] = n
            BY <3>5, <1>8
        <3>7. Refreshed(<<f, p>>)
            BY <3>5, <3>6, <2>1
        <3>8. PICK g \in generation.saved : Saves(g, sources[g].is, <<f, p>>) \/ Calls(sources[g].is, <<f, p>>)
            BY <3>7 DEF Refreshed
        <3>9. g \in SourceNames
            BY <1>2 DEF GenerationType
        <3>10. sources[f].state = "text"
            BY <3>4, <2>1
        <3>11. CASE Saves(g, sources[g].is, <<f, p>>)
            BY <3>10, <3>11 DEF Saves
        <3>12. CASE Calls(sources[g].is, <<f, p>>)
            <4>1. p = "function" /\ called
                BY <3>9, <3>12 DEF Calls
            <4> QED BY <4>1, <3>10
        <3> QED BY <3>8, <3>11, <3>12
    <2>7. ASSUME sources[f].state = "text", NEW g \in SourceNames, f \in sources[g].is.imports, g # f
          PROVE  g \in Dependents(f)'
        <3>1. sources[g].state = "text" /\ g \in generation.saved
            BY <2>2, <2>4, <2>7
        <3>2. <<g, f>> \in graphDeps
            BY <3>1, <2>1, <2>7
        <3>3. graphFile'[g] = n /\ graphFile'[f] = n
            BY <3>1, <2>3, <2>7
        <3>4. <<g, f>> \in graphDeps'
            BY <3>2, <3>3, <1>2, <1>5
        <3> QED BY <3>4, <2>7 DEF Dependents
    <2>8. sources[f].state # "text" => graphFile'[f] \in {0, 1}
        BY <2>1, <2>2, <1>2, <1>8
    <2>9. Summary(f)' \subseteq sources[f].is.parts \cup (IF called THEN {"function"} ELSE {})
          /\ (sources[f].state # "text" => Summary(f)' = {})
        BY <2>6
    <2> HIDE DEF called
    <2>10. sources[f].state = "text" => graphFile'[f] = n /\ sources[f].is.parts \subseteq Summary(f)'
        BY <2>3, <2>5
    <2>11. sources[f].state = "text"
               => {g \in SourceNames : f \in sources[g].is.imports /\ g # f} \subseteq Dependents(f)'
        BY <2>7
    <2> QED BY <2>8, <2>9, <2>10, <2>11 DEF called
<1>13. NothingLostByFailure' /\ AsSaved'
    BY <1>4 DEF NothingLostByFailure, AsSaved
<1> QED BY <1>9, <1>10, <1>11, <1>12, <1>13 DEF GraphInv, GraphSound

LEMMA GenerationFailsInv == ASSUME GraphInv, GenerationFails PROVE GraphInv'
<1>1. GraphTypeOK /\ Stamps /\ Containers /\ generation \in GenerationType
    BY DEF GraphInv, GraphTypeOK, GenerationType
<1>2. /\ generation'.at = "idle" /\ generation'.number = generation.number /\ generation'.exact = FALSE
      /\ generation' \in GenerationType
      /\ UNCHANGED <<sources, graphFile, graphPart, graphHas, graphDeps, graphBefore>>
    BY <1>1 DEF GenerationFails, GenerationType
<1>3. GraphTypeOK' /\ Stamps' /\ Containers'
    BY <1>1, <1>2 DEF GraphTypeOK, GenerationType, Stamps, Containers
<1> QED BY <1>2, <1>3, NotExactInv

LEMMA EditSourceInv == ASSUME GraphInv, NEW f \in SourceNames, EditSource(f) PROVE GraphInv'
<1>1. GraphTypeOK /\ Stamps /\ Containers /\ generation \in GenerationType
    BY DEF GraphInv, GraphTypeOK, GenerationType
<1>2. /\ generation'.at = generation.at /\ generation'.number = generation.number /\ generation'.exact = FALSE
      /\ generation'.saved = generation.saved /\ generation' \in GenerationType
      /\ UNCHANGED <<graphFile, graphPart, graphHas, graphDeps, graphBefore>>
    BY <1>1 DEF EditSource, GenerationType
<1>3. sources' \in [SourceNames -> Text]
    BY <1>1 DEF EditSource, GraphTypeOK
<1>4. GraphTypeOK' /\ Stamps' /\ Containers'
    BY <1>1, <1>2, <1>3 DEF GraphTypeOK, GenerationType, Stamps, Containers
<1>5. Shown' = Shown
    BY <1>2 DEF Shown
<1> QED BY <1>2, <1>4, <1>5, NotExactInv

LEMMA DeleteFileInv == ASSUME GraphInv, NEW f \in SourceNames, DeleteFile(f) PROVE GraphInv'
<1>1. GraphTypeOK /\ Stamps /\ Containers /\ generation \in GenerationType
    BY DEF GraphInv, GraphTypeOK, GenerationType
<1>2. /\ generation'.at = "idle" /\ generation'.number = generation.number /\ generation'.exact = FALSE
      /\ generation' \in GenerationType /\ sources' = sources
      /\ graphFile' = [graphFile EXCEPT ![f] = 0]
      /\ graphPart' = [k \in SourceNames \X Parts |-> IF k \in Contained(f) THEN 0 ELSE graphPart[k]]
      /\ graphHas' = graphHas \ Contained(f)
      /\ graphDeps' \subseteq graphDeps
    BY <1>1 DEF DeleteFile, GenerationType
<1>3. GraphTypeOK'
    <2>1. graphFile' \in [SourceNames -> Nat] /\ graphPart' \in [SourceNames \X Parts -> Nat]
        BY <1>1, <1>2 DEF GraphTypeOK
    <2> QED BY <2>1, <1>1, <1>2 DEF GraphTypeOK, GenerationType
<1>4. Stamps'
    <2>1. \A g \in SourceNames : graphFile'[g] <= generation.number
        BY <1>1, <1>2 DEF Stamps, GraphTypeOK
    <2>2. \A k \in SourceNames \X Parts : graphPart'[k] <= generation.number /\ graphPart'[k] # 1
        BY <1>1, <1>2 DEF Stamps, GraphTypeOK
    <2> QED BY <2>1, <2>2, <1>2 DEF Stamps
<1>5. Containers'
    BY <1>1, <1>2 DEF Containers, Contained, GraphTypeOK
<1> QED BY <1>2, <1>3, <1>4, <1>5, NotExactInv

LEMMA DeleteRepoInv == ASSUME GraphInv, DeleteRepo PROVE GraphInv'
<1>1. GraphTypeOK /\ Stamps /\ Containers /\ generation \in GenerationType
    BY DEF GraphInv, GraphTypeOK, GenerationType
<1>2. /\ generation'.at = "idle" /\ generation'.number = generation.number /\ generation'.exact = FALSE
      /\ generation' \in GenerationType /\ sources' = sources
      /\ graphFile' = [f \in SourceNames |-> 0] /\ graphPart' = [k \in SourceNames \X Parts |-> 0]
      /\ graphHas' = {} /\ graphDeps' = {}
    BY <1>1 DEF DeleteRepo, GenerationType
<1>3. GraphTypeOK'
    <2>1. graphFile' \in [SourceNames -> Nat] /\ graphPart' \in [SourceNames \X Parts -> Nat]
        BY <1>2
    <2> QED BY <2>1, <1>1, <1>2 DEF GraphTypeOK, GenerationType
<1>4. Stamps' /\ Containers'
    <2>1. generation.number \in Nat
        BY <1>1 DEF GenerationType
    <2> QED BY <2>1, <1>2 DEF Stamps, Containers
<1> QED BY <1>2, <1>3, <1>4, NotExactInv

LEMMA GraphInitInv == GraphInit => GraphInv
<1> SUFFICES ASSUME GraphInit PROVE GraphInv
    OBVIOUS
<1>1. GraphTypeOK
    BY DEF GraphInit, GraphTypeOK
<1>2. Stamps /\ Containers /\ AsSaved
    BY DEF GraphInit, Stamps, Containers, AsSaved
<1>3. GraphSound
    BY DEF GraphInit, GraphSound, GraphCurrent, NothingLostByFailure
<1> QED BY <1>1, <1>2, <1>3 DEF GraphInv

LEMMA GraphStepInv == GraphInv /\ [GraphNext]_graphVars => GraphInv'
<1> SUFFICES ASSUME GraphInv, [GraphNext]_graphVars PROVE GraphInv'
    OBVIOUS
<1>1. CASE UNCHANGED graphVars
    <2>1. UNCHANGED <<sources, graphFile, graphPart, graphHas, graphDeps, generation, graphBefore>>
        BY <1>1 DEF graphVars
    <2>2. GraphTypeOK' /\ Stamps' /\ Containers' /\ AsSaved'
        BY <2>1 DEF GraphInv, GraphTypeOK, Stamps, Containers, AsSaved, Kept, Refreshed
    <2>3. GraphSound'
        BY <2>1 DEF GraphInv, GraphSound, GraphCurrent, NothingLostByFailure, Shown, Summary, Dependents
    <2> QED BY <2>2, <2>3 DEF GraphInv
<1>2. CASE GraphNext
    BY <1>2, BeginGenerationInv, AnalyseInv, SaveFileInv, EndGenerationInv, GenerationFailsInv,
       EditSourceInv, DeleteFileInv, DeleteRepoInv DEF GraphNext
<1> QED BY <1>1, <1>2

\* For any files and contents, any number of generations, edits and failures:
\* an undisturbed generation leaves the graph of the files as they are, and a
\* failed one loses nothing.
THEOREM GraphIsSound == GraphSpec => []GraphSound
<1>1. GraphInv => GraphSound
    BY DEF GraphInv
<1> QED BY <1>1, GraphInitInv, GraphStepInv, PTL DEF GraphSpec

-----------------------------------------------------------------------------
(***************************************************************************)
(* The connection to the search engine. Callers that connect one after the *)
(* other hand the client on; an unsupported cluster is not used before a   *)
(* call was told so because until then only the first connection has been  *)
(* made.                                                                   *)
(***************************************************************************)

\* Types.
EsPlaces == {"none", "lock", "relock", "close", "forget", "make", "try", "check",
             "health", "ping", "operate", "served", "served once", "await"}
EsCallType == [at : EsPlaces, client : EsClients \cup {NoClient}, tries : Nat,
               back : {"health", "served", "served once"}]
EsTypeOK ==
    /\ esClient \in EsClients \cup {NoClient} /\ esLock \in EsCallers \cup {NoClient}
    /\ esOpen \subseteq EsClients /\ esReplaced \subseteq EsClients
    /\ esSupported \in BOOLEAN /\ esTold \in BOOLEAN
    /\ esCall \in [EsCallers -> EsCallType]
\* Who makes a client, and the clients that were made.
Building == {"close", "forget", "make", "try", "check"}
EsMade == esOpen \cup esReplaced
\* The client there is was made; the one who connects has one from its first
\* attempt on, and only forgets one that it has closed.
EsHeld ==
    /\ esClient = NoClient \/ esClient \in EsMade
    /\ \A c \in EsCallers : esCall[c].at \in {"try", "check"} => esClient # NoClient
\* Before the first client nobody got beyond connecting, and it is to serve
\* the operation that began it.
EsFirst ==
    /\ \A c \in EsCallers : esCall[c].at \in {"none", "lock"} => esCall[c].back = "health"
    /\ EsMade = {} => \A c \in EsCallers :
           esCall[c].at \in {"none", "lock", "close", "make"} /\ esCall[c].back = "health"
\* Before a call was told of a cluster that is too old, the first connection
\* is not over.
EsUntold ==
    ~esSupported /\ ~esTold =>
        /\ Connecting = {} => EsMade = {}
        /\ \A c \in Connecting : esCall[c].back = "health"
EsInv == EsTypeOK /\ EsOneConnects /\ EsClientsAccounted /\ EsHeld /\ EsFirst /\ EsUntold

LEMMA Places ==
    /\ Building \subseteq EsPlaces
    /\ \A p \in {"none", "lock", "relock", "health", "ping", "operate", "served", "served once", "await"} :
          p \in EsPlaces /\ p \notin Building
BY DEF EsPlaces, Building

\* The holder of the lock is the one who connects.
LEMMA Holder ==
    ASSUME EsInv, NEW c \in EsCallers, esCall[c].at \in Building
    PROVE  /\ esLock = c /\ Connecting = {c}
           /\ \A d \in EsCallers \ {c} : esCall[d].at \notin Building
BY DEF EsInv, EsOneConnects, Connecting, Building

LEMMA NoneIsNone == NoClient \notin EsClients /\ NoClient \notin EsCallers
BY ClientAssumption

\* A step of a caller that does not connect, before or after it.
LEMMA EsQuiet ==
    ASSUME EsInv, NEW c \in EsCallers,
           UNCHANGED <<esClient, esOpen, esReplaced, esLock, esTold, esSupported>>,
           esCall' \in [EsCallers -> EsCallType],
           \A d \in EsCallers \ {c} : esCall'[d] = esCall[d],
           esCall[c].at \notin Building, esCall'[c].at \notin Building,
           esCall'[c].at \in {"none", "lock"} => esCall'[c].back = "health",
           EsMade = {} => esCall'[c].at \in {"none", "lock"},
           esCall'[c].at = "await" => esCall'[c].client \in EsMade
    PROVE  EsInv'
<1> USE DEF EsInv
<1>1. EsTypeOK' /\ EsMade' = EsMade
    BY DEF EsTypeOK, EsMade
<1>2. Connecting' = Connecting
    BY DEF Connecting, Building
<1>3. EsOneConnects'
    BY <1>2 DEF EsOneConnects
<1>4. EsClientsAccounted'
    BY DEF EsClientsAccounted, EsMade, Building
<1>5. EsHeld'
    BY <1>1 DEF EsHeld, Building
<1>6. EsFirst'
    BY <1>1 DEF EsFirst
<1>7. EsUntold'
    <2>1. \A d \in Connecting : d # c /\ d \in EsCallers
        BY DEF Connecting, Building
    <2> QED BY <2>1, <1>1, <1>2 DEF EsUntold
<1> QED BY <1>1, <1>3, <1>4, <1>5, <1>6, <1>7

\* A step of the one who connects, and goes on connecting.
LEMMA EsBuild ==
    ASSUME EsInv, NEW c \in EsCallers,
           UNCHANGED <<esLock, esTold, esSupported>>,
           esCall' \in [EsCallers -> EsCallType],
           \A d \in EsCallers \ {c} : esCall'[d] = esCall[d],
           esCall[c].at \in Building, esCall'[c].at \in Building, esCall'[c].back = esCall[c].back,
           esClient' \in EsClients \cup {NoClient},
           esOpen' \subseteq EsClients, esReplaced' \subseteq EsClients, esReplaced' \cap esOpen' = {},
           EsMade \subseteq EsMade',
           esClient' # NoClient => esClient' \in esOpen' \/ (esCall'[c].at = "forget" /\ esClient' \in esReplaced'),
           esCall'[c].at \in {"try", "check"} => esClient' # NoClient,
           EsMade' = {} => esCall'[c].at \in {"close", "make"}
    PROVE  EsInv'
<1> USE DEF EsInv
<1>0. Connecting = {c} /\ esLock = c /\ \A d \in EsCallers \ {c} : esCall[d].at \notin Building
    BY Holder
<1>1. EsTypeOK'
    BY DEF EsTypeOK
<1>2. Connecting' = Connecting
    BY <1>0 DEF Connecting, Building
<1>3. EsOneConnects'
    BY <1>0, <1>2 DEF EsOneConnects
<1>4. EsClientsAccounted'
    <2>1. \A d \in EsCallers : esCall'[d].at = "await" => esCall'[d].client \in EsMade
        BY DEF EsClientsAccounted, EsMade, Building
    <2>2. \A d \in EsCallers : esCall'[d].at = "await" => esCall'[d].client \in EsMade'
        BY <2>1
    <2>3. esClient' # NoClient => esClient' \in esOpen' \/ \E d \in EsCallers : esCall'[d].at = "forget"
        OBVIOUS
    <2> QED BY <2>2, <2>3 DEF EsClientsAccounted, EsMade
<1>5. EsHeld'
    BY <1>0 DEF EsHeld, Building, EsMade
<1>6. EsFirst'
    BY DEF EsFirst, Building
<1>7. EsUntold'
    BY <1>0, <1>2 DEF EsUntold
<1> QED BY <1>1, <1>3, <1>4, <1>5, <1>6, <1>7

\* The lock is released.
LEMMA EsRelease ==
    ASSUME EsInv, NEW c \in EsCallers, esCall[c].at \in {"try", "check"},
           UNCHANGED <<esClient, esOpen, esReplaced, esSupported>>, esLock' = NoClient,
           esTold' \in BOOLEAN, esTold => esTold',
           esCall' \in [EsCallers -> EsCallType],
           \A d \in EsCallers \ {c} : esCall'[d] = esCall[d],
           esCall'[c].at \in {"none", "relock", "health", "served", "served once"},
           esCall'[c].at = "none" => esCall'[c].back = "health",
           ~esSupported => esTold' \/ esCall[c].back # "health"
    PROVE  EsInv'
<1> USE DEF EsInv
<1>b. esCall[c].at \in Building /\ esCall'[c].at \notin Building
    BY DEF Building
<1>0. Connecting = {c} /\ esLock = c /\ \A d \in EsCallers \ {c} : esCall[d].at \notin Building
    BY <1>b, Holder
<1>1. EsTypeOK' /\ EsMade' = EsMade
    BY DEF EsTypeOK, EsMade
<1>2. Connecting' = {}
    BY <1>0, <1>b DEF Connecting, Building
<1>c. esClient # NoClient /\ esClient \in EsMade /\ EsMade # {}
    BY DEF EsHeld
<1>3. EsOneConnects'
    BY <1>2, <1>c, NoneIsNone DEF EsOneConnects
<1>4. EsClientsAccounted'
    BY <1>0, <1>b DEF EsClientsAccounted, Building
<1>5. EsHeld'
    BY <1>0, <1>1, <1>b DEF EsHeld, Building
<1>6. EsFirst'
    BY <1>1, <1>c DEF EsFirst
<1>7. EsUntold'
    BY <1>0 DEF EsUntold
<1> QED BY <1>1, <1>3, <1>4, <1>5, <1>6, <1>7

\* A call goes on at another place, having asked so many times.
LEMMA EsSteps ==
    ASSUME EsTypeOK, NEW c \in EsCallers, NEW p \in EsPlaces, NEW n \in Nat,
           esCall' = [esCall EXCEPT ![c].at = p, ![c].tries = n]
    PROVE  /\ esCall' \in [EsCallers -> EsCallType]
           /\ \A d \in EsCallers \ {c} : esCall'[d] = esCall[d]
           /\ esCall'[c].at = p /\ esCall'[c].back = esCall[c].back
<1>1. esCall \in [EsCallers -> EsCallType] /\ esCall[c] \in EsCallType
    BY DEF EsTypeOK
<1> DEFINE v == [esCall[c] EXCEPT !.at = p, !.tries = n]
<1>2. v \in EsCallType /\ v.at = p /\ v.back = esCall[c].back
    BY <1>1 DEF EsCallType
<1>3. esCall' = [esCall EXCEPT ![c] = v]
    BY <1>1
<1> HIDE DEF v
<1> QED BY <1>1, <1>2, <1>3

LEMMA EnsureConnectInv == ASSUME EsInv, NEW c \in EsCallers, EnsureConnect(c) PROVE EsInv'
<1>1. EsTypeOK /\ EsFirst /\ EsHeld
    BY DEF EsInv
<1> DEFINE at == IF esClient = NoClient THEN "lock" ELSE "health"
<1>2. at \in {"lock", "health"} /\ at \in EsPlaces
    BY DEF EsPlaces
<1>3. EsMade = {} => at = "lock"
    BY <1>1 DEF EsHeld
<1> HIDE DEF at
<1>4. esCall' = [esCall EXCEPT ![c].at = at] /\ esCall[c].at = "none"
    BY DEF EnsureConnect, EsGoto, at
<1>5. /\ esCall' \in [EsCallers -> EsCallType]
      /\ \A d \in EsCallers \ {c} : esCall'[d] = esCall[d]
      /\ esCall'[c].at = at /\ esCall'[c].back = esCall[c].back
    BY <1>1, <1>2, <1>4 DEF EsTypeOK, EsCallType
<1>6. UNCHANGED <<esClient, esOpen, esReplaced, esLock, esTold, esSupported>>
    BY DEF EnsureConnect, KeepCluster, KeepClient
<1>7. esCall[c].back = "health"
    BY <1>1, <1>4 DEF EsFirst
<1> QED BY <1>2, <1>3, <1>4, <1>5, <1>6, <1>7, Places, EsQuiet

LEMMA TakeLockInv == ASSUME EsInv, NEW c \in EsCallers, TakeLock(c) PROVE EsInv'
<1>1. EsTypeOK /\ EsFirst /\ EsHeld
    BY DEF EsInv
<1>6. UNCHANGED <<esClient, esOpen, esReplaced, esTold, esSupported>> /\ EsMade' = EsMade
    BY DEF TakeLock, KeepCluster, KeepClient, EsMade
<1>2. esCall[c].at \in {"lock", "relock"} /\ esLock = NoClient
    BY DEF TakeLock
<1>3. CASE esCall[c].at = "lock" /\ esClient # NoClient
    <2>1. esCall' = [esCall EXCEPT ![c].at = "health"] /\ esLock' = esLock
        BY <1>3 DEF TakeLock, EsGoto
    <2>2. /\ esCall' \in [EsCallers -> EsCallType]
          /\ \A d \in EsCallers \ {c} : esCall'[d] = esCall[d]
          /\ esCall'[c].at = "health"
        BY <1>1, <2>1 DEF EsTypeOK, EsCallType, EsPlaces
    <2>3. EsMade # {}
        BY <1>1, <1>3 DEF EsHeld
    <2> QED BY <2>1, <2>2, <2>3, <1>2, <1>6, Places, EsQuiet
<1>4. CASE ~(esCall[c].at = "lock" /\ esClient # NoClient)
    <2>1. esCall' = [esCall EXCEPT ![c].at = "close"] /\ esLock' = c
        BY <1>4 DEF TakeLock
    <2>2. /\ esCall' \in [EsCallers -> EsCallType]
          /\ \A d \in EsCallers \ {c} : esCall'[d] = esCall[d]
          /\ esCall'[c].at = "close" /\ esCall'[c].back = esCall[c].back
        BY <1>1, <2>1 DEF EsTypeOK, EsCallType, EsPlaces
    <2>3. Connecting = {}
        BY <1>2, NoneIsNone DEF EsInv, EsOneConnects, Connecting
    <2>4. Connecting' = {c}
        BY <2>2, <2>3 DEF Connecting
    <2>5. EsTypeOK'
        BY <2>1, <2>2, <1>1, <1>6 DEF EsTypeOK
    <2>6. EsOneConnects'
        BY <2>1, <2>4 DEF EsOneConnects
    <2>7. EsClientsAccounted' /\ EsHeld'
        BY <2>2, <1>1, <1>2, <1>6 DEF EsInv, EsClientsAccounted, EsHeld
    <2>8. EsFirst'
        BY <2>2, <1>1, <1>6 DEF EsFirst
    <2>9. EsUntold'
        <3> SUFFICES ASSUME ~esSupported, ~esTold PROVE esCall'[c].back = "health"
            BY <2>4, <1>6 DEF EsUntold
        <3>1. EsMade = {}
            BY <2>3 DEF EsInv, EsUntold
        <3> QED BY <3>1, <2>2, <1>1 DEF EsFirst
    <2> QED BY <2>5, <2>6, <2>7, <2>8, <2>9 DEF EsInv
<1> QED BY <1>3, <1>4

LEMMA CloseOldInv == ASSUME EsInv, NEW c \in EsCallers, CloseOld(c) PROVE EsInv'
<1>1. EsTypeOK /\ EsFirst /\ EsHeld /\ EsClientsAccounted
    BY DEF EsInv
<1>2. UNCHANGED <<esLock, esTold, esSupported>> /\ esCall[c].at = "close"
      /\ esOpen' = esOpen \ {esClient} /\ esReplaced' = esReplaced \cup ({esClient} \ {NoClient})
    BY DEF CloseOld, KeepCluster
<1>3. /\ esOpen' \subseteq EsClients /\ esReplaced' \subseteq EsClients /\ esReplaced' \cap esOpen' = {}
      /\ EsMade \subseteq EsMade'
    BY <1>1, <1>2, NoneIsNone DEF EsTypeOK, EsClientsAccounted, EsMade
<1>4. esCall[c].at \in Building
    BY <1>2 DEF Building
<1>5. CASE esClient' = NoClient /\ esCall' = [esCall EXCEPT ![c].at = "make", ![c].tries = 0]
    <2>1. /\ esCall' \in [EsCallers -> EsCallType]
          /\ \A d \in EsCallers \ {c} : esCall'[d] = esCall[d]
          /\ esCall'[c].at = "make" /\ esCall'[c].back = esCall[c].back
        <3>1. "make" \in EsPlaces /\ 0 \in Nat
            BY DEF EsPlaces
        <3> QED BY <1>1, <1>5, <3>1, EsSteps
    <2> QED BY <2>1, <1>2, <1>3, <1>4, <1>5, EsBuild DEF Building
<1>6. CASE esClient # NoClient /\ EsGoto(c, "forget") /\ UNCHANGED esClient
    <2>1. /\ esCall' \in [EsCallers -> EsCallType]
          /\ \A d \in EsCallers \ {c} : esCall'[d] = esCall[d]
          /\ esCall'[c].at = "forget" /\ esCall'[c].back = esCall[c].back
        BY <1>1, <1>6 DEF EsTypeOK, EsCallType, EsPlaces, EsGoto
    <2>2. esClient' \in esReplaced' /\ esClient' \in EsClients /\ EsMade' # {}
        BY <1>1, <1>2, <1>6 DEF EsTypeOK, EsMade
    <2> QED BY <2>1, <2>2, <1>2, <1>3, <1>4, EsBuild DEF Building
<1> QED BY <1>5, <1>6 DEF CloseOld

LEMMA ForgetInv == ASSUME EsInv, NEW c \in EsCallers, Forget(c) PROVE EsInv'
<1>1. EsTypeOK /\ EsFirst /\ EsClientsAccounted
    BY DEF EsInv
<1>2. /\ UNCHANGED <<esLock, esTold, esSupported, esOpen, esReplaced>> /\ esCall[c].at = "forget"
      /\ esClient' = NoClient /\ esCall' = [esCall EXCEPT ![c].at = "make", ![c].tries = 0]
    BY DEF Forget, KeepCluster
<1>3. /\ esCall' \in [EsCallers -> EsCallType]
      /\ \A d \in EsCallers \ {c} : esCall'[d] = esCall[d]
      /\ esCall'[c].at = "make" /\ esCall'[c].back = esCall[c].back
    <2>1. "make" \in EsPlaces /\ 0 \in Nat
        BY DEF EsPlaces
    <2> QED BY <1>1, <1>2, <2>1, EsSteps
<1>4. esOpen' \subseteq EsClients /\ esReplaced' \subseteq EsClients /\ esReplaced' \cap esOpen' = {}
      /\ EsMade \subseteq EsMade'
    BY <1>1, <1>2 DEF EsTypeOK, EsClientsAccounted, EsMade
<1> QED BY <1>2, <1>3, <1>4, EsBuild DEF Building

LEMMA MakeClientInv == ASSUME EsInv, NEW c \in EsCallers, MakeClient(c) PROVE EsInv'
<1>1. EsTypeOK /\ EsFirst /\ EsClientsAccounted
    BY DEF EsInv
<1>2. /\ UNCHANGED <<esLock, esTold, esSupported, esReplaced>> /\ esCall[c].at = "make"
      /\ esOpen' = esOpen \cup {esClient'} /\ EsGoto(c, "try")
    BY DEF MakeClient, KeepCluster
<1>3. esClient' \in EsClients /\ esClient' \notin esOpen \cup esReplaced
    <2>1. Unmade # {} /\ esClient' = CHOOSE k \in Unmade : \A j \in Unmade : k <= j
        BY DEF MakeClient
    <2>2. Unmade \subseteq Nat
        BY ClientAssumption DEF Unmade
    <2>3. \E k \in Unmade : \A j \in Unmade : k <= j
        BY <2>1, <2>2, NatMin
    <2>4. esClient' \in Unmade
        BY <2>1, <2>3
    <2> QED BY <2>4 DEF Unmade
<1>4. /\ esCall' \in [EsCallers -> EsCallType]
      /\ \A d \in EsCallers \ {c} : esCall'[d] = esCall[d]
      /\ esCall'[c].at = "try" /\ esCall'[c].back = esCall[c].back
    BY <1>1, <1>2 DEF EsTypeOK, EsCallType, EsPlaces, EsGoto
<1>5. esOpen' \subseteq EsClients /\ esReplaced' \subseteq EsClients /\ esReplaced' \cap esOpen' = {}
      /\ EsMade \subseteq EsMade' /\ EsMade' # {} /\ esClient' \in esOpen' /\ esClient' # NoClient
    BY <1>1, <1>2, <1>3, NoneIsNone DEF EsTypeOK, EsClientsAccounted, EsMade
<1> QED BY <1>2, <1>3, <1>4, <1>5, EsBuild DEF Building

LEMMA RaisesInv ==
    ASSUME EsInv, NEW c \in EsCallers, esCall[c].at \in {"try", "check"},
           UNCHANGED <<esClient, esOpen, esReplaced, esSupported>>, ConnectRaises(c)
    PROVE  EsInv'
<1>1. EsTypeOK
    BY DEF EsInv
<1>2. esLock' = NoClient /\ esTold' = (esTold \/ esCall[c].back # "served once")
    BY DEF ConnectRaises
<1> DEFINE r == IF esCall[c].back = "served once" THEN [esCall[c] EXCEPT !.at = "relock", !.back = "served"]
                ELSE NoEsCall
<1>3. esCall' = [esCall EXCEPT ![c] = r]
    BY DEF ConnectRaises
<1>4. /\ r \in EsCallType /\ r.at \in {"none", "relock"} /\ (r.at = "none" => r.back = "health")
    <2>1. CASE esCall[c].back = "served once"
        <3>1. esCall[c] \in EsCallType
            BY <1>1 DEF EsTypeOK
        <3>2. /\ [esCall[c] EXCEPT !.at = "relock", !.back = "served"] \in EsCallType
              /\ [esCall[c] EXCEPT !.at = "relock", !.back = "served"].at = "relock"
            BY <3>1 DEF EsCallType, EsPlaces
        <3> QED BY <2>1, <3>2
    <2>2. CASE esCall[c].back # "served once"
        <3>1. NoEsCall \in EsCallType /\ NoEsCall.at = "none" /\ NoEsCall.back = "health"
            BY DEF NoEsCall, EsCallType, EsPlaces
        <3> QED BY <2>2, <3>1
    <2> QED BY <2>1, <2>2
<1> HIDE DEF r
<1>5. /\ esCall' \in [EsCallers -> EsCallType] /\ esCall'[c] = r
      /\ \A d \in EsCallers \ {c} : esCall'[d] = esCall[d]
    BY <1>1, <1>3, <1>4 DEF EsTypeOK
<1>6. esTold' \in BOOLEAN /\ (esTold => esTold') /\ (esTold' \/ esCall[c].back # "health")
    BY <1>1, <1>2 DEF EsTypeOK
<1> QED BY <1>2, <1>4, <1>5, <1>6, EsRelease

LEMMA AskClientInv == ASSUME EsInv, NEW c \in EsCallers, AskClient(c) PROVE EsInv'
<1>1. EsTypeOK /\ EsHeld /\ EsClientsAccounted
    BY DEF EsInv
<1>2. /\ UNCHANGED <<esClient, esOpen, esReplaced, esSupported>> /\ esCall[c].at = "try"
    BY DEF AskClient, KeepCluster, KeepClient
<1>3. ASSUME NEW at \in {"check", "make"}, UNCHANGED <<esLock, esTold>>,
             esCall' \in [EsCallers -> EsCallType], \A d \in EsCallers \ {c} : esCall'[d] = esCall[d],
             esCall'[c].at = at, esCall'[c].back = esCall[c].back
      PROVE  EsInv'
    <2>1. esClient # NoClient /\ EsMade' = EsMade /\ EsMade # {}
        BY <1>1, <1>2 DEF EsHeld, EsMade
    <2>2. esClient \in esOpen
        <3>1. \A d \in EsCallers : esCall[d].at # "forget"
            BY <1>2, Holder DEF Building
        <3> QED BY <3>1, <2>1, <1>1 DEF EsClientsAccounted
    <2>3. esOpen \subseteq EsClients /\ esReplaced \subseteq EsClients /\ esReplaced \cap esOpen = {}
          /\ esClient \in EsClients
        BY <2>1, <1>1 DEF EsTypeOK, EsClientsAccounted
    <2> QED BY <2>1, <2>2, <2>3, <1>2, <1>3, EsBuild DEF Building
<1>4. CASE EsGoto(c, "check") /\ UNCHANGED <<esLock, esTold>>
    <2>1. /\ esCall' \in [EsCallers -> EsCallType] /\ \A d \in EsCallers \ {c} : esCall'[d] = esCall[d]
          /\ esCall'[c].at = "check" /\ esCall'[c].back = esCall[c].back
        BY <1>1, <1>4 DEF EsTypeOK, EsCallType, EsPlaces, EsGoto
    <2> QED BY <2>1, <1>3, <1>4
<1>5. CASE esCall' = [esCall EXCEPT ![c].at = "make", ![c].tries = @ + 1] /\ UNCHANGED <<esLock, esTold>>
    <2>1. /\ esCall' \in [EsCallers -> EsCallType] /\ \A d \in EsCallers \ {c} : esCall'[d] = esCall[d]
          /\ esCall'[c].at = "make" /\ esCall'[c].back = esCall[c].back
        <3> DEFINE n == esCall[c].tries + 1
        <3>1. n \in Nat
            <4>1. esCall[c] \in EsCallType
                BY <1>1 DEF EsTypeOK
            <4>2. esCall[c].tries \in Nat
                BY <4>1 DEF EsCallType
            <4> QED BY <4>2
        <3>2. esCall' = [esCall EXCEPT ![c].at = "make", ![c].tries = n]
            BY <1>5
        <3> HIDE DEF n
        <3>3. "make" \in EsPlaces
            BY DEF EsPlaces
        <3> QED BY <1>1, <3>1, <3>2, <3>3, EsSteps
    <2> QED BY <2>1, <1>3, <1>5
<1>6. CASE ConnectRaises(c)
    BY <1>2, <1>6, RaisesInv
<1> QED BY <1>4, <1>5, <1>6 DEF AskClient

LEMMA CheckVersionInv == ASSUME EsInv, NEW c \in EsCallers, CheckVersion(c) PROVE EsInv'
<1>1. EsTypeOK
    BY DEF EsInv
<1>2. UNCHANGED <<esClient, esOpen, esReplaced, esSupported>> /\ esCall[c].at = "check"
    BY DEF CheckVersion, KeepCluster, KeepClient
<1>3. CASE esSupported
    <2>1. /\ esCall' = [esCall EXCEPT ![c].at = IF @ = "check" THEN esCall[c].back ELSE @]
          /\ esLock' = NoClient /\ esTold' = esTold
        BY <1>3 DEF CheckVersion, Connected
    <2> DEFINE back == esCall[c].back
    <2>2. back \in {"health", "served", "served once"} /\ back \in EsPlaces
        BY <1>1 DEF EsTypeOK, EsCallType, EsPlaces
    <2>3. esCall' = [esCall EXCEPT ![c].at = back]
        BY <2>1, <1>2
    <2> HIDE DEF back
    <2>4. /\ esCall' \in [EsCallers -> EsCallType] /\ \A d \in EsCallers \ {c} : esCall'[d] = esCall[d]
          /\ esCall'[c].at = back
        BY <1>1, <2>2, <2>3 DEF EsTypeOK, EsCallType
    <2> QED BY <2>1, <2>2, <2>4, <1>1, <1>2, <1>3, EsRelease DEF EsTypeOK
<1>4. CASE ~esSupported
    BY <1>2, <1>4, RaisesInv DEF CheckVersion
<1> QED BY <1>3, <1>4

LEMMA CheckHealthInv == ASSUME EsInv, NEW c \in EsCallers, CheckHealth(c) PROVE EsInv'
<1>1. EsTypeOK /\ EsFirst
    BY DEF EsInv
<1> DEFINE at == IF esDue THEN "ping" ELSE "operate"
<1>2. at \in {"ping", "operate"} /\ at \in EsPlaces
    BY DEF EsPlaces
<1> HIDE DEF at
<1>4. esCall' = [esCall EXCEPT ![c].at = at, ![c].client = esClient] /\ esCall[c].at = "health"
    BY DEF CheckHealth, at
<1>5. /\ esCall' \in [EsCallers -> EsCallType]
      /\ \A d \in EsCallers \ {c} : esCall'[d] = esCall[d]
      /\ esCall'[c].at = at
    BY <1>1, <1>2, <1>4 DEF EsTypeOK, EsCallType
<1>6. UNCHANGED <<esClient, esOpen, esReplaced, esLock, esTold, esSupported>>
    BY DEF CheckHealth, KeepCluster, KeepClient
<1>7. EsMade # {}
    BY <1>1, <1>4 DEF EsFirst
<1>8. at \notin Building /\ at \notin {"none", "lock", "await"} /\ "health" \notin Building
    BY <1>2 DEF Building
<1> QED BY <1>4, <1>5, <1>6, <1>7, <1>8, EsQuiet

LEMMA PingInv == ASSUME EsInv, NEW c \in EsCallers, Ping(c) PROVE EsInv'
<1>1. EsTypeOK /\ EsFirst
    BY DEF EsInv
<1>2. esCall[c].at = "ping"
    BY DEF Ping
<1>6. UNCHANGED <<esClient, esOpen, esReplaced, esLock, esTold, esSupported>>
    BY DEF Ping, KeepCluster, KeepClient
<1>7. EsMade # {}
    BY <1>1, <1>2 DEF EsFirst
<1>3. CASE EsGoto(c, "operate")
    <2>1. /\ esCall' \in [EsCallers -> EsCallType]
          /\ \A d \in EsCallers \ {c} : esCall'[d] = esCall[d]
          /\ esCall'[c].at = "operate"
        BY <1>1, <1>3 DEF EsTypeOK, EsCallType, EsGoto, EsPlaces
    <2> QED BY <2>1, <1>2, <1>6, <1>7, Places, EsQuiet
<1>4. ASSUME NEW back \in {"served", "served once"},
             esCall' = [esCall EXCEPT ![c].at = "relock", ![c].back = back]
      PROVE  EsInv'
    <2>1. /\ esCall' \in [EsCallers -> EsCallType]
          /\ \A d \in EsCallers \ {c} : esCall'[d] = esCall[d]
          /\ esCall'[c].at = "relock"
        BY <1>1, <1>4 DEF EsTypeOK, EsCallType, EsPlaces
    <2> QED BY <2>1, <1>2, <1>6, <1>7, Places, EsQuiet
<1>5. EsGoto(c, "operate") \/ \E back \in {"served", "served once"} :
                                  esCall' = [esCall EXCEPT ![c].at = "relock", ![c].back = back]
    BY DEF Ping
<1> QED BY <1>3, <1>4, <1>5

LEMMA NoEsCallType == NoEsCall \in EsCallType /\ NoEsCall.at = "none" /\ NoEsCall.back = "health"
BY DEF NoEsCall, EsCallType, EsPlaces

LEMMA OperateInv == ASSUME EsInv, NEW c \in EsCallers, Operate(c) PROVE EsInv'
<1>1. EsTypeOK /\ EsFirst /\ EsHeld
    BY DEF EsInv
<1>2. esCall[c].at \in {"operate", "served", "served once"}
    BY DEF Operate
<1>6. UNCHANGED <<esClient, esOpen, esReplaced, esLock, esTold, esSupported>>
    BY DEF Operate, KeepCluster, KeepClient
<1>7. EsMade # {}
    BY <1>1, <1>2 DEF EsFirst
<1> DEFINE r == IF esClient = NoClient THEN NoEsCall ELSE [NoEsCall EXCEPT !.at = "await", !.client = esClient]
<1>3. esCall' = [esCall EXCEPT ![c] = r]
    BY DEF Operate
<1>4. /\ r \in EsCallType /\ r.at \in {"none", "await"} /\ r.back = "health"
      /\ r.at = "await" => r.client \in EsMade
    <2>1. CASE esClient = NoClient
        BY <2>1, NoEsCallType
    <2>2. CASE esClient # NoClient
        <3> DEFINE w == [NoEsCall EXCEPT !.at = "await", !.client = esClient]
        <3>1. w \in EsCallType /\ w.at = "await" /\ w.back = "health" /\ w.client = esClient
            BY <1>1, NoEsCallType DEF EsCallType, EsPlaces, EsTypeOK
        <3> QED BY <2>2, <3>1, <1>1 DEF EsHeld
    <2> QED BY <2>1, <2>2
<1> HIDE DEF r
<1>5. /\ esCall' \in [EsCallers -> EsCallType] /\ esCall'[c] = r
      /\ \A d \in EsCallers \ {c} : esCall'[d] = esCall[d]
    BY <1>1, <1>3, <1>4 DEF EsTypeOK
<1> QED BY <1>2, <1>4, <1>5, <1>6, <1>7, Places, EsQuiet

LEMMA AnsweredInv == ASSUME EsInv, NEW c \in EsCallers, Answered(c) PROVE EsInv'
<1>1. EsTypeOK /\ esCall[c].at = "await" /\ esCall' = [esCall EXCEPT ![c] = NoEsCall]
    BY DEF EsInv, Answered
<1>5. /\ esCall' \in [EsCallers -> EsCallType] /\ esCall'[c] = NoEsCall
      /\ \A d \in EsCallers \ {c} : esCall'[d] = esCall[d]
    BY <1>1, NoEsCallType DEF EsTypeOK
<1>6. UNCHANGED <<esClient, esOpen, esReplaced, esLock, esTold, esSupported>>
    BY DEF Answered, KeepCluster, KeepClient
<1> QED BY <1>1, <1>5, <1>6, NoEsCallType, Places, EsQuiet

LEMMA EsInitInv == EsInit => EsInv
<1> SUFFICES ASSUME EsInit PROVE EsInv
    OBVIOUS
<1>1. \A c \in EsCallers : esCall[c] = NoEsCall
    BY DEF EsInit
<1>2. EsTypeOK
    BY NoEsCallType DEF EsInit, EsTypeOK
<1>3. Connecting = {} /\ EsMade = {}
    BY <1>1, NoEsCallType DEF EsInit, Connecting, EsMade
<1>4. EsOneConnects
    BY <1>3, NoneIsNone DEF EsInit, EsOneConnects
<1>5. EsClientsAccounted /\ EsHeld /\ EsFirst
    BY <1>1, NoEsCallType DEF EsInit, EsClientsAccounted, EsHeld, EsFirst
<1>6. EsUntold
    BY <1>3 DEF EsUntold
<1> QED BY <1>2, <1>4, <1>5, <1>6 DEF EsInv

LEMMA EsStepInv == EsInv /\ [EsNext]_esVars => EsInv'
<1> SUFFICES ASSUME EsInv, [EsNext]_esVars PROVE EsInv'
    OBVIOUS
<1>1. CASE UNCHANGED <<esClient, esOpen, esReplaced, esLock, esCall, esTold, esSupported>>
    BY <1>1 DEF EsInv, EsTypeOK, EsOneConnects, EsClientsAccounted, EsHeld, EsFirst, EsUntold, EsMade, Connecting
<1>2. CASE UNCHANGED esVars \/ ClusterTurns \/ IntervalPasses
    BY <1>1, <1>2 DEF esVars, ClusterTurns, IntervalPasses, KeepClient, KeepCluster
<1>3. CASE \E c \in EsCallers : EnsureConnect(c) \/ EsStep(c)
    BY <1>3, EnsureConnectInv, TakeLockInv, CloseOldInv, ForgetInv, MakeClientInv, AskClientInv,
       CheckVersionInv, CheckHealthInv, PingInv, OperateInv, AnsweredInv DEF EsStep
<1> QED BY <1>2, <1>3 DEF EsNext

LEMMA EsInvSound == EsInv => EsSound
<1> SUFFICES ASSUME EsInv PROVE EsSound
    OBVIOUS
<1>1. EsVersionKnown
    <2> SUFFICES ASSUME ~esSupported, ~esTold, Connecting = {}, NEW c \in EsCallers, esCall[c].at = "await"
                 PROVE  FALSE
        BY DEF EsVersionKnown
    <2>1. EsMade = {}
        BY DEF EsInv, EsUntold
    <2> QED BY <2>1 DEF EsInv, EsFirst
<1> QED BY <1>1 DEF EsSound, EsInv

\* For any number of callers and outages: one connection is made at a time,
\* under the lock, and is there as soon as there was one; the clients that
\* are open or replaced are accounted for; and a cluster that is too old is
\* used only after somebody was told.
THEOREM ConnectionIsSound == EsSpec => []EsSound
BY EsInitInv, EsStepInv, EsInvSound, PTL DEF EsSpec

-----------------------------------------------------------------------------
(***************************************************************************)
(* The object stores. An object that is written by one call at a time has  *)
(* what its last writer left, stage by stage; a check of the health reads  *)
(* what it has written.                                                    *)
(***************************************************************************)

\* Types.
ObjOps == {"none", "put", "get", "exists", "delete", "health"}
ObjStages == {"new", "bucket", "make", "upload", "create", "append", "flush", "open", "write", "meta",
              "read", "ping", "delete", "unlink", "done"}
ObjAnswers == {"none", "ok", "true", "false", "raise"}
ObjContents == ObjCalls \cup {NoObject, Partial, Torn}
ObjCallType ==
    [op : ObjOps, obj : Objects, at : ObjStages, tries : Nat, answer : ObjAnswers, failed : BOOLEAN, got : ObjContents]
ObjTypeOK ==
    /\ objProvider \in Bucketed \cup {"spn", "local"}
    /\ objBucket \in BOOLEAN
    /\ objData \in [Objects -> ObjContents]
    /\ objMeta \in [Objects -> ObjContents] /\ objLast \in [Objects -> ObjContents]
    /\ objCall \in [ObjCalls -> ObjCallType]
    /\ objRaced \subseteq Objects /\ objHurt \subseteq Objects

\* Where a call of a provider can be, by what it does.
StageFits(p, r) ==
    /\ r.at = "new" <=> r.op = "none"
    /\ r.op = "health" <=> r.obj = "probe"
    /\ r.at \in {"bucket", "make", "upload"} => p \in Bucketed /\ r.op \in {"put", "health"}
    /\ r.at \in {"create", "append", "flush"} => p = "spn" /\ r.op \in {"put", "health"}
    /\ r.at \in {"open", "write"} => p = "local" /\ r.op \in {"put", "health"}
    /\ r.at = "meta" => p = "local" /\ r.op = "put"
    /\ r.at = "read" => r.op \in {"get", "exists", "health"}
    /\ r.at = "ping" => r.op = "health"
    /\ r.at = "delete" => r.op \in {"delete", "health"}
    /\ r.at = "unlink" => p = "local" /\ r.op \in {"delete", "health"}
\* What a read has found.
ReadFits(p, r) ==
    r.op \in {"get", "exists"} =>
        /\ r.at # "done" => r.got = NoObject /\ ~r.failed
        /\ r.at = "done" =>
            /\ r.got \in {Partial, Torn} => p \in {"spn", "local"}
            /\ r.answer \in {"none", "false"} => r.got = NoObject /\ (r.failed => p # "s3")
\* What a check of the health has found, if no other wrote the probe: content
\* is what is stored of the probe.
HealthFits(p, r, c, content) ==
    r.op = "health" =>
        /\ r.at = "read" => content = c
        /\ r.at \in {"delete", "unlink"} => r.answer = "true" /\ (p = "local" => content # NoObject)
        /\ r.at = "done" /\ r.answer = "false" => r.failed

\* InWrite of a call that is r, and the stages between the first and the last
\* write of a put.
WritesNow(r) == Writes(r.at) \/ (r.op = "health" /\ r.at = "read")
Staged(r) == r.at \in {"append", "flush", "write", "meta"}

\* An object that was not raced for has one writer.
OneWriter == \A o \in Objects \ objRaced : \A c, d \in ObjCalls :
    objCall[c].obj = o /\ objCall[d].obj = o /\ WritesNow(objCall[c]) /\ WritesNow(objCall[d]) => c = d
\* Only a provider that writes in stages has parts of objects.
WholeInBuckets == \A o \in Objects : objData[o] \in {Partial, Torn} => objProvider \in {"spn", "local"}
\* Without a put between its stages an object is what was last written.
Settled == \A o \in Objects \ (objRaced \cup objHurt) :
    (\A c \in ObjCalls : objCall[c].obj = o => ~Staged(objCall[c])) =>
        /\ objData[o] = objLast[o]
        /\ objProvider = "local" /\ o = "file" => objMeta[o] = objLast[o]
\* The metadata of a file are written behind its contents.
MetaFollows == \A c \in ObjCalls :
    objCall[c].at = "meta" /\ objCall[c].obj \notin objRaced => objData[objCall[c].obj] = c
\* Every call fits where it is and what it has seen.
CallsFit == \A c \in ObjCalls :
    /\ StageFits(objProvider, objCall[c]) /\ ReadFits(objProvider, objCall[c])
    /\ "probe" \notin objRaced => HealthFits(objProvider, objCall[c], c, objData["probe"])
ObjInv == ObjTypeOK /\ OneWriter /\ WholeInBuckets /\ Settled /\ MetaFollows /\ CallsFit

\* A step of c: its record becomes r, what is stored of its object x, the
\* metadata m, what was last written l.
ObjMoved(c, r, x, m, l) ==
    /\ objProvider' = objProvider /\ objBucket' \in BOOLEAN
    /\ objCall' = [objCall EXCEPT ![c] = r]
    /\ objData' = [objData EXCEPT ![objCall[c].obj] = x]
    /\ objMeta' = [objMeta EXCEPT ![objCall[c].obj] = m]
    /\ objLast' = [objLast EXCEPT ![objCall[c].obj] = l]
    /\ objRaced' \in {objRaced, objRaced \cup {objCall[c].obj}}
    /\ objHurt' \in {objHurt, objHurt \cup {objCall[c].obj}, objHurt \ {objCall[c].obj}}
\* Whoever does not write leaves what is stored.
WritesOnly(c, x, m, l) ==
    ~WritesNow(objCall[c]) =>
        /\ x = objData[objCall[c].obj] /\ m = objMeta[objCall[c].obj] /\ l = objLast[objCall[c].obj]
        /\ objHurt' = objHurt
\* The object after a step of its only writer.
Leaves(c, r, x, m, l) ==
    objCall[c].obj \notin objRaced' =>
        /\ r.at = "meta" => x = c
        /\ HealthFits(objProvider, r, c, x)
        /\ objCall[c].obj \notin objHurt' /\ ~Staged(r) /\ WritesNow(objCall[c]) =>
               x = l /\ (objProvider = "local" /\ objCall[c].obj = "file" => m = l)

LEMMA StagedWrites == ASSUME NEW r PROVE Staged(r) => WritesNow(r)
    BY DEF Staged, WritesNow, Writes

LEMMA MovedInv ==
      ASSUME ObjInv, NEW c \in ObjCalls, NEW r \in ObjCallType,
             NEW x \in ObjContents, NEW m \in ObjContents, NEW l \in ObjContents,
             r.obj = objCall[c].obj, ObjMoved(c, r, x, m, l), StageFits(objProvider, r), ReadFits(objProvider, r),
             WritesNow(r) => WritesNow(objCall[c]), x \in {Partial, Torn} => objProvider \in {"spn", "local"},
             WritesOnly(c, x, m, l), Leaves(c, r, x, m, l)
      PROVE  ObjInv'
<1> DEFINE o == objCall[c].obj
<1>0. ObjTypeOK /\ OneWriter /\ WholeInBuckets /\ Settled /\ MetaFollows /\ CallsFit
    BY DEF ObjInv
<1>1. o \in Objects
    BY <1>0 DEF ObjTypeOK, ObjCallType
<1>2. /\ objCall' \in [ObjCalls -> ObjCallType] /\ objCall'[c] = r
      /\ \A d \in ObjCalls \ {c} : objCall'[d] = objCall[d]
    BY <1>0 DEF ObjTypeOK, ObjMoved
<1>3. /\ objData' \in [Objects -> ObjContents] /\ objData'[o] = x
      /\ \A p \in Objects \ {o} : objData'[p] = objData[p]
    BY <1>0, <1>1 DEF ObjTypeOK, ObjMoved
<1>4. /\ objMeta' \in [Objects -> ObjContents] /\ objMeta'[o] = m
      /\ \A p \in Objects \ {o} : objMeta'[p] = objMeta[p]
    BY <1>0, <1>1 DEF ObjTypeOK, ObjMoved
<1>5. /\ objLast' \in [Objects -> ObjContents] /\ objLast'[o] = l
      /\ \A p \in Objects \ {o} : objLast'[p] = objLast[p]
    BY <1>0, <1>1 DEF ObjTypeOK, ObjMoved
<1>6. /\ objRaced \subseteq objRaced' /\ objRaced' \subseteq Objects /\ objHurt' \subseteq Objects
      /\ objProvider' = objProvider /\ objBucket' \in BOOLEAN
      /\ \A p \in Objects \ {o} : (p \in objRaced' <=> p \in objRaced) /\ (p \in objHurt' <=> p \in objHurt)
    BY <1>0, <1>1 DEF ObjTypeOK, ObjMoved
<1>7. ~WritesNow(objCall[c]) => x = objData[o] /\ m = objMeta[o] /\ l = objLast[o] /\ objHurt' = objHurt
    BY DEF WritesOnly
<1>8. o \notin objRaced' =>
        /\ r.at = "meta" => x = c
        /\ HealthFits(objProvider, r, c, x)
        /\ o \notin objHurt' /\ ~Staged(r) /\ WritesNow(objCall[c]) =>
               x = l /\ (objProvider = "local" /\ o = "file" => m = l)
    BY DEF Leaves
<1>9. r.obj = o
    OBVIOUS
<1>10. \A d \in ObjCalls : objCall'[d].obj = objCall[d].obj /\ (WritesNow(objCall'[d]) => WritesNow(objCall[d]))
    BY <1>2, <1>9
<1>11. \A d \in ObjCalls \ {c} : objCall[d].obj = o /\ WritesNow(objCall[d]) /\ o \notin objRaced' => x = objData[o]
    BY <1>0, <1>1, <1>6, <1>7 DEF OneWriter
<1> HIDE DEF o
<1>12. ObjTypeOK'
    BY <1>0, <1>2, <1>3, <1>4, <1>5, <1>6 DEF ObjTypeOK
<1>13. OneWriter'
    BY <1>0, <1>6, <1>10 DEF OneWriter
<1>14. WholeInBuckets'
    BY <1>0, <1>3, <1>6 DEF WholeInBuckets
<1>15. Settled'
    <2> SUFFICES ASSUME NEW p \in Objects, p \notin objRaced', p \notin objHurt',
                        \A d \in ObjCalls : objCall'[d].obj = p => ~Staged(objCall'[d])
                 PROVE  /\ objData'[p] = objLast'[p]
                        /\ objProvider' = "local" /\ p = "file" => objMeta'[p] = objLast'[p]
        BY DEF Settled
    <2>1. CASE p = o /\ WritesNow(objCall[c])
        BY <2>1, <1>1, <1>2, <1>3, <1>4, <1>5, <1>6, <1>8, <1>9
    <2>2. CASE p # o
        <3>1. p \notin objRaced /\ p \notin objHurt
            BY <2>2, <1>6
        <3>2. \A d \in ObjCalls : objCall[d].obj = p => ~Staged(objCall[d])
            BY <2>2, <1>2, <1>9 DEF o
        <3> QED BY <3>1, <3>2, <2>2, <1>0, <1>3, <1>4, <1>5, <1>6 DEF Settled
    <2>3. CASE p = o /\ ~WritesNow(objCall[c])
        <3>1. p \notin objRaced /\ p \notin objHurt
            BY <2>3, <1>6, <1>7
        <3>2. \A d \in ObjCalls : objCall[d].obj = p => ~Staged(objCall[d])
            BY <2>3, <1>2, StagedWrites
        <3> QED BY <3>1, <3>2, <2>3, <1>0, <1>3, <1>4, <1>5, <1>6, <1>7 DEF Settled
    <2> QED BY <2>1, <2>2, <2>3
<1>16. MetaFollows'
    <2> SUFFICES ASSUME NEW d \in ObjCalls, objCall'[d].at = "meta", objCall'[d].obj \notin objRaced'
                 PROVE  objData'[objCall'[d].obj] = d
        BY DEF MetaFollows
    <2>1. CASE d = c
        BY <2>1, <1>2, <1>3, <1>8, <1>9
    <2>2. CASE d # c
        <3>1. objCall'[d] = objCall[d] /\ objCall[d].obj \in Objects /\ objCall[d].obj \notin objRaced
            BY <2>2, <1>0, <1>2, <1>6 DEF ObjTypeOK, ObjCallType
        <3>2. objData[objCall[d].obj] = d
            BY <3>1, <1>0 DEF MetaFollows
        <3>3. WritesNow(objCall[d])
            BY <3>1 DEF WritesNow, Writes
        <3> QED BY <3>1, <3>2, <3>3, <2>2, <1>3, <1>11
    <2> QED BY <2>1, <2>2
<1>17. CallsFit'
    <2> SUFFICES ASSUME NEW d \in ObjCalls
                 PROVE  /\ StageFits(objProvider, objCall'[d]) /\ ReadFits(objProvider, objCall'[d])
                        /\ "probe" \notin objRaced' => HealthFits(objProvider, objCall'[d], d, objData'["probe"])
        BY <1>6 DEF CallsFit
    <2>1. CASE d = c
        <3>1. r.op = "health" => o = "probe"
            BY <1>9 DEF StageFits
        <3>2. "probe" \notin objRaced' => HealthFits(objProvider, r, c, objData'["probe"])
            <4>1. CASE r.op = "health"
                BY <4>1, <3>1, <1>3, <1>8
            <4>2. CASE r.op # "health"
                BY <4>2 DEF HealthFits
            <4> QED BY <4>1, <4>2
        <3> QED BY <3>2, <2>1, <1>2
    <2>2. CASE d # c
        <3>1. /\ objCall'[d] = objCall[d]
              /\ StageFits(objProvider, objCall[d]) /\ ReadFits(objProvider, objCall[d])
              /\ "probe" \notin objRaced => HealthFits(objProvider, objCall[d], d, objData["probe"])
            BY <2>2, <1>0, <1>2 DEF CallsFit
        <3>2. ASSUME "probe" \notin objRaced', objCall[d].op = "health", objCall[d].at \in {"read", "delete", "unlink"}
              PROVE  objData'["probe"] = objData["probe"]
            <4>1. objCall[d].obj = "probe" /\ WritesNow(objCall[d])
                BY <3>1, <3>2 DEF StageFits, WritesNow, Writes
            <4>2. "probe" \in Objects
                BY DEF Objects
            <4> QED BY <4>1, <4>2, <3>2, <2>2, <1>3, <1>11
        <3> QED BY <3>1, <3>2, <1>6 DEF HealthFits
    <2> QED BY <2>1, <2>2
<1> QED BY <1>12, <1>13, <1>14, <1>15, <1>16, <1>17 DEF ObjInv

\* What an action finds of the call that takes it.
LEMMA CallFacts ==
      ASSUME ObjInv, NEW c \in ObjCalls
      PROVE  /\ objCall[c] \in ObjCallType /\ objCall[c].obj \in Objects
             /\ StageFits(objProvider, objCall[c]) /\ ReadFits(objProvider, objCall[c])
             /\ objData[objCall[c].obj] \in ObjContents /\ objMeta[objCall[c].obj] \in ObjContents
             /\ objLast[objCall[c].obj] \in ObjContents
             /\ c \in ObjContents /\ NoObject \in ObjContents /\ Partial \in ObjContents /\ Torn \in ObjContents
             /\ objProvider \in Bucketed \cup {"spn", "local"}
    BY DEF ObjInv, ObjTypeOK, CallsFit, ObjCallType, ObjContents

\* What it finds of its object.
LEMMA ObjectFacts ==
      ASSUME ObjInv, NEW c \in ObjCalls, objCall[c].obj \notin objRaced
      PROVE  /\ objCall[c].at = "meta" => objData[objCall[c].obj] = c
             /\ HealthFits(objProvider, objCall[c], c, objData[objCall[c].obj])
             /\ objCall[c].obj \notin objHurt /\ WritesNow(objCall[c]) /\ ~Staged(objCall[c]) =>
                  /\ objData[objCall[c].obj] = objLast[objCall[c].obj]
                  /\ objProvider = "local" /\ objCall[c].obj = "file" =>
                       objMeta[objCall[c].obj] = objLast[objCall[c].obj]
<1> DEFINE o == objCall[c].obj
<1>0. OneWriter /\ Settled /\ MetaFollows /\ CallsFit /\ o \in Objects
    BY CallFacts DEF ObjInv
<1>1. objCall[c].at = "meta" => objData[o] = c
    BY <1>0 DEF MetaFollows
<1>2. HealthFits(objProvider, objCall[c], c, objData[o])
    <2>1. CASE objCall[c].op = "health"
        <3>1. o = "probe"
            BY <2>1, <1>0 DEF CallsFit, StageFits
        <3> QED BY <3>1, <1>0 DEF CallsFit
    <2>2. CASE objCall[c].op # "health"
        BY <2>2 DEF HealthFits
    <2> QED BY <2>1, <2>2
<1>3. ASSUME o \notin objHurt, WritesNow(objCall[c]), ~Staged(objCall[c])
      PROVE  /\ objData[o] = objLast[o]
             /\ objProvider = "local" /\ o = "file" => objMeta[o] = objLast[o]
    <2>1. \A d \in ObjCalls : objCall[d].obj = o => ~Staged(objCall[d])
        BY <1>0, <1>3, StagedWrites DEF OneWriter
    <2> QED BY <2>1, <1>0, <1>3 DEF Settled
<1> QED BY <1>1, <1>2, <1>3

\* Nothing of the object changes.
LEMMA KeptInv ==
      ASSUME ObjInv, NEW c \in ObjCalls, NEW r \in ObjCallType, r.obj = objCall[c].obj,
             objProvider' = objProvider, objBucket' \in BOOLEAN,
             UNCHANGED <<objData, objMeta, objLast, objHurt>>,
             objCall' = [objCall EXCEPT ![c] = r],
             objRaced' \in {objRaced, objRaced \cup {objCall[c].obj}},
             StageFits(objProvider, r), ReadFits(objProvider, r),
             WritesNow(r) => WritesNow(objCall[c]), Staged(objCall[c]) => Staged(r) \/ objCall[c].obj \in objHurt \cup objRaced',
             objCall[c].obj \notin objRaced' =>
                /\ r.at = "meta" => objCall[c].at = "meta"
                /\ HealthFits(objProvider, r, c, objData[objCall[c].obj])
      PROVE  ObjInv'
<1> DEFINE o == objCall[c].obj
<1>1. ObjMoved(c, r, objData[o], objMeta[o], objLast[o])
    BY DEF ObjMoved, ObjInv, ObjTypeOK
<1>2. WritesOnly(c, objData[o], objMeta[o], objLast[o])
    BY DEF WritesOnly
<1>3. Leaves(c, r, objData[o], objMeta[o], objLast[o])
    BY ObjectFacts DEF Leaves
<1>4. objData[o] \in {Partial, Torn} => objProvider \in {"spn", "local"}
    BY CallFacts DEF ObjInv, WholeInBuckets
<1>5. objData[o] \in ObjContents /\ objMeta[o] \in ObjContents /\ objLast[o] \in ObjContents
    BY CallFacts
<1> HIDE DEF o
<1> QED BY <1>1, <1>2, <1>3, <1>4, <1>5, MovedInv DEF o

LEMMA EnsureBucketInv == ASSUME ObjInv, NEW c \in ObjCalls, EnsureBucket(c) PROVE ObjInv'
<1> DEFINE asked == objCall[c]
<1>1. /\ asked \in ObjCallType /\ StageFits(objProvider, asked) /\ ReadFits(objProvider, asked)
      /\ objProvider' = objProvider /\ UNCHANGED <<objData, objMeta, objLast, objHurt>>
      /\ objBucket \in BOOLEAN /\ objCall \in [ObjCalls -> ObjCallType]
    BY CallFacts DEF EnsureBucket, KeepObjects, ObjInv, ObjTypeOK
<1>2. ASSUME NEW at \in {"upload", "make"}, asked.at \in {"bucket", "make"}, Goto(c, at), objBucket' \in BOOLEAN,
             objRaced' = objRaced
      PROVE  ObjInv'
    <2> DEFINE r == [asked EXCEPT !.at = at]
    <2>1. /\ r \in ObjCallType /\ r.at = at /\ r.obj = asked.obj /\ r.op = asked.op /\ r.got = asked.got
          /\ r.failed = asked.failed
        BY <1>1 DEF ObjCallType, ObjStages
    <2>2. objCall' = [objCall EXCEPT ![c] = r]
        BY <1>2 DEF Goto
    <2> HIDE DEF r
    <2>3. StageFits(objProvider, r) /\ ReadFits(objProvider, r) /\ HealthFits(objProvider, r, c, objData[asked.obj])
        BY <2>1, <1>1, <1>2 DEF StageFits, ReadFits, HealthFits
    <2>4. WritesNow(asked) /\ ~Staged(asked)
        BY <1>2 DEF WritesNow, Writes, Staged
    <2> QED BY <2>1, <2>2, <2>3, <2>4, <1>1, <1>2, KeptInv
<1>3. ASSUME asked.at = "make", objBucket' = TRUE, objRaced' = objRaced,
             objCall' = [objCall EXCEPT ![c].at = "done", ![c].failed = TRUE,
                             ![c].answer = IF objCall[c].op = "health" THEN "false" ELSE "raise"]
      PROVE  ObjInv'
    <2> DEFINE a == IF objCall[c].op = "health" THEN "false" ELSE "raise"
               r == [asked EXCEPT !.at = "done", !.failed = TRUE, !.answer = a]
    <2>1. /\ r \in ObjCallType /\ r.at = "done" /\ r.obj = asked.obj /\ r.op = asked.op /\ r.failed = TRUE
        BY <1>1 DEF ObjCallType, ObjStages, ObjAnswers
    <2>2. objCall' = [objCall EXCEPT ![c] = r]
        BY <1>3
    <2> HIDE DEF r, a
    <2>3. StageFits(objProvider, r) /\ ReadFits(objProvider, r) /\ HealthFits(objProvider, r, c, objData[asked.obj])
        BY <2>1, <1>1, <1>3 DEF StageFits, ReadFits, HealthFits
    <2>4. WritesNow(asked) /\ ~Staged(asked)
        BY <1>3 DEF WritesNow, Writes, Staged
    <2> QED BY <2>1, <2>2, <2>3, <2>4, <1>1, <1>3, KeptInv
<1> HIDE DEF asked
<1>4. /\ objRaced' = objRaced
      /\ \/ asked.at = "bucket" /\ Goto(c, IF objBucket THEN "upload" ELSE "make") /\ objBucket' = objBucket
         \/ /\ asked.at = "make" /\ objBucket' = TRUE
            /\ \/ Goto(c, "upload")
               \/ objCall' = [objCall EXCEPT ![c].at = "done", ![c].failed = TRUE,
                             ![c].answer = IF objCall[c].op = "health" THEN "false" ELSE "raise"]
    BY DEF EnsureBucket, asked
<1> QED BY <1>1, <1>2, <1>3, <1>4

LEMMA WroteInv ==
      ASSUME ObjInv, NEW c \in ObjCalls, Wrote(c), UNCHANGED <<objProvider, objBucket, objRaced>>,
             NEW x \in ObjContents, NEW m \in ObjContents,
             objData' = [objData EXCEPT ![objCall[c].obj] = x], objMeta' = [objMeta EXCEPT ![objCall[c].obj] = m],
             objCall[c].at \in {"upload", "flush", "write", "meta"},
             objCall[c].at = "write" => objCall[c].op = "health",
             objCall[c].at = "meta" => m = c,
             objCall[c].obj \notin objRaced => x = c,
             x \in {Partial, Torn} => objProvider \in {"spn", "local"}
      PROVE  ObjInv'
<1> DEFINE asked == objCall[c]
<1>1. /\ asked \in ObjCallType /\ StageFits(objProvider, asked) /\ ReadFits(objProvider, asked)
      /\ objBucket \in BOOLEAN /\ c \in ObjContents /\ asked.op \in {"put", "health"}
    BY CallFacts DEF ObjInv, ObjTypeOK, StageFits
<1>2. WritesNow(asked)
    BY DEF WritesNow, Writes
<1> DEFINE at == IF asked.op = "health" THEN "read" ELSE "done"
           a == IF asked.op = "health" THEN asked.answer ELSE "ok"
           r == [asked EXCEPT !.at = at, !.answer = a]
<1>3. /\ r \in ObjCallType /\ r.at = at /\ r.obj = asked.obj /\ r.op = asked.op /\ r.got = asked.got
      /\ r.failed = asked.failed
    BY <1>1 DEF ObjCallType, ObjStages, ObjAnswers
<1>4. objCall' = [objCall EXCEPT ![c] = r]
    <2>0. objCall \in [ObjCalls -> ObjCallType]
        BY DEF ObjInv, ObjTypeOK
    <2>1. CASE asked.op = "health"
        <3>1. objCall' = [objCall EXCEPT ![c] = [asked EXCEPT !.at = "read"]]
            BY <2>1 DEF Wrote, Goto
        <3>2. r = [asked EXCEPT !.at = "read"]
            BY <2>1, <1>1 DEF ObjCallType
        <3> QED BY <3>1, <3>2
    <2>2. CASE asked.op # "health"
        BY <2>2 DEF Wrote, Answer
    <2> QED BY <2>1, <2>2
<1>5. /\ objLast' = [objLast EXCEPT ![asked.obj] = c] /\ objHurt' = objHurt \ {asked.obj}
    BY DEF Wrote
<1>6. StageFits(objProvider, r) /\ ReadFits(objProvider, r) /\ ~Staged(r) /\ r.at # "meta"
      /\ (x = c => HealthFits(objProvider, r, c, x))
    <2> HIDE DEF r
    <2> QED BY <1>1, <1>3 DEF StageFits, ReadFits, HealthFits, Staged
<1> HIDE DEF r
<1>7. ObjMoved(c, r, x, m, c)
    BY <1>1, <1>4, <1>5 DEF ObjMoved
<1>8. WritesOnly(c, x, m, c)
    BY <1>2 DEF WritesOnly
<1>9. objProvider = "local" /\ asked.obj = "file" => m = c
    <2>1. asked.op = "health" => asked.obj = "probe"
        BY <1>1 DEF StageFits
    <2> QED BY <2>1, <1>1 DEF StageFits, Bucketed
<1>10. Leaves(c, r, x, m, c)
    BY <1>6, <1>9 DEF Leaves
<1> HIDE DEF asked
<1> QED BY <1>1, <1>2, <1>3, <1>6, <1>7, <1>8, <1>10, MovedInv DEF asked

LEMMA UploadInv == ASSUME ObjInv, NEW c \in ObjCalls, Upload(c) PROVE ObjInv'
<1>1. /\ objCall[c].at = "upload" /\ objData' = [objData EXCEPT ![objCall[c].obj] = c] /\ Wrote(c)
      /\ UNCHANGED <<objProvider, objBucket, objMeta, objRaced>>
    BY DEF Upload, Store
<1>2. /\ objMeta' = [objMeta EXCEPT ![objCall[c].obj] = objMeta[objCall[c].obj]]
      /\ c \in ObjContents /\ objMeta[objCall[c].obj] \in ObjContents
    BY <1>1, CallFacts DEF ObjInv, ObjTypeOK
<1>3. c \notin {Partial, Torn}
    BY ObjectAssumption
<1> QED BY <1>1, <1>2, <1>3, WroteInv

\* A stage of a put after which its object is being written.
LEMMA StagedInv ==
      ASSUME ObjInv, NEW c \in ObjCalls, NEW at \in {"append", "flush", "write", "meta"}, Goto(c, at),
             UNCHANGED <<objProvider, objBucket, objRaced, objMeta, objLast, objHurt>>,
             NEW x \in ObjContents, objData' = [objData EXCEPT ![objCall[c].obj] = x],
             WritesNow(objCall[c]), objCall[c].op \in {"put", "health"}, objCall[c].at # "new",
             StageFits(objProvider, [objCall[c] EXCEPT !.at = at]),
             x \in {Partial, Torn} => objProvider \in {"spn", "local"},
             at = "meta" /\ objCall[c].obj \notin objRaced => x = c
      PROVE  ObjInv'
<1> DEFINE asked == objCall[c]
           r == [asked EXCEPT !.at = at]
<1>1. /\ asked \in ObjCallType /\ ReadFits(objProvider, asked)
      /\ objBucket \in BOOLEAN /\ objMeta[asked.obj] \in ObjContents /\ objLast[asked.obj] \in ObjContents
    BY CallFacts DEF ObjInv, ObjTypeOK
<1>2. /\ r \in ObjCallType /\ r.at = at /\ r.obj = asked.obj /\ r.op = asked.op
    BY <1>1 DEF ObjCallType, ObjStages
<1>3. objCall' = [objCall EXCEPT ![c] = r]
    BY DEF Goto
<1>4. StageFits(objProvider, r)
    OBVIOUS
<1> HIDE DEF r
<1>5. ReadFits(objProvider, r) /\ Staged(r) /\ HealthFits(objProvider, r, c, x)
    BY <1>1, <1>2 DEF ReadFits, Staged, HealthFits
<1>6. ObjMoved(c, r, x, objMeta[asked.obj], objLast[asked.obj])
    BY <1>1, <1>3 DEF ObjMoved, ObjInv, ObjTypeOK
<1>7. WritesOnly(c, x, objMeta[asked.obj], objLast[asked.obj])
    BY DEF WritesOnly
<1>8. Leaves(c, r, x, objMeta[asked.obj], objLast[asked.obj])
    BY <1>2, <1>5 DEF Leaves
<1>9. WritesNow(asked)
    OBVIOUS
<1> HIDE DEF asked
<1> QED BY <1>1, <1>2, <1>4, <1>5, <1>6, <1>7, <1>8, <1>9, MovedInv DEF asked

LEMMA SpnPutInv == ASSUME ObjInv, NEW c \in ObjCalls, SpnPut(c) PROVE ObjInv'
<1> DEFINE asked == objCall[c]
           o == asked.obj
<1>1. /\ asked \in ObjCallType /\ StageFits(objProvider, asked) /\ ReadFits(objProvider, asked)
      /\ c \in ObjContents /\ Partial \in ObjContents /\ Torn \in ObjContents /\ objData[o] \in ObjContents
      /\ objMeta[o] \in ObjContents /\ objLast[o] \in ObjContents
      /\ objBucket \in BOOLEAN /\ UNCHANGED <<objProvider, objBucket, objMeta, objRaced>>
      /\ objData[o] \in {Partial, Torn} => objProvider \in {"spn", "local"}
    BY CallFacts DEF ObjInv, ObjTypeOK, SpnPut, WholeInBuckets
<1>2. /\ objMeta' = [objMeta EXCEPT ![o] = objMeta[o]]
      /\ (objData' = objData => objData' = [objData EXCEPT ![o] = objData[o]])
    BY <1>1 DEF ObjInv, ObjTypeOK
<1>3. CASE asked.at = "create" /\ Store(o, Partial) /\ Goto(c, "append") /\ UNCHANGED <<objLast, objHurt>>
    <2>1. StageFits(objProvider, [asked EXCEPT !.at = "append"]) /\ WritesNow(asked) /\ objProvider = "spn"
          /\ asked.op \in {"put", "health"}
        BY <1>1, <1>3 DEF ObjCallType, StageFits, WritesNow, Writes
    <2> QED BY <2>1, <1>1, <1>3, StagedInv DEF Store
<1>4. CASE asked.at = "append" /\ Goto(c, "flush") /\ UNCHANGED <<objData, objLast, objHurt>>
    <2>1. StageFits(objProvider, [asked EXCEPT !.at = "flush"]) /\ WritesNow(asked)
          /\ asked.op \in {"put", "health"}
        BY <1>1, <1>4 DEF ObjCallType, StageFits, WritesNow, Writes
    <2> QED BY <2>1, <1>1, <1>2, <1>4, StagedInv
<1>5. CASE asked.at = "flush" /\ (Store(o, c) \/ (o \in objRaced /\ Store(o, Torn))) /\ Wrote(c)
    <2>1. objProvider = "spn"
        BY <1>1, <1>5 DEF StageFits
    <2>2. CASE Store(o, c)
        BY <2>1, <2>2, <1>1, <1>2, <1>5, WroteInv DEF Store
    <2>3. CASE o \in objRaced /\ Store(o, Torn)
        BY <2>1, <2>3, <1>1, <1>2, <1>5, WroteInv DEF Store
    <2> QED BY <2>2, <2>3, <1>5
<1>6. CASE /\ asked.at = "flush" /\ o \in objRaced
           /\ Answer(c, IF objCall[c].op = "health" THEN "false" ELSE "raise")
           /\ objHurt' = objHurt \cup {o} /\ UNCHANGED <<objData, objLast>>
    <2> DEFINE a == IF objCall[c].op = "health" THEN "false" ELSE "raise"
               r == [asked EXCEPT !.at = "done", !.answer = a]
    <2>1. /\ r \in ObjCallType /\ r.at = "done" /\ r.obj = asked.obj /\ r.op = asked.op
        BY <1>1 DEF ObjCallType, ObjStages, ObjAnswers
    <2>2. objCall' = [objCall EXCEPT ![c] = r]
        BY <1>6 DEF Answer
    <2> HIDE DEF r, a
    <2>3. StageFits(objProvider, r) /\ ReadFits(objProvider, r)
        BY <2>1, <1>1, <1>6 DEF StageFits, ReadFits
    <2>4. WritesNow(asked)
        BY <1>6 DEF WritesNow, Writes
    <2>5. ObjMoved(c, r, objData[o], objMeta[o], objLast[o])
        BY <2>2, <1>1, <1>6 DEF ObjMoved, ObjInv, ObjTypeOK
    <2>6. WritesOnly(c, objData[o], objMeta[o], objLast[o]) /\ Leaves(c, r, objData[o], objMeta[o], objLast[o])
        BY <2>4, <1>1, <1>6 DEF WritesOnly, Leaves
    <2> HIDE DEF asked
    <2> QED BY <2>1, <2>3, <2>4, <2>5, <2>6, <1>1, MovedInv DEF asked
<1> QED BY <1>3, <1>4, <1>5, <1>6 DEF SpnPut

LEMMA LocalPutInv == ASSUME ObjInv, NEW c \in ObjCalls, LocalPut(c) PROVE ObjInv'
<1> DEFINE asked == objCall[c]
           o == asked.obj
<1>1. /\ asked \in ObjCallType /\ StageFits(objProvider, asked) /\ ReadFits(objProvider, asked)
      /\ c \in ObjContents /\ Partial \in ObjContents /\ Torn \in ObjContents /\ objData[o] \in ObjContents
      /\ objMeta[o] \in ObjContents /\ objLast[o] \in ObjContents
      /\ objBucket \in BOOLEAN /\ UNCHANGED <<objProvider, objBucket, objRaced>>
      /\ objData[o] \in {Partial, Torn} => objProvider \in {"spn", "local"}
    BY CallFacts DEF ObjInv, ObjTypeOK, LocalPut, WholeInBuckets
<1>2. /\ (objMeta' = objMeta => objMeta' = [objMeta EXCEPT ![o] = objMeta[o]])
      /\ (objData' = objData => objData' = [objData EXCEPT ![o] = objData[o]])
    BY <1>1 DEF ObjInv, ObjTypeOK
<1>3. CASE asked.at = "open" /\ Store(o, Partial) /\ Goto(c, "write") /\ UNCHANGED <<objMeta, objLast, objHurt>>
    <2>1. StageFits(objProvider, [asked EXCEPT !.at = "write"]) /\ WritesNow(asked) /\ objProvider = "local"
          /\ asked.op \in {"put", "health"}
        BY <1>1, <1>3 DEF ObjCallType, StageFits, WritesNow, Writes
    <2> QED BY <2>1, <1>1, <1>3, StagedInv DEF Store
<1>4. CASE /\ asked.at = "write" /\ (Store(o, c) \/ (o \in objRaced /\ (Store(o, Torn) \/ UNCHANGED objData)))
           /\ UNCHANGED objMeta
           /\ IF objCall[c].op = "health" THEN Wrote(c) ELSE Goto(c, "meta") /\ UNCHANGED <<objLast, objHurt>>
    <2>1. objProvider = "local" /\ WritesNow(asked) /\ asked.op \in {"put", "health"}
        BY <1>1, <1>4 DEF StageFits, WritesNow, Writes
    <2>2. ASSUME NEW x \in ObjContents, objData' = [objData EXCEPT ![o] = x], o \notin objRaced => x = c
          PROVE  ObjInv'
        <3>1. CASE asked.op = "health"
            BY <3>1, <2>1, <2>2, <1>1, <1>2, <1>4, WroteInv
        <3>2. CASE asked.op # "health"
            <4>1. StageFits(objProvider, [asked EXCEPT !.at = "meta"])
                BY <3>2, <2>1, <1>1, <1>4 DEF ObjCallType, StageFits
            <4> QED BY <4>1, <3>2, <2>1, <2>2, <1>1, <1>2, <1>4, StagedInv
        <3> QED BY <3>1, <3>2
    <2> QED BY <2>2, <1>1, <1>2, <1>4 DEF Store
<1>5. CASE asked.at = "meta" /\ objMeta' = [objMeta EXCEPT ![o] = c] /\ Wrote(c) /\ UNCHANGED objData
    <2>1. o \notin objRaced => objData[o] = c
        BY <1>5, ObjectFacts
    <2> QED BY <2>1, <1>1, <1>2, <1>5, WroteInv
<1> QED BY <1>3, <1>4, <1>5 DEF LocalPut

LEMMA ReadInv == ASSUME ObjInv, NEW c \in ObjCalls, Read(c) PROVE ObjInv'
<1> DEFINE asked == objCall[c]
           o == asked.obj
           there == objData[o] # NoObject
           at == IF asked.op = "health" THEN "delete" ELSE "done"
           a == IF asked.op = "get" /\ ~there THEN "none" ELSE IF there THEN "true" ELSE "false"
           r == [asked EXCEPT !.at = at, !.got = objData[o], !.answer = a]
<1>1. /\ asked \in ObjCallType /\ StageFits(objProvider, asked) /\ ReadFits(objProvider, asked)
      /\ objData[o] \in ObjContents /\ objBucket' \in BOOLEAN
      /\ UNCHANGED <<objProvider, objRaced>> /\ UNCHANGED <<objData, objMeta, objLast, objHurt>> /\ asked.at = "read"
      /\ objData[o] \in {Partial, Torn} => objProvider \in {"spn", "local"}
    BY CallFacts DEF ObjInv, ObjTypeOK, Read, WholeInBuckets, KeepObjects
<1>2. /\ r \in ObjCallType /\ r.at = at /\ r.obj = o /\ r.op = asked.op /\ r.got = objData[o] /\ r.answer = a
      /\ r.failed = asked.failed
    BY <1>1 DEF ObjCallType, ObjStages, ObjAnswers
<1>3. objCall' = [objCall EXCEPT ![c] = r]
    <2> DEFINE read == [asked EXCEPT !.at = "done", !.got = objData[o], !.answer = IF there THEN "true" ELSE "false"]
    <2>1. objCall' = [objCall EXCEPT ![c] = CASE read.op = "health" -> [read EXCEPT !.at = "delete"]
                          [] read.op = "get" /\ ~there -> [read EXCEPT !.answer = "none"]
                          [] OTHER -> read]
        BY DEF Read
    <2>2. read.op = asked.op
        BY <1>1 DEF ObjCallType
    <2>3. CASE asked.op = "health"
        <3>1. [read EXCEPT !.at = "delete"] = r
            BY <2>3, <1>1 DEF ObjCallType
        <3> QED BY <3>1, <2>1, <2>2, <2>3
    <2>4. CASE asked.op = "get" /\ ~there
        <3>1. [read EXCEPT !.answer = "none"] = r
            BY <2>4, <1>1 DEF ObjCallType
        <3> QED BY <3>1, <2>1, <2>2, <2>4
    <2>5. CASE asked.op # "health" /\ ~(asked.op = "get" /\ ~there)
        <3>1. read = r
            BY <2>5, <1>1 DEF ObjCallType
        <3> QED BY <3>1, <2>1, <2>2, <2>5
    <2> QED BY <2>3, <2>4, <2>5
<1> HIDE DEF r
<1>4. o \notin objRaced => HealthFits(objProvider, asked, c, objData[o])
    BY ObjectFacts
<1>5. c # NoObject
    BY ObjectAssumption
<1>6. StageFits(objProvider, r) /\ ReadFits(objProvider, r)
    BY <1>1, <1>2 DEF StageFits, ReadFits
<1>7. o \notin objRaced => HealthFits(objProvider, r, c, objData[o])
    BY <1>1, <1>2, <1>4, <1>5 DEF HealthFits
<1>8. /\ WritesNow(r) => WritesNow(asked)
      /\ ~Staged(asked)
    BY <1>1, <1>2 DEF WritesNow, Writes, Staged
<1> HIDE DEF asked
<1> QED BY <1>1, <1>2, <1>3, <1>6, <1>7, <1>8, KeptInv DEF asked

\* A call that has its answer, without a write.
LEMMA ObjAnsweredInv ==
      ASSUME ObjInv, NEW c \in ObjCalls, NEW a \in ObjAnswers,
             UNCHANGED <<objProvider, objBucket, objRaced, objData, objMeta, objLast, objHurt>>,
             objCall' = [objCall EXCEPT ![c].at = "done", ![c].answer = a],
             objCall[c].op \in {"delete", "health"}, ~Staged(objCall[c]),
             objCall[c].op = "health" /\ a = "false" => objCall[c].obj \in objRaced
      PROVE  ObjInv'
<1> DEFINE asked == objCall[c]
           r == [asked EXCEPT !.at = "done", !.answer = a]
<1>1. /\ asked \in ObjCallType /\ StageFits(objProvider, asked) /\ ReadFits(objProvider, asked)
      /\ objBucket' \in BOOLEAN /\ asked.op \in {"delete", "health"}
    BY CallFacts DEF ObjInv, ObjTypeOK
<1>2. /\ r \in ObjCallType /\ r.at = "done" /\ r.obj = asked.obj /\ r.op = asked.op /\ r.answer = a
    BY <1>1 DEF ObjCallType, ObjStages
<1>3. objCall' = [objCall EXCEPT ![c] = r]
    OBVIOUS
<1> HIDE DEF r
<1>4. StageFits(objProvider, r) /\ ReadFits(objProvider, r) /\ ~WritesNow(r) /\ r.at # "meta"
    BY <1>1, <1>2 DEF StageFits, ReadFits, WritesNow, Writes
<1>5. asked.obj \notin objRaced => HealthFits(objProvider, r, c, objData[asked.obj])
    BY <1>2 DEF HealthFits
<1> HIDE DEF asked
<1> QED BY <1>1, <1>2, <1>3, <1>4, <1>5, KeptInv DEF asked

LEMMA HealthListInv == ASSUME ObjInv, NEW c \in ObjCalls, HealthList(c) PROVE ObjInv'
<1>1. objCall[c].at = "ping" /\ StageFits(objProvider, objCall[c])
    BY CallFacts DEF HealthList
<1>2. objCall[c].op = "health" /\ ~Staged(objCall[c]) /\ "true" \in ObjAnswers
    BY <1>1 DEF StageFits, Staged, ObjAnswers
<1> QED BY <1>2, ObjAnsweredInv DEF HealthList, Answer, KeepObjects

LEMMA DeleteObjInv == ASSUME ObjInv, NEW c \in ObjCalls, DeleteObj(c) PROVE ObjInv'
<1> DEFINE asked == objCall[c]
           o == asked.obj
           gone == objData[o] = NoObject
           deleted == /\ Store(o, NoObject) /\ Deleted(c)
                   /\ objLast' = [objLast EXCEPT ![o] = NoObject] /\ objHurt' = objHurt \ {o}
           fail == /\ UNCHANGED <<objData, objMeta, objLast, objHurt>>
                   /\ IF objCall[c].op = "health" /\ objProvider = "spn" THEN Goto(c, "done") ELSE Answer(c, "false")
<1>1. /\ asked \in ObjCallType /\ StageFits(objProvider, asked) /\ ReadFits(objProvider, asked)
      /\ NoObject \in ObjContents /\ objBucket \in BOOLEAN
      /\ objCall \in [ObjCalls -> ObjCallType]
      /\ UNCHANGED <<objProvider, objBucket, objRaced>> /\ asked.at \in {"delete", "unlink"}
    BY CallFacts DEF ObjInv, ObjTypeOK, DeleteObj
<1>2. /\ asked.op \in {"delete", "health"} /\ WritesNow(asked) /\ ~Staged(asked)
      /\ o \notin objRaced => HealthFits(objProvider, asked, c, objData[o])
    BY <1>1, ObjectFacts DEF StageFits, WritesNow, Writes, Staged
<1>3. CASE deleted
    <2> DEFINE a == IF asked.op = "health" THEN asked.answer ELSE "true"
               r == [asked EXCEPT !.at = "done", !.answer = a]
    <2>1. /\ r \in ObjCallType /\ r.at = "done" /\ r.obj = o /\ r.op = asked.op
          /\ r.answer = a
        BY <1>1 DEF ObjCallType, ObjStages, ObjAnswers
    <2>2. objCall' = [objCall EXCEPT ![c] = r]
        <3>1. CASE asked.op = "health"
            <4>1. r = [asked EXCEPT !.at = "done"]
                BY <3>1, <1>1 DEF ObjCallType
            <4> QED BY <3>1, <4>1, <1>3 DEF Deleted, Goto
        <3>2. CASE asked.op # "health"
            BY <3>2, <1>3 DEF Deleted, Answer
        <3> QED BY <3>1, <3>2
    <2> HIDE DEF r
    <2>3. StageFits(objProvider, r) /\ ReadFits(objProvider, r) /\ ~WritesNow(r) /\ r.at # "meta"
        BY <1>1, <1>2, <2>1 DEF StageFits, ReadFits, WritesNow, Writes
    <2>4. o \notin objRaced => HealthFits(objProvider, r, c, NoObject)
        BY <1>1, <1>2, <2>1 DEF HealthFits
    <2>5. ObjMoved(c, r, NoObject, NoObject, NoObject)
        BY <2>2, <1>1, <1>3 DEF ObjMoved, Store, Deleted
    <2>6. WritesOnly(c, NoObject, NoObject, NoObject) /\ Leaves(c, r, NoObject, NoObject, NoObject)
        BY <1>1, <1>2, <2>3, <2>4 DEF WritesOnly, Leaves
    <2>7. NoObject \notin {Partial, Torn}
        BY ObjectAssumption
    <2> HIDE DEF asked
    <2> QED BY <1>1, <1>2, <2>1, <2>3, <2>5, <2>6, <2>7, MovedInv DEF asked
<1>4. CASE fail /\ gone /\ objProvider \notin Bucketed /\ (objProvider = "local" => asked.at = "unlink")
    <2>1. CASE asked.op = "health" /\ objProvider = "spn"
        <3>1. objCall' = [objCall EXCEPT ![c].at = "done", ![c].answer = asked.answer]
            <4>1. [asked EXCEPT !.at = "done"] = [asked EXCEPT !.at = "done", !.answer = asked.answer]
                BY <1>1 DEF ObjCallType
            <4>2. objCall' = [objCall EXCEPT ![c] = [asked EXCEPT !.at = "done"]]
                BY <2>1, <1>4 DEF Goto
            <4> QED BY <4>1, <4>2
        <3>2. asked.answer \in ObjAnswers
            BY <1>1 DEF ObjCallType
        <3>3. o \notin objRaced => asked.answer = "true"
            BY <2>1, <1>1, <1>2 DEF HealthFits
        <3> QED BY <3>1, <3>2, <3>3, <1>1, <1>2, <1>4, ObjAnsweredInv
    <2>2. CASE ~(asked.op = "health" /\ objProvider = "spn")
        <3>1. asked.op = "health" => o \in objRaced
            <4>1. objProvider \in Bucketed \cup {"spn", "local"}
                BY DEF ObjInv, ObjTypeOK
            <4> QED BY <4>1, <2>2, <1>1, <1>2, <1>4 DEF HealthFits
        <3>2. "false" \in ObjAnswers
            BY DEF ObjAnswers
        <3> QED BY <3>1, <3>2, <2>2, <1>1, <1>2, <1>4, ObjAnsweredInv DEF Answer
    <2> QED BY <2>1, <2>2
<1>5. CASE objProvider = "local" /\ asked.at = "delete" /\ ~(gone /\ asked.op = "delete") /\ Goto(c, "unlink") /\ KeepObjects
    <2> DEFINE r == [asked EXCEPT !.at = "unlink"]
    <2>1. /\ r \in ObjCallType /\ r.at = "unlink" /\ r.obj = o /\ r.op = asked.op /\ r.answer = asked.answer
        BY <1>1 DEF ObjCallType, ObjStages
    <2>2. objCall' = [objCall EXCEPT ![c] = r]
        BY <1>5 DEF Goto
    <2> HIDE DEF r
    <2>3. StageFits(objProvider, r) /\ ReadFits(objProvider, r)
        BY <1>1, <1>2, <1>5, <2>1 DEF StageFits, ReadFits
    <2>4. o \notin objRaced => HealthFits(objProvider, r, c, objData[o])
        BY <1>2, <1>5, <2>1 DEF HealthFits
    <2> HIDE DEF asked
    <2> QED BY <1>1, <1>2, <1>5, <2>1, <2>2, <2>3, <2>4, KeptInv DEF asked, KeepObjects
<1>6. \/ asked.at = "delete" /\ objProvider \in Bucketed /\ deleted
      \/ asked.at = "delete" /\ objProvider = "spn" /\ (IF gone THEN fail ELSE deleted)
      \/ /\ asked.at = "delete" /\ objProvider = "local"
         /\ IF gone /\ objCall[c].op = "delete" THEN deleted ELSE Goto(c, "unlink") /\ KeepObjects
      \/ asked.at = "unlink" /\ (IF gone THEN fail ELSE deleted)
    BY DEF DeleteObj
<1>7. asked.at = "unlink" => objProvider = "local"
    BY <1>1 DEF StageFits
<1> HIDE DEF deleted, fail, gone, asked
<1> QED BY <1>3, <1>4, <1>5, <1>6, <1>7 DEF Bucketed, asked

LEMMA ErrorAnswers ==
      ASSUME NEW op \in {"put", "get", "exists", "delete"}, NEW err \in {"refused", "broken"}
      PROVE  /\ ErrorAnswer(op, err) \in ObjAnswers
             /\ objProvider = "s3" /\ op \in {"get", "exists"} => ErrorAnswer(op, err) = "raise"
    BY DEF ErrorAnswer, S3Error, OssError, QuietError, ObjAnswers

LEMMA ObjFailsInv == ASSUME ObjInv, NEW c \in ObjCalls, ObjFails(c) PROVE ObjInv'
<1> DEFINE asked == objCall[c]
           o == asked.obj
           start == IF asked.op \in {"put", "health"} /\ asked.at \in {"create", "append", "flush"} THEN "create" ELSE asked.at
           Final(err) == IF asked.op # "health" THEN ErrorAnswer(asked.op, err)
                         ELSE IF asked.at \in {"delete", "unlink"} /\ objProvider # "local" THEN asked.answer ELSE "false"
           effects == CASE asked.at \in {"upload", "flush"} -> {objData[o], c}
                        [] asked.at \in {"create", "open", "write"} -> {objData[o], Partial}
                        [] asked.at \in {"delete", "unlink"} -> {objData[o], NoObject}
                        [] OTHER -> {objData[o]}
<1>1. PICK err \in {"refused", "broken"} :
        /\ asked.at \notin {"new", "done", "make"}
        /\ objCall' = [objCall EXCEPT ![c] =
                         IF Retried(c, err) THEN [asked EXCEPT !.at = start, !.tries = asked.tries + 1]
                                            ELSE [asked EXCEPT !.at = "done", !.answer = Final(err), !.failed = TRUE]]
        /\ \E content \in effects : Store(o, content)
        /\ objHurt' = IF Writes(asked.at) /\ asked.at # "bucket" THEN objHurt \cup {o} ELSE objHurt
        /\ UNCHANGED <<objProvider, objBucket, objMeta, objLast, objRaced>>
    BY DEF ObjFails
<1>2. PICK x \in effects : objData' = [objData EXCEPT ![o] = x]
    BY <1>1 DEF Store
<1>3. /\ asked \in ObjCallType /\ o \in Objects /\ StageFits(objProvider, asked) /\ ReadFits(objProvider, asked)
      /\ objData[o] \in ObjContents /\ objMeta[o] \in ObjContents /\ objLast[o] \in ObjContents
      /\ c \in ObjContents /\ NoObject \in ObjContents /\ Partial \in ObjContents
      /\ objBucket \in BOOLEAN /\ objProvider \in Bucketed \cup {"spn", "local"}
      /\ objData[o] \in {Partial, Torn} => objProvider \in {"spn", "local"}
    BY CallFacts DEF ObjInv, ObjTypeOK, WholeInBuckets
<1>4. /\ x \in ObjContents
      /\ x # objData[o] => asked.at \in {"upload", "flush", "create", "open", "write", "delete", "unlink"}
      /\ x \in {Partial, Torn} => objProvider \in {"spn", "local"}
    <2>1. c \notin {Partial, Torn} /\ NoObject \notin {Partial, Torn}
        BY ObjectAssumption
    <2>2. asked.at \in {"create", "open", "write"} => objProvider \in {"spn", "local"}
        BY <1>3 DEF StageFits
    <2> QED BY <2>1, <2>2, <1>2, <1>3
<1>5. o \notin objRaced =>
        /\ HealthFits(objProvider, asked, c, objData[o])
        /\ o \notin objHurt /\ WritesNow(asked) /\ ~Staged(asked) =>
            /\ objData[o] = objLast[o]
            /\ objProvider = "local" /\ o = "file" => objMeta[o] = objLast[o]
    BY ObjectFacts
<1> HIDE DEF effects
\* Where nothing was hurt, the object is what it was.
<1>6. o \notin objHurt' /\ WritesNow(asked) => x = objData[o] /\ ~Staged(asked) /\ o \notin objHurt
    BY <1>1, <1>4 DEF WritesNow, Writes, Staged
<1>7. ASSUME NEW r \in ObjCallType, objCall' = [objCall EXCEPT ![c] = r], r.obj = o,
             StageFits(objProvider, r), ReadFits(objProvider, r), r.at # "meta", WritesNow(r) => WritesNow(asked),
             o \notin objRaced => HealthFits(objProvider, r, c, x)
      PROVE  ObjInv'
    <2>1. ObjMoved(c, r, x, objMeta[o], objLast[o])
        BY <1>1, <1>2, <1>3, <1>7 DEF ObjMoved, ObjInv, ObjTypeOK
    <2>2. WritesOnly(c, x, objMeta[o], objLast[o])
        BY <1>1, <1>4 DEF WritesOnly, WritesNow, Writes
    <2>3. Leaves(c, r, x, objMeta[o], objLast[o])
        BY <1>1, <1>5, <1>6, <1>7 DEF Leaves
    <2> HIDE DEF asked
    <2> QED BY <2>1, <2>2, <2>3, <1>3, <1>4, <1>7, MovedInv DEF asked
<1>8. CASE Retried(c, err)
    <2> DEFINE n == asked.tries + 1
               r == [asked EXCEPT !.at = start, !.tries = n]
    <2>1. n \in Nat /\ objProvider = "spn" /\ start \in ObjStages
        BY <1>3, <1>8 DEF Retried, ObjCallType, ObjStages
    <2>2. objCall' = [objCall EXCEPT ![c] = r]
        BY <1>1, <1>8
    <2>3. /\ start = "create" \/ start = asked.at
          /\ start = "create" => asked.op \in {"put", "health"} /\ asked.at \in {"create", "append", "flush"}
        BY <1>3 DEF StageFits
    <2>4. start = asked.at => start \notin {"append", "flush"}
        BY <1>3 DEF StageFits
    <2> HIDE DEF n, start
    <2>5. /\ r \in ObjCallType /\ r.at = start /\ r.obj = o /\ r.op = asked.op /\ r.got = asked.got
          /\ r.answer = asked.answer /\ r.failed = asked.failed
        BY <1>3, <2>1 DEF ObjCallType
    <2> HIDE DEF r
    <2>6. StageFits(objProvider, r) /\ ReadFits(objProvider, r) /\ r.at # "meta"
        BY <1>1, <1>3, <2>1, <2>3, <2>5 DEF StageFits, ReadFits
    <2>7. WritesNow(r) => WritesNow(asked)
        BY <2>3, <2>5 DEF WritesNow, Writes
    <2>8. o \notin objRaced => HealthFits(objProvider, r, c, x)
        BY <1>1, <1>4, <1>5, <2>1, <2>3, <2>5 DEF HealthFits
    <2> QED BY <1>7, <2>2, <2>5, <2>6, <2>7, <2>8
<1>9. CASE ~Retried(c, err)
    <2> DEFINE a == Final(err)
               r == [asked EXCEPT !.at = "done", !.answer = a, !.failed = TRUE]
    <2>1. objCall' = [objCall EXCEPT ![c] = r]
        BY <1>1, <1>9
    <2>2. asked.op \in {"put", "get", "exists", "delete", "health"}
        BY <1>1, <1>3 DEF StageFits, ObjCallType, ObjOps
    <2>3. a \in ObjAnswers /\ (objProvider = "s3" /\ asked.op \in {"get", "exists"} => a = "raise")
        <3>1. "false" \in ObjAnswers /\ asked.answer \in ObjAnswers
            BY <1>3 DEF ObjAnswers, ObjCallType
        <3>2. CASE asked.op # "health"
            <4>1. a = ErrorAnswer(asked.op, err) /\ asked.op \in {"put", "get", "exists", "delete"}
                BY <3>2, <2>2
            <4> HIDE DEF a
            <4> QED BY <4>1, ErrorAnswers
        <3>3. CASE asked.op = "health"
            BY <3>1, <3>3
        <3> QED BY <3>2, <3>3
    <2> HIDE DEF a
    <2>4. /\ r \in ObjCallType /\ r.at = "done" /\ r.obj = o /\ r.op = asked.op /\ r.got = asked.got
          /\ r.answer = a /\ r.failed = TRUE
        BY <1>3, <2>3 DEF ObjCallType, ObjStages
    <2> HIDE DEF r
    <2>5. StageFits(objProvider, r)
        BY <1>1, <1>3, <2>4 DEF StageFits
    <2>6. ReadFits(objProvider, r)
        <3>1. NoObject \notin {Partial, Torn}
            BY ObjectAssumption
        <3> QED BY <3>1, <1>1, <1>3, <2>3, <2>4 DEF ReadFits
    <2>7. ~WritesNow(r) /\ r.at # "meta" /\ HealthFits(objProvider, r, c, x)
        BY <2>4 DEF WritesNow, Writes, HealthFits
    <2> QED BY <1>7, <2>1, <2>4, <2>5, <2>6, <2>7
<1> QED BY <1>8, <1>9

\* A call that arrives: of two that write an object, the second races.
LEMMA ObjBeginInv == ASSUME ObjInv, NEW c \in ObjCalls, ObjBegin(c) PROVE ObjInv'
<1>0. ObjTypeOK /\ OneWriter /\ WholeInBuckets /\ Settled /\ MetaFollows /\ CallsFit
    BY DEF ObjInv
<1>1. PICK op \in {"put", "get", "exists", "delete", "health"} :
    LET o == IF op = "health" THEN "probe" ELSE "file"
        at == CASE op = "put" -> PutStart
                [] op = "delete" -> "delete"
                [] op = "health" -> IF objProvider \in {"minio", "s3"} THEN "ping" ELSE PutStart
                [] OTHER -> "read"
        asked == [NoObjCall EXCEPT !.op = op, !.obj = o, !.at = at]
    IN  /\ Arriving(c) /\ UNCHANGED <<objProvider, objBucket>> /\ KeepObjects
        /\ \/ objCall' = [objCall EXCEPT ![c] = asked] /\ NoFault
           \/ /\ objProvider # "local" /\ ObjFault
              /\ objCall' = [objCall EXCEPT ![c] = [asked EXCEPT !.at = "done", !.answer = "raise", !.failed = TRUE]]
        /\ objRaced' = IF Writes(at) /\ Writers(o, c) # {} THEN objRaced \cup {o} ELSE objRaced
    BY DEF ObjBegin
<1> DEFINE o == IF op = "health" THEN "probe" ELSE "file"
           at == CASE op = "put" -> PutStart
                   [] op = "delete" -> "delete"
                   [] op = "health" -> IF objProvider \in {"minio", "s3"} THEN "ping" ELSE PutStart
                   [] OTHER -> "read"
           asked == [NoObjCall EXCEPT !.op = op, !.obj = o, !.at = at]
           lost == [asked EXCEPT !.at = "done", !.answer = "raise", !.failed = TRUE]
<1>2. /\ objCall[c].at = "new" /\ UNCHANGED <<objProvider, objBucket, objData, objMeta, objLast, objHurt>>
      /\ objCall' = [objCall EXCEPT ![c] = asked] \/ objCall' = [objCall EXCEPT ![c] = lost]
      /\ objRaced' = IF Writes(at) /\ Writers(o, c) # {} THEN objRaced \cup {o} ELSE objRaced
    BY <1>1 DEF Arriving, KeepObjects
<1>3. /\ objProvider \in Bucketed \cup {"spn", "local"} /\ objCall \in [ObjCalls -> ObjCallType] /\ objRaced \subseteq Objects
      /\ o \in Objects /\ NoObject \in ObjContents
    BY <1>0 DEF ObjTypeOK, Objects, ObjContents
<1>4. /\ op = "put" => at = PutStart
      /\ op = "delete" => at = "delete"
      /\ op = "health" => at \in {"ping", PutStart}
      /\ op \in {"get", "exists"} => at = "read"
    OBVIOUS
<1>5. \/ PutStart = "bucket" /\ objProvider \in Bucketed
      \/ PutStart = "create" /\ objProvider = "spn"
      \/ PutStart = "open" /\ objProvider = "local"
    BY <1>3 DEF PutStart, Bucketed
<1> HIDE DEF at
<1>6. at \in {"bucket", "create", "open", "delete", "ping", "read"}
    BY <1>4, <1>5
<1>7. /\ asked.op = op /\ asked.obj = o /\ asked.at = at /\ asked.got = NoObject /\ asked.failed = FALSE
      /\ asked \in ObjCallType
    BY <1>3, <1>6 DEF NoObjCall, ObjCallType, ObjStages, ObjOps, ObjAnswers
<1>8. /\ lost.op = op /\ lost.obj = o /\ lost.at = "done" /\ lost.got = NoObject /\ lost.failed = TRUE
      /\ lost.answer = "raise" /\ lost \in ObjCallType
    BY <1>3, <1>6 DEF NoObjCall, ObjCallType, ObjStages, ObjOps, ObjAnswers
<1> HIDE DEF asked, lost
<1>9. /\ StageFits(objProvider, asked) /\ ReadFits(objProvider, asked)
      /\ StageFits(objProvider, lost) /\ ReadFits(objProvider, lost)
    <2>1. NoObject \notin {Partial, Torn}
        BY ObjectAssumption
    <2> QED BY <2>1, <1>4, <1>5, <1>6, <1>7, <1>8 DEF StageFits, ReadFits
<1>10. /\ ~WritesNow(lost) /\ ~Staged(lost) /\ ~Staged(asked) /\ (WritesNow(asked) => Writes(at))
       /\ lost.at # "meta" /\ asked.at # "meta"
    BY <1>4, <1>5, <1>6, <1>7, <1>8 DEF WritesNow, Writes, Staged
<1>11. /\ op = "health" => at \in {"ping", "bucket", "create", "open"}
       /\ asked.op = "health" => asked.at \notin {"read", "delete", "unlink", "done"}
    BY <1>4, <1>5, <1>7
<1>12. PICK r \in {asked, lost} : objCall' = [objCall EXCEPT ![c] = r]
    BY <1>2
<1>13. /\ r \in ObjCallType /\ r.op = op /\ r.obj = o /\ ~Staged(r) /\ r.at # "meta"
       /\ StageFits(objProvider, r) /\ ReadFits(objProvider, r) /\ (WritesNow(r) => Writes(at))
       /\ HealthFits(objProvider, r, c, objData["probe"])
    BY <1>7, <1>8, <1>9, <1>10, <1>11 DEF HealthFits
<1>14. /\ objCall'[c] = r /\ \A d \in ObjCalls \ {c} : objCall'[d] = objCall[d]
       /\ objCall' \in [ObjCalls -> ObjCallType]
    BY <1>3, <1>12, <1>13
<1>15. ~Staged(objCall[c]) /\ ~WritesNow(objCall[c])
    BY <1>2 DEF Staged, WritesNow, Writes
<1>16. objRaced \subseteq objRaced' /\ objRaced' \subseteq Objects
    BY <1>2, <1>3
<1> HIDE DEF o
<1>17. ObjTypeOK'
    BY <1>0, <1>2, <1>14, <1>16 DEF ObjTypeOK
<1>18. OneWriter'
    <2>1. ASSUME WritesNow(r), o \notin objRaced' PROVE \A d \in ObjCalls \ {c} : objCall[d].obj = o => ~WritesNow(objCall[d])
        <3>1. Writers(o, c) = {}
            BY <2>1, <1>2, <1>13
        <3> QED BY <3>1 DEF Writers, InWrite, WritesNow
    <2> QED BY <2>1, <1>0, <1>13, <1>14, <1>16 DEF OneWriter
<1>19. WholeInBuckets'
    BY <1>0, <1>2 DEF WholeInBuckets
<1>20. Settled'
    <2> SUFFICES ASSUME NEW p \in Objects, p \notin objRaced', p \notin objHurt',
                        \A d \in ObjCalls : objCall'[d].obj = p => ~Staged(objCall'[d])
                 PROVE  /\ objData'[p] = objLast'[p]
                        /\ objProvider' = "local" /\ p = "file" => objMeta'[p] = objLast'[p]
        BY DEF Settled
    <2>1. \A d \in ObjCalls : objCall[d].obj = p => ~Staged(objCall[d])
        BY <1>14, <1>15
    <2> QED BY <2>1, <1>0, <1>2, <1>16 DEF Settled
<1>21. MetaFollows'
    BY <1>0, <1>2, <1>13, <1>14, <1>16 DEF MetaFollows
<1>22. CallsFit'
    BY <1>0, <1>2, <1>13, <1>14, <1>16 DEF CallsFit
<1> QED BY <1>17, <1>18, <1>19, <1>20, <1>21, <1>22 DEF ObjInv

LEMMA ObjInitInv == ObjInit => ObjInv
<1> SUFFICES ASSUME ObjInit PROVE ObjInv
    OBVIOUS
<1>1. /\ NoObjCall \in ObjCallType /\ NoObjCall.at = "new" /\ NoObjCall.op = "none" /\ NoObjCall.obj = "file"
      /\ NoObjCall.got = NoObject /\ NoObjCall.failed = FALSE
    BY DEF NoObjCall, ObjCallType, ObjOps, Objects, ObjStages, ObjAnswers, ObjContents
<1>2. \A c \in ObjCalls : objCall[c] = NoObjCall
    BY DEF ObjInit
<1>3. ObjTypeOK
    BY <1>1 DEF ObjInit, ObjTypeOK, ObjContents, Bucketed
<1>4. ~WritesNow(NoObjCall)
    BY <1>1 DEF WritesNow, Writes
<1>5. OneWriter
    BY <1>2, <1>4 DEF OneWriter
<1>6. NoObject \notin {Partial, Torn}
    BY ObjectAssumption
<1>7. WholeInBuckets /\ Settled
    BY <1>6 DEF ObjInit, WholeInBuckets, Settled
<1>8. MetaFollows
    BY <1>1, <1>2 DEF MetaFollows
<1>9. CallsFit
    BY <1>1, <1>2 DEF CallsFit, StageFits, ReadFits, HealthFits
<1> QED BY <1>3, <1>5, <1>7, <1>8, <1>9 DEF ObjInv

LEMMA ObjStep == ObjInv /\ [ObjNext]_objVars => ObjInv'
<1> SUFFICES ASSUME ObjInv, [ObjNext]_objVars PROVE ObjInv'
    OBVIOUS
<1>1. CASE ObjNext
    <2>1. PICK c \in ObjCalls : \/ ObjBegin(c) \/ EnsureBucket(c) \/ Upload(c) \/ SpnPut(c) \/ LocalPut(c)
                                \/ Read(c) \/ HealthList(c) \/ DeleteObj(c) \/ ObjFails(c)
        BY <1>1 DEF ObjNext
    <2> QED BY <2>1, ObjBeginInv, EnsureBucketInv, UploadInv, SpnPutInv, LocalPutInv, ReadInv, HealthListInv,
               DeleteObjInv, ObjFailsInv
<1>2. CASE UNCHANGED objVars
    BY <1>2 DEF objVars, ObjInv, ObjTypeOK, OneWriter, WholeInBuckets, Settled, MetaFollows, CallsFit
<1> QED BY <1>1, <1>2

LEMMA ObjInvSound == ObjInv => ObjectsSound
<1> SUFFICES ASSUME ObjInv PROVE ObjectsSound
    OBVIOUS
<1>0. Settled /\ CallsFit
    BY DEF ObjInv
<1>1. LastWriteStays
    <2> SUFFICES ASSUME NEW o \in Objects, o \notin objRaced, o \notin objHurt, \A c \in ObjCalls : ~InWrite(c, o)
                 PROVE  objData[o] = objLast[o] /\ (objProvider = "local" /\ o = "file" => objMeta[o] = objLast[o])
        BY DEF LastWriteStays
    <2>1. \A c \in ObjCalls : objCall[c].obj = o => ~Staged(objCall[c])
        BY DEF InWrite, Staged, Writes
    <2> QED BY <2>1, <1>0 DEF Settled
<1>2. ReadsAreWhole
    BY <1>0 DEF CallsFit, ReadFits, ReadsAreWhole
<1>3. HealthIsHonest
    BY <1>0 DEF CallsFit, HealthFits, HealthIsHonest
<1> QED BY <1>1, <1>2, <1>3 DEF ObjectsSound

\* For all five providers and any number of calls, attempts and failures:
\* objects that are written by one call at a time are what the last write
\* left, reads are whole, and health is honest.
THEOREM ObjectsAreSound == ObjSpec => []ObjectsSound
<1>1. ObjInit => ObjInv
    BY ObjInitInv
<1>2. ObjInv /\ [ObjNext]_objVars => ObjInv'
    BY ObjStep
<1>3. ObjInv => ObjectsSound
    BY ObjInvSound
<1> QED BY <1>1, <1>2, <1>3, PTL DEF ObjSpec

-----------------------------------------------------------------------------
(***************************************************************************)
(* The records of the vector stores. Every attempt is told apart: a call   *)
(* that lost no answer has changed records in its last attempt only, and   *)
(* the entries of a record are counted by the attempts that added one.     *)
(***************************************************************************)

\* Types.
RecEntry == [path : Nat, tags : Nat, ver : Nat]
RecContents == [RecIds -> RecEntry \cup {NoRecord}]
RecOps == {"none", "set", "add", "delete", "setId", "get", "search", "sql"}
RecCallType ==
    [op : RecOps, all : BOOLEAN, id : RecIds, at : {"new", "ask", "apply", "done"}, tries : Nat, seen : RecContents,
     hits : SUBSET RecIds, told : {"none", "done", "failed", "raised"}, count : Nat, lost : Nat,
     skipped : BOOLEAN, failed : BOOLEAN]
RecTypeOK ==
    /\ recSpace \in RecContents
    /\ recCall \in [RecCalls -> RecCallType]
    /\ recWrote \in [RecCalls -> [1 .. RecAttempts -> SUBSET RecIds]]

\* A call that is r and whose attempts changed the records w.
AttemptsFit(r, w) ==
    /\ r.at = "new" => r.tries = 0
    /\ r.at = "apply" => r.op \in ByQuery
    /\ r.tries < RecAttempts
    /\ r.at # "done" => ~r.failed /\ r.count = 0 /\ \A n \in 1 .. RecAttempts : n > r.tries => w[n] = {}
    /\ r.lost = 0 => \A n \in 1 .. RecAttempts : n # r.tries + 1 => w[n] = {}
\* What an update, a deletion and a search were told when they ended.
UpdateFits(r, w) ==
    r.at = "done" /\ r.op \in {"set", "add"} =>
        /\ r.told = "done" /\ ~r.skipped => w[r.tries + 1] = {i \in RecIds : r.seen[i] # NoRecord}
        /\ r.told = "failed" /\ r.lost = 0 => w[r.tries + 1] = {}
DeleteFits(r, w) ==
    r.at = "done" /\ r.op = "delete" =>
        /\ r.count \in {0, Cardinality(w[r.tries + 1])}
        /\ r.lost = 0 /\ ~r.skipped => r.count = Cardinality(w[r.tries + 1])
SearchFits(r) ==
    r.at = "done" /\ r.op \in {"search", "get"} =>
        /\ r.told = "done" =>
             \A i \in RecIds : i \in r.hits <=>
                 r.seen[i] # NoRecord /\ IF r.op = "get" THEN i = r.id ELSE r.all \/ r.seen[i].path = 1
        /\ r.told \in {"done", "none"} => ~r.failed
RecordFits(r, w) == AttemptsFit(r, w) /\ UpdateFits(r, w) /\ DeleteFits(r, w) /\ SearchFits(r)

\* The attempts that added an entry to a record.
AddedBy(i) == {p \in RecCalls \X (1 .. RecAttempts) : recCall[p[1]].op = "add" /\ i \in recWrote[p[1]][p[2]]}
\* Nobody adds an entry twice in one attempt.
AddsCounted == \A i \in RecIds : recSpace[i] # NoRecord => recSpace[i].tags <= Cardinality(AddedBy(i))

RecInv == RecTypeOK /\ (\A c \in RecCalls : RecordFits(recCall[c], recWrote[c])) /\ AddsCounted

LEMMA RecAssumed ==
    /\ IsFiniteSet(RecIds) /\ RecIds # {} /\ RecCalls \subseteq Nat /\ IsFiniteSet(RecCalls)
    /\ RecAttempts \in Nat /\ RecAttempts > 0
    /\ RecSpaces \subseteq [RecIds -> {Entry(1), Entry(2), NoRecord}]
    BY RecordAssumption

\* Attempts are finitely many, and so are those that added an entry.
LEMMA AttemptsFinite ==
      ASSUME NEW S, S \subseteq RecCalls \X (1 .. RecAttempts)
      PROVE  IsFiniteSet(S) /\ Cardinality(S) \in Nat
<1>1. IsFiniteSet(1 .. RecAttempts)
    BY RecAssumed, FS_Interval
<1>2. IsFiniteSet(RecCalls \X (1 .. RecAttempts))
    BY <1>1, RecAssumed, FS_Product
<1> QED BY <1>2, FS_Subset, FS_CardinalityType

LEMMA IdsFinite ==
      ASSUME NEW S, S \subseteq RecIds
      PROVE  IsFiniteSet(S) /\ Cardinality(S) \in Nat
    BY RecAssumed, FS_Subset, FS_CardinalityType

LEMMA RecCallFacts ==
      ASSUME RecInv, NEW c \in RecCalls
      PROVE  /\ recCall[c] \in RecCallType /\ recWrote[c] \in [1 .. RecAttempts -> SUBSET RecIds]
             /\ recCall[c].tries \in Nat /\ recCall[c].lost \in Nat /\ recCall[c].op \in RecOps
             /\ AttemptsFit(recCall[c], recWrote[c])
             /\ recCall[c].tries + 1 \in 1 .. RecAttempts
             /\ recSpace \in RecContents /\ recCall[c].seen \in RecContents /\ recCall[c].id \in RecIds
<1>1. /\ recCall[c] \in RecCallType /\ recWrote[c] \in [1 .. RecAttempts -> SUBSET RecIds]
      /\ AttemptsFit(recCall[c], recWrote[c]) /\ recSpace \in RecContents
    BY DEF RecInv, RecTypeOK, RecordFits
<1>2. /\ recCall[c].tries \in Nat /\ recCall[c].lost \in Nat /\ recCall[c].op \in RecOps
      /\ recCall[c].seen \in RecContents /\ recCall[c].id \in RecIds
    BY <1>1 DEF RecCallType
<1>3. recCall[c].tries < RecAttempts
    BY <1>1 DEF AttemptsFit
<1>4. recCall[c].tries + 1 \in 1 .. RecAttempts
    BY <1>2, <1>3, RecAssumed
<1> QED BY <1>1, <1>2, <1>4

\* A step of c that changes no record.
LEMMA LookedInv ==
      ASSUME RecInv, NEW c \in RecCalls, NEW r \in RecCallType, recCall' = [recCall EXCEPT ![c] = r],
             UNCHANGED <<recSpace, recWrote>>, RecordFits(r, recWrote[c]),
             r.op = recCall[c].op \/ recCall[c].at = "new"
      PROVE  RecInv'
<1>1. /\ recCall' \in [RecCalls -> RecCallType] /\ recCall'[c] = r
      /\ \A d \in RecCalls \ {c} : recCall'[d] = recCall[d]
    BY DEF RecInv, RecTypeOK
<1>2. RecTypeOK'
    BY <1>1 DEF RecInv, RecTypeOK
<1>3. \A d \in RecCalls : RecordFits(recCall'[d], recWrote'[d])
    BY <1>1 DEF RecInv
<1>4. ASSUME NEW i \in RecIds PROVE AddedBy(i)' = AddedBy(i)
    <2>1. CASE r.op = recCall[c].op
        BY <2>1, <1>1 DEF AddedBy
    <2>2. CASE recCall[c].at = "new"
        <3>1. \A n \in 1 .. RecAttempts : recWrote[c][n] = {}
            <4>1. recCall[c].tries = 0 /\ \A n \in 1 .. RecAttempts : n > recCall[c].tries => recWrote[c][n] = {}
                BY <2>2, RecCallFacts DEF AttemptsFit
            <4> QED BY <4>1, RecAssumed
        <3>2. \A p \in RecCalls \X (1 .. RecAttempts) : i \in recWrote[p[1]][p[2]] => recCall'[p[1]] = recCall[p[1]]
            BY <3>1, <1>1
        <3> QED BY <3>2 DEF AddedBy
    <2> QED BY <2>1, <2>2
<1>5. AddsCounted'
    BY <1>4 DEF RecInv, AddsCounted
<1> QED BY <1>2, <1>3, <1>5 DEF RecInv

\* A step of c that changes the records of changed.
LEMMA WrittenInv ==
      ASSUME RecInv, NEW c \in RecCalls, NEW r \in RecCallType, recCall' = [recCall EXCEPT ![c] = r],
             NEW changed \in SUBSET RecIds,
             recWrote' = [recWrote EXCEPT ![c][recCall[c].tries + 1] = changed],
             RecordFits(r, [recWrote[c] EXCEPT ![recCall[c].tries + 1] = changed]),
             r.op = recCall[c].op, recCall[c].at # "done", recSpace' \in RecContents,
             \A i \in RecIds \ changed : recSpace'[i] = recSpace[i],
             \A i \in changed : recSpace'[i] # NoRecord =>
                /\ recSpace[i] # NoRecord
                /\ recSpace'[i].tags <= recSpace[i].tags + (IF r.op = "add" THEN 1 ELSE 0)
      PROVE  RecInv'
<1> DEFINE n == recCall[c].tries + 1
           w == [recWrote[c] EXCEPT ![n] = changed]
<1>1. /\ recCall' \in [RecCalls -> RecCallType] /\ recCall'[c] = r
      /\ \A d \in RecCalls \ {c} : recCall'[d] = recCall[d]
    BY DEF RecInv, RecTypeOK
<1>2. n \in 1 .. RecAttempts /\ recWrote[c] \in [1 .. RecAttempts -> SUBSET RecIds] /\ recWrote[c][n] = {}
    <2>1. AttemptsFit(recCall[c], recWrote[c]) /\ n \in 1 .. RecAttempts /\ recCall[c].tries \in Nat
        BY RecCallFacts
    <2> QED BY <2>1, RecCallFacts DEF AttemptsFit
<1>3. /\ w \in [1 .. RecAttempts -> SUBSET RecIds] /\ w[n] = changed
      /\ \A k \in (1 .. RecAttempts) \ {n} : w[k] = recWrote[c][k]
    BY <1>2
<1>4. /\ recWrote' \in [RecCalls -> [1 .. RecAttempts -> SUBSET RecIds]] /\ recWrote'[c] = w
      /\ \A d \in RecCalls \ {c} : recWrote'[d] = recWrote[d]
    BY <1>3 DEF RecInv, RecTypeOK
<1>5. RecTypeOK'
    BY <1>1, <1>4 DEF RecTypeOK
<1>6. RecordFits(r, w)
    OBVIOUS
<1> HIDE DEF n, w
<1>7. \A d \in RecCalls : RecordFits(recCall'[d], recWrote'[d])
    BY <1>1, <1>4, <1>6 DEF RecInv
<1>8. AddsCounted'
    <2> SUFFICES ASSUME NEW i \in RecIds, recSpace'[i] # NoRecord
                 PROVE  recSpace'[i].tags <= Cardinality(AddedBy(i)')
        BY DEF AddsCounted
    <2>1. IsFiniteSet(AddedBy(i)) /\ Cardinality(AddedBy(i)) \in Nat
        BY AttemptsFinite DEF AddedBy
    <2>2. recSpace'[i] \in RecEntry /\ recSpace'[i].tags \in Nat
        BY DEF RecContents, RecEntry
    <2>3. recSpace[i] # NoRecord => recSpace[i].tags \in Nat /\ recSpace[i].tags <= Cardinality(AddedBy(i))
        BY DEF RecInv, RecTypeOK, RecContents, RecEntry, AddsCounted
    <2>4. CASE i \in changed /\ r.op = "add"
        <3>1. AddedBy(i)' = AddedBy(i) \cup {<<c, n>>}
            <4>1. AddedBy(i)' \subseteq AddedBy(i) \cup {<<c, n>>}
                <5> SUFFICES ASSUME NEW d \in RecCalls, NEW k \in 1 .. RecAttempts, d # c \/ k # n,
                                    recCall'[d].op = "add", i \in recWrote'[d][k]
                             PROVE  recCall[d].op = "add" /\ i \in recWrote[d][k]
                    BY DEF AddedBy
                <5>1. CASE d # c
                    BY <5>1, <1>1, <1>4
                <5>2. CASE d = c
                    <6>1. w[k] = recWrote[c][k]
                        BY <5>2, <1>3
                    <6> QED BY <6>1, <5>2, <1>1, <1>4
                <5> QED BY <5>1, <5>2
            <4>2. AddedBy(i) \subseteq AddedBy(i)'
                <5> SUFFICES ASSUME NEW d \in RecCalls, NEW k \in 1 .. RecAttempts,
                                    recCall[d].op = "add", i \in recWrote[d][k]
                             PROVE  recCall'[d].op = "add" /\ i \in recWrote'[d][k]
                    BY DEF AddedBy
                <5>1. CASE d # c
                    BY <5>1, <1>1, <1>4
                <5>2. CASE d = c
                    <6>1. k # n
                        BY <5>2, <1>2
                    <6>2. w[k] = recWrote[c][k]
                        BY <6>1, <1>3
                    <6> QED BY <6>2, <5>2, <1>1, <1>4
                <5> QED BY <5>1, <5>2
            <4>3. <<c, n>> \in AddedBy(i)'
                BY <2>4, <1>1, <1>2, <1>3, <1>4 DEF AddedBy
            <4> QED BY <4>1, <4>2, <4>3
        <3>2. <<c, n>> \notin AddedBy(i)
            BY <1>2 DEF AddedBy
        <3>3. Cardinality(AddedBy(i)') = Cardinality(AddedBy(i)) + 1
            <4> DEFINE old == AddedBy(i)
                       new == AddedBy(i)'
                       x == <<c, n>>
            <4>1. IsFiniteSet(old) /\ new = old \cup {x} /\ x \notin old
                BY <2>1, <3>1, <3>2
            <4> HIDE DEF old, new, x
            <4>2. Cardinality(new) = Cardinality(old) + 1
                BY <4>1, FS_AddElement
            <4> QED BY <4>2 DEF old, new
        <3> QED BY <2>1, <2>2, <2>3, <2>4, <3>3
    <2>5. CASE ~(i \in changed /\ r.op = "add")
        <3>1. AddedBy(i)' = AddedBy(i)
            <4>1. ASSUME NEW d \in RecCalls, NEW k \in 1 .. RecAttempts
                  PROVE  recCall'[d].op = "add" /\ i \in recWrote'[d][k] <=> recCall[d].op = "add" /\ i \in recWrote[d][k]
                <5>1. CASE d # c
                    BY <5>1, <1>1, <1>4
                <5>2. CASE d = c /\ k # n
                    <6>1. w[k] = recWrote[c][k]
                        BY <5>2, <1>3
                    <6> QED BY <6>1, <5>2, <1>1, <1>4
                <5>3. CASE d = c /\ k = n
                    <6>1. recCall'[d] = r /\ recWrote'[d][k] = changed /\ i \notin recWrote[d][k]
                        BY <5>3, <1>1, <1>2, <1>3, <1>4
                    <6>2. recCall'[d].op = "add" /\ i \in recWrote'[d][k] => FALSE
                        BY <6>1, <2>5
                    <6> QED BY <6>1, <6>2
                <5> QED BY <5>1, <5>2, <5>3
            <4> QED BY <4>1 DEF AddedBy
        <3>2. recSpace[i] # NoRecord /\ recSpace'[i].tags <= recSpace[i].tags
            <4>1. recSpace[i] # NoRecord
                OBVIOUS
            <4>2. recSpace[i].tags \in Nat
                BY <4>1, <2>3
            <4> QED BY <4>1, <4>2, <2>2, <2>5
        <3> QED BY <2>1, <2>2, <2>3, <3>1, <3>2
    <2> QED BY <2>4, <2>5
<1> QED BY <1>5, <1>7, <1>8 DEF RecInv

\* What the engine writes for a call.
LEMMA ScriptedFacts ==
      ASSUME NEW c \in RecCalls, NEW e \in RecEntry
      PROVE  /\ Scripted(c, e) \in RecEntry
             /\ Scripted(c, e).tags <= e.tags + (IF recCall[c].op = "add" THEN 1 ELSE 0)
<1>1. e.tags \in Nat /\ e.ver \in Nat /\ e.path \in Nat
    BY DEF RecEntry
<1> DEFINE t == e.tags + 1
           v == e.ver + 1
<1>2. t \in Nat /\ v \in Nat
    BY <1>1
<1>3. CASE recCall[c].op = "add"
    <2>1. Scripted(c, e) = [e EXCEPT !.tags = t, !.ver = v]
        BY <1>3 DEF Scripted
    <2>2. t <= e.tags + 1
        BY <1>1
    <2> HIDE DEF t, v
    <2>3. [e EXCEPT !.tags = t, !.ver = v] \in RecEntry /\ [e EXCEPT !.tags = t, !.ver = v].tags = t
        BY <1>2 DEF RecEntry
    <2> QED BY <2>1, <2>2, <2>3, <1>3
<1>4. CASE recCall[c].op # "add"
    <2>1. Scripted(c, e) = [e EXCEPT !.path = 2, !.ver = v]
        BY <1>4 DEF Scripted
    <2> HIDE DEF t, v
    <2>2. [e EXCEPT !.path = 2, !.ver = v] \in RecEntry /\ [e EXCEPT !.path = 2, !.ver = v].tags = e.tags
        BY <1>2 DEF RecEntry
    <2> QED BY <1>1, <2>1, <2>2, <1>4
<1> QED BY <1>3, <1>4

LEMMA WrittenFacts ==
      ASSUME RecInv, NEW c \in RecCalls
      PROVE  /\ Written(c) \in RecContents /\ Unchanged(c) \in SUBSET RecIds /\ Found(c) \in SUBSET RecIds
             /\ Found(c) = {i \in RecIds : recCall[c].seen[i] # NoRecord}
             /\ \A i \in RecIds \ Unchanged(c) : Written(c)[i] = recSpace[i]
             /\ \A i \in Unchanged(c) : Written(c)[i] # NoRecord =>
                  /\ recSpace[i] # NoRecord
                  /\ Written(c)[i].tags <= recSpace[i].tags + (IF recCall[c].op = "add" THEN 1 ELSE 0)
<1>1. Unchanged(c) \in SUBSET RecIds /\ Found(c) \in SUBSET RecIds
      /\ Found(c) = {i \in RecIds : recCall[c].seen[i] # NoRecord}
    BY DEF Unchanged, Found
<1>2. \A i \in RecIds : recSpace[i] \in RecEntry \cup {NoRecord}
    BY DEF RecInv, RecTypeOK, RecContents
<1>3. \A i \in Unchanged(c) : recSpace[i] # NoRecord
    BY DEF Unchanged, Found
<1>4. ASSUME NEW i \in RecIds
      PROVE  /\ Written(c)[i] = IF i \notin Unchanged(c) THEN recSpace[i]
                                ELSE IF recCall[c].op = "delete" THEN NoRecord ELSE Scripted(c, recSpace[i])
             /\ Written(c)[i] \in RecEntry \cup {NoRecord}
    <2>1. Written(c)[i] = IF i \notin Unchanged(c) THEN recSpace[i]
                          ELSE IF recCall[c].op = "delete" THEN NoRecord ELSE Scripted(c, recSpace[i])
        BY DEF Written
    <2>2. i \in Unchanged(c) => Scripted(c, recSpace[i]) \in RecEntry
        BY <1>2, <1>3, ScriptedFacts
    <2> QED BY <2>1, <2>2, <1>2
<1>5. Written(c) \in RecContents
    <2>1. Written(c) = [i \in RecIds |-> Written(c)[i]]
        BY DEF Written
    <2> QED BY <2>1, <1>4 DEF RecContents
<1>6. ASSUME NEW i \in Unchanged(c), Written(c)[i] # NoRecord
      PROVE  Written(c)[i].tags <= recSpace[i].tags + (IF recCall[c].op = "add" THEN 1 ELSE 0)
    <2>1. i \in RecIds /\ recSpace[i] \in RecEntry
        BY <1>1, <1>2, <1>3
    <2>2. Written(c)[i] = Scripted(c, recSpace[i])
        BY <1>4, <1>6, <2>1
    <2> DEFINE limit == recSpace[i].tags + (IF recCall[c].op = "add" THEN 1 ELSE 0)
    <2>3. Scripted(c, recSpace[i]).tags <= limit
        BY <2>1, ScriptedFacts, Zenon
    <2> QED BY <2>2, <2>3, Zenon
<1> QED BY <1>1, <1>3, <1>4, <1>5, <1>6

LEMMA RecBeginInv == ASSUME RecInv, NEW c \in RecCalls, RecBegin(c) PROVE RecInv'
<1> DEFINE asked(op, all, id) == [NoRecCall EXCEPT !.op = op, !.all = all, !.id = id, !.at = "ask"]
<1>1. PICK op \in {"set", "add", "delete", "setId", "get", "search", "sql"}, all \in BOOLEAN, id \in RecIds :
        recCall[c].at = "new" /\ recCall' = [recCall EXCEPT ![c] = asked(op, all, id)]
    <2>1. PICK op \in {"set", "add", "delete", "setId", "get", "search", "sql"} :
            /\ recCall[c].at = "new" /\ \A d \in RecCalls : d < c => recCall[d].at # "new"
            /\ \E all \in BOOLEAN, id \in RecIds :
                  /\ op \in {"setId", "get"} \/ id = NoRecCall.id
                  /\ all => op \in ByQuery \cup {"search"}
                  /\ recCall' = [recCall EXCEPT ![c] = asked(op, all, id)]
            /\ UNCHANGED <<recEngine, recSpace, recWrote, recFaults>>
        BY DEF RecBegin
    <2> HIDE DEF asked
    <2>2. PICK all \in BOOLEAN, id \in RecIds : recCall' = [recCall EXCEPT ![c] = asked(op, all, id)]
        BY <2>1, Zenon
    <2> WITNESS op \in {"set", "add", "delete", "setId", "get", "search", "sql"}, all \in BOOLEAN, id \in RecIds
    <2> QED BY <2>1, <2>2
<1> DEFINE r == asked(op, all, id)
<1>2. (CHOOSE i \in RecIds : TRUE) \in RecIds
    BY RecAssumed
<1>3. NoRecCall \in RecCallType /\ NoRecCall.tries = 0 /\ NoRecCall.count = 0 /\ NoRecCall.failed = FALSE
    BY <1>2 DEF NoRecCall, RecCallType, RecOps, RecContents
<1>4. op \in RecOps
    BY DEF RecOps
<1>5. r \in RecCallType /\ r.at = "ask" /\ r.tries = 0 /\ r.count = 0 /\ r.failed = FALSE
    BY <1>3, <1>4 DEF RecCallType
<1> HIDE DEF r
<1>6. \A n \in 1 .. RecAttempts : recWrote[c][n] = {}
    <2>1. recCall[c].tries = 0 /\ \A n \in 1 .. RecAttempts : n > recCall[c].tries => recWrote[c][n] = {}
        BY <1>1, RecCallFacts DEF AttemptsFit
    <2> QED BY <2>1, RecAssumed
<1>7. RecordFits(r, recWrote[c])
    BY <1>5, <1>6, RecAssumed DEF RecordFits, AttemptsFit, UpdateFits, DeleteFits, SearchFits
<1>8. recCall' = [recCall EXCEPT ![c] = r] /\ UNCHANGED <<recSpace, recWrote>>
    BY <1>1 DEF r, RecBegin
<1> QED BY <1>1, <1>5, <1>7, <1>8, LookedInv

LEMMA SnapshotInv == ASSUME RecInv, NEW c \in RecCalls, Snapshot(c) PROVE RecInv'
<1> DEFINE s == [i \in RecIds |-> IF i \in Matching(c, recSpace) THEN recSpace[i] ELSE NoRecord]
           r == [recCall[c] EXCEPT !.at = "apply", !.seen = s]
<1>1. /\ recCall[c].at = "ask" /\ recCall[c].op \in ByQuery /\ UNCHANGED <<recSpace, recWrote>>
      /\ recCall' = [recCall EXCEPT ![c] = r]
    BY DEF Snapshot
<1>2. s \in RecContents
    BY DEF RecInv, RecTypeOK, RecContents
<1> HIDE DEF s
<1>3. recCall[c] \in RecCallType /\ AttemptsFit(recCall[c], recWrote[c])
    BY RecCallFacts
<1>4. /\ r \in RecCallType /\ r.at = "apply" /\ r.op = recCall[c].op /\ r.tries = recCall[c].tries
      /\ r.lost = recCall[c].lost /\ r.count = recCall[c].count /\ r.failed = recCall[c].failed
    BY <1>2, <1>3 DEF RecCallType
<1> HIDE DEF r
<1>5. RecordFits(r, recWrote[c])
    BY <1>1, <1>3, <1>4 DEF RecordFits, AttemptsFit, UpdateFits, DeleteFits, SearchFits
<1> QED BY <1>1, <1>4, <1>5, LookedInv

LEMMA ApplyInv == ASSUME RecInv, NEW c \in RecCalls, Apply(c) PROVE RecInv'
<1> DEFINE asked == recCall[c]
           n == asked.tries + 1
           w == [recWrote[c] EXCEPT ![n] = Unchanged(c)]
           conflict == Unchanged(c) # Found(c)
           told == IF conflict /\ ~Proceeds(asked.op) THEN "failed" ELSE "done"
           count == IF conflict /\ ~Proceeds(asked.op) THEN 0 ELSE Cardinality(Unchanged(c))
           r == [asked EXCEPT !.at = "done", !.skipped = conflict, !.told = told, !.count = count]
<1>1. /\ asked.at = "apply" /\ recSpace' = Written(c)
      /\ recWrote' = [recWrote EXCEPT ![c][n] = Unchanged(c)]
      /\ recCall' = [recCall EXCEPT ![c] = r]
    BY DEF Apply
<1>2. /\ asked \in RecCallType /\ AttemptsFit(asked, recWrote[c]) /\ n \in 1 .. RecAttempts
      /\ recWrote[c] \in [1 .. RecAttempts -> SUBSET RecIds] /\ asked.tries \in Nat
    BY RecCallFacts
<1>3. conflict \in BOOLEAN /\ count \in Nat /\ told \in {"done", "failed"}
    BY WrittenFacts, IdsFinite
<1>4. asked.op \in ByQuery
    BY <1>1, <1>2 DEF AttemptsFit
<1>5. /\ w[n] = Unchanged(c)
      /\ \A k \in (1 .. RecAttempts) \ {n} : w[k] = recWrote[c][k]
    BY <1>2
<1>6. asked.op \in {"set", "add"} => told = "done"
    BY DEF Proceeds
<1>7. count \in {0, Cardinality(Unchanged(c))} /\ (~conflict => count = Cardinality(Unchanged(c)))
    OBVIOUS
<1>8. ~conflict => Unchanged(c) = Found(c)
    OBVIOUS
<1> HIDE DEF conflict, told, count
<1>9. /\ r \in RecCallType /\ r.at = "done" /\ r.op = asked.op /\ r.tries = asked.tries /\ r.lost = asked.lost
      /\ r.skipped = conflict /\ r.told = told /\ r.count = count /\ r.seen = asked.seen
    BY <1>2, <1>3 DEF RecCallType
<1>10. r.tries + 1 = n
    BY <1>9
<1> HIDE DEF r, w, n
<1>11. AttemptsFit(r, w)
    BY <1>1, <1>2, <1>5, <1>9, <1>10 DEF AttemptsFit, n
<1>12. UpdateFits(r, w)
    BY <1>5, <1>6, <1>8, <1>9, <1>10, WrittenFacts DEF UpdateFits
<1>13. DeleteFits(r, w)
    BY <1>5, <1>7, <1>9, <1>10 DEF DeleteFits
<1>14. SearchFits(r)
    BY <1>4, <1>9 DEF SearchFits, ByQuery
<1>15. RecordFits(r, w)
    BY <1>11, <1>12, <1>13, <1>14 DEF RecordFits
<1> DEFINE changed == Unchanged(c)
<1>16. /\ changed \in SUBSET RecIds /\ recSpace' \in RecContents
       /\ \A i \in RecIds \ changed : recSpace'[i] = recSpace[i]
       /\ \A i \in changed : recSpace'[i] # NoRecord =>
            /\ recSpace[i] # NoRecord
            /\ recSpace'[i].tags <= recSpace[i].tags + (IF r.op = "add" THEN 1 ELSE 0)
    BY <1>1, <1>9, WrittenFacts
<1>17. /\ recWrote' = [recWrote EXCEPT ![c][asked.tries + 1] = changed]
       /\ RecordFits(r, [recWrote[c] EXCEPT ![asked.tries + 1] = changed])
    BY <1>1, <1>15 DEF n, w
<1> HIDE DEF asked, changed
<1> QED BY <1>1, <1>9, <1>16, <1>17, WrittenInv DEF asked

LEMMA SetOneInv == ASSUME RecInv, NEW c \in RecCalls, SetOne(c) PROVE RecInv'
<1> DEFINE asked == recCall[c]
           i == asked.id
<1>1. /\ asked \in RecCallType /\ AttemptsFit(asked, recWrote[c]) /\ asked.tries + 1 \in 1 .. RecAttempts
      /\ recWrote[c] \in [1 .. RecAttempts -> SUBSET RecIds] /\ i \in RecIds /\ recSpace \in RecContents
      /\ asked.at = "ask" /\ asked.op = "setId" /\ asked.tries \in Nat
    BY RecCallFacts DEF SetOne
<1>2. ASSUME NEW t \in {"failed", "done"}, RecTell(c, t), NEW w,
             \A k \in 1 .. RecAttempts : k # asked.tries + 1 => w[k] = recWrote[c][k]
      PROVE  \E r \in RecCallType : /\ recCall' = [recCall EXCEPT ![c] = r] /\ r.op = asked.op
                                    /\ RecordFits(r, w)
    <2> DEFINE r == [asked EXCEPT !.at = "done", !.told = t]
    <2>1. /\ r \in RecCallType /\ r.at = "done" /\ r.op = "setId" /\ r.tries = asked.tries /\ r.lost = asked.lost
        BY <1>1 DEF RecCallType
    <2>2. recCall' = [recCall EXCEPT ![c] = r]
        BY <1>2 DEF RecTell
    <2> HIDE DEF r
    <2>3. AttemptsFit(r, w)
        BY <1>1, <1>2, <2>1 DEF AttemptsFit
    <2>4. RecordFits(r, w)
        BY <2>1, <2>3 DEF RecordFits, UpdateFits, DeleteFits, SearchFits
    <2> QED BY <1>1, <2>1, <2>2, <2>4
<1>3. CASE RecTell(c, "failed") /\ UNCHANGED <<recSpace, recWrote>>
    <2>1. PICK r \in RecCallType : recCall' = [recCall EXCEPT ![c] = r] /\ r.op = asked.op /\ RecordFits(r, recWrote[c])
        BY <1>2, <1>3
    <2> HIDE DEF asked
    <2> QED BY <1>3, <2>1, LookedInv DEF asked
<1>4. CASE /\ recSpace[i] # NoRecord /\ recSpace' = [recSpace EXCEPT ![i] = Scripted(c, recSpace[i])]
           /\ recWrote' = [recWrote EXCEPT ![c][asked.tries + 1] = {i}] /\ RecTell(c, "done")
    <2> DEFINE w == [recWrote[c] EXCEPT ![asked.tries + 1] = {i}]
    <2>1. \A k \in 1 .. RecAttempts : k # asked.tries + 1 => w[k] = recWrote[c][k]
        BY <1>1
    <2>2. PICK r \in RecCallType : recCall' = [recCall EXCEPT ![c] = r] /\ r.op = asked.op /\ RecordFits(r, w)
        BY <1>2, <1>4, <2>1
    <2>3. recSpace[i] \in RecEntry
        BY <1>1, <1>4 DEF RecContents
    <2>4. /\ Scripted(c, recSpace[i]) \in RecEntry
          /\ Scripted(c, recSpace[i]).tags <= recSpace[i].tags + (IF asked.op = "add" THEN 1 ELSE 0)
        BY <2>3, ScriptedFacts
    <2>5. /\ recSpace' \in RecContents /\ recSpace'[i] = Scripted(c, recSpace[i])
          /\ \A j \in RecIds \ {i} : recSpace'[j] = recSpace[j]
        BY <1>1, <1>4, <2>4 DEF RecContents
    <2> DEFINE changed == {i}
    <2>6. /\ changed \in SUBSET RecIds
          /\ \A j \in RecIds \ changed : recSpace'[j] = recSpace[j]
          /\ \A j \in changed : recSpace'[j] # NoRecord =>
                /\ recSpace[j] # NoRecord
                /\ recSpace'[j].tags <= recSpace[j].tags + (IF r.op = "add" THEN 1 ELSE 0)
        BY <1>1, <1>4, <2>2, <2>4, <2>5
    <2>7. /\ recWrote' = [recWrote EXCEPT ![c][asked.tries + 1] = changed]
          /\ RecordFits(r, [recWrote[c] EXCEPT ![asked.tries + 1] = changed])
        BY <1>4, <2>2
    <2> HIDE DEF asked, i, w, changed
    <2> QED BY <1>1, <2>2, <2>5, <2>6, <2>7, WrittenInv DEF asked
<1> QED BY <1>3, <1>4 DEF SetOne

LEMMA LookInv == ASSUME RecInv, NEW c \in RecCalls, Look(c) PROVE RecInv'
<1> DEFINE asked == recCall[c]
<1>1. /\ asked \in RecCallType /\ AttemptsFit(asked, recWrote[c]) /\ asked.tries \in Nat
      /\ recSpace \in RecContents /\ asked.id \in RecIds
      /\ asked.at = "ask" /\ asked.op \in {"get", "search", "sql"} /\ UNCHANGED <<recSpace, recWrote>>
    BY RecCallFacts DEF Look
<1>2. CASE asked.op = "get" /\ recSpace[asked.id] = NoRecord /\ RecTell(c, "none")
    <2> DEFINE r == [asked EXCEPT !.at = "done", !.told = "none"]
    <2>1. /\ r \in RecCallType /\ r.at = "done" /\ r.op = "get" /\ r.tries = asked.tries /\ r.lost = asked.lost
          /\ r.told = "none" /\ r.failed = asked.failed
        BY <1>1, <1>2 DEF RecCallType
    <2>2. recCall' = [recCall EXCEPT ![c] = r]
        BY <1>2 DEF RecTell
    <2> HIDE DEF r
    <2>3. RecordFits(r, recWrote[c])
        BY <1>1, <2>1 DEF RecordFits, AttemptsFit, UpdateFits, DeleteFits, SearchFits
    <2>4. r.op = asked.op
        BY <1>2, <2>1
    <2> HIDE DEF asked
    <2> QED BY <1>1, <2>1, <2>2, <2>3, <2>4, LookedInv DEF asked
<1>3. CASE ~(asked.op = "get" /\ recSpace[asked.id] = NoRecord)
    <2> DEFINE hits == IF asked.op = "get" THEN {asked.id} ELSE Matching(c, recSpace)
               r == [asked EXCEPT !.at = "done", !.told = "done", !.seen = recSpace, !.hits = hits]
    <2>1. recCall' = [recCall EXCEPT ![c] = r]
        BY <1>3 DEF Look
    <2>2. /\ hits \in SUBSET RecIds
          /\ \A i \in RecIds : i \in hits <=>
                 recSpace[i] # NoRecord /\ IF asked.op = "get" THEN i = asked.id ELSE asked.all \/ recSpace[i].path = 1
        BY <1>1, <1>3 DEF Matching
    <2> HIDE DEF hits
    <2>3. /\ r \in RecCallType /\ r.at = "done" /\ r.op = asked.op /\ r.tries = asked.tries /\ r.lost = asked.lost
          /\ r.seen = recSpace /\ r.hits = hits /\ r.failed = asked.failed /\ r.id = asked.id /\ r.all = asked.all
          /\ r.told = "done"
        BY <1>1, <2>2 DEF RecCallType
    <2> HIDE DEF r
    <2>4. AttemptsFit(r, recWrote[c])
        BY <1>1, <2>3 DEF AttemptsFit
    <2>5. SearchFits(r)
        BY <1>1, <2>2, <2>3 DEF SearchFits, AttemptsFit
    <2>6. RecordFits(r, recWrote[c])
        BY <1>1, <2>3, <2>4, <2>5 DEF RecordFits, UpdateFits, DeleteFits
    <2> HIDE DEF asked
    <2> QED BY <1>1, <2>1, <2>3, <2>6, LookedInv DEF asked
<1> QED BY <1>2, <1>3 DEF Look

LEMMA RequestBreaksInv == ASSUME RecInv, NEW c \in RecCalls, RequestBreaks(c) PROVE RecInv'
<1> DEFINE old == recCall[c]
           n == old.tries + 1
<1>1. PICK lost \in BOOLEAN, retryable \in BOOLEAN :
        /\ old.at \in {"ask", "apply"}
        /\ lost => old.at = "apply"
        /\ IF lost
           THEN recSpace' = Written(c) /\ recWrote' = [recWrote EXCEPT ![c][n] = Unchanged(c)]
           ELSE UNCHANGED <<recSpace, recWrote>>
        /\ LET asked == [old EXCEPT !.lost = IF lost THEN old.lost + 1 ELSE old.lost]
           IN  recCall' = [recCall EXCEPT ![c] =
                  IF retryable /\ MadeAgain(c)
                  THEN [asked EXCEPT !.at = "ask", !.tries = old.tries + 1]
                  ELSE [asked EXCEPT !.at = "done", !.told = FailedAs(old.op), !.failed = TRUE]]
    BY DEF RequestBreaks
<1>2. /\ old \in RecCallType /\ AttemptsFit(old, recWrote[c]) /\ n \in 1 .. RecAttempts
      /\ recWrote[c] \in [1 .. RecAttempts -> SUBSET RecIds] /\ old.tries \in Nat /\ old.lost \in Nat
      /\ old.op \in RecOps
    BY RecCallFacts
<1> DEFINE l == IF lost THEN old.lost + 1 ELSE old.lost
           w == IF lost THEN [recWrote[c] EXCEPT ![n] = Unchanged(c)] ELSE recWrote[c]
<1>3. l \in Nat /\ (lost => l > 0) /\ (~lost => l = old.lost)
    BY <1>2
<1>4. /\ \A k \in (1 .. RecAttempts) \ {n} : w[k] = recWrote[c][k]
      /\ ~lost => w[n] = {}
    <2>1. ~lost => w[n] = {}
        BY <1>1, <1>2 DEF AttemptsFit
    <2>2. \A k \in (1 .. RecAttempts) \ {n} : w[k] = recWrote[c][k]
        BY <1>2
    <2> QED BY <2>1, <2>2
<1>5. ASSUME NEW r \in RecCallType, recCall' = [recCall EXCEPT ![c] = r], r.op = old.op, RecordFits(r, w)
      PROVE  RecInv'
    <2>1. CASE lost
        <3> DEFINE changed == Unchanged(c)
        <3>1. /\ changed \in SUBSET RecIds /\ recSpace' \in RecContents
              /\ \A i \in RecIds \ changed : recSpace'[i] = recSpace[i]
              /\ \A i \in changed : recSpace'[i] # NoRecord =>
                    /\ recSpace[i] # NoRecord
                    /\ recSpace'[i].tags <= recSpace[i].tags + (IF r.op = "add" THEN 1 ELSE 0)
            BY <1>1, <1>5, <2>1, WrittenFacts
        <3>2. /\ recWrote' = [recWrote EXCEPT ![c][old.tries + 1] = changed]
              /\ RecordFits(r, [recWrote[c] EXCEPT ![old.tries + 1] = changed])
            BY <1>1, <1>5, <2>1
        <3>3. old.at # "done"
            BY <1>1
        <3> HIDE DEF old, changed, n, l, w
        <3> QED BY <1>5, <3>1, <3>2, <3>3, WrittenInv DEF old
    <2>2. CASE ~lost
        <3>1. UNCHANGED <<recSpace, recWrote>> /\ RecordFits(r, recWrote[c])
            BY <1>1, <1>5, <2>2
        <3> HIDE DEF old, n, w
        <3> QED BY <1>5, <3>1, LookedInv DEF old
    <2> QED BY <2>1, <2>2
<1> HIDE DEF w
<1>6. CASE retryable /\ MadeAgain(c)
    <2> DEFINE r == [old EXCEPT !.lost = l, !.at = "ask", !.tries = n]
    <2>1. recCall' = [recCall EXCEPT ![c] = r]
        <3>1. [[old EXCEPT !.lost = l] EXCEPT !.at = "ask", !.tries = n] = r
            BY <1>2 DEF RecCallType
        <3> QED BY <1>1, <1>6, <3>1
    <2>2. n \in Nat /\ n < RecAttempts
        BY <1>2, <1>6, RecAssumed DEF MadeAgain
    <2> HIDE DEF l
    <2>3. /\ r \in RecCallType /\ r.at = "ask" /\ r.op = old.op /\ r.tries = n /\ r.lost = l
          /\ r.count = old.count /\ r.failed = old.failed
        BY <1>2, <1>3, <2>2 DEF RecCallType
    <2> HIDE DEF r
    <2>4. \A k \in 1 .. RecAttempts : k > n => w[k] = {}
        <3> SUFFICES ASSUME NEW k \in 1 .. RecAttempts, k > n PROVE w[k] = {}
            OBVIOUS
        <3>1. k # n /\ k > old.tries
            BY <1>2
        <3> QED BY <1>1, <1>2, <1>4, <3>1 DEF AttemptsFit
    <2>5. l = 0 => \A k \in 1 .. RecAttempts : w[k] = {}
        BY <1>1, <1>2, <1>3, <1>4 DEF AttemptsFit
    <2>6. RecordFits(r, w)
        <3> HIDE DEF n
        <3> QED BY <1>1, <1>2, <2>2, <2>3, <2>4, <2>5 DEF RecordFits, AttemptsFit, UpdateFits, DeleteFits, SearchFits
    <2> QED BY <1>5, <2>1, <2>3, <2>6
<1>7. CASE ~(retryable /\ MadeAgain(c))
    <2> DEFINE t == FailedAs(old.op)
               r == [old EXCEPT !.lost = l, !.at = "done", !.told = t, !.failed = TRUE]
    <2>1. recCall' = [recCall EXCEPT ![c] = r]
        <3>1. [[old EXCEPT !.lost = l] EXCEPT !.at = "done", !.told = t, !.failed = TRUE] = r
            BY <1>2 DEF RecCallType
        <3> QED BY <1>1, <1>7, <3>1
    <2>2. /\ t \in {"raised", "none", "failed"}
          /\ old.op \in {"get", "search"} => t = "raised"
          /\ old.op \in {"set", "add", "delete"} => t = "failed"
        BY DEF FailedAs
    <2> HIDE DEF t, l
    <2>3. /\ r \in RecCallType /\ r.at = "done" /\ r.op = old.op /\ r.tries = old.tries /\ r.lost = l
          /\ r.count = old.count /\ r.failed = TRUE /\ r.told = t /\ r.tries + 1 = n
        BY <1>2, <1>3, <2>2 DEF RecCallType
    <2> HIDE DEF r
    <2>4. l = 0 => \A k \in 1 .. RecAttempts : w[k] = {}
        BY <1>1, <1>2, <1>3, <1>4 DEF AttemptsFit
    <2>5. AttemptsFit(r, w)
        BY <1>2, <2>3, <2>4 DEF AttemptsFit
    <2>6. UpdateFits(r, w) /\ SearchFits(r)
        BY <1>2, <2>2, <2>3, <2>4 DEF UpdateFits, SearchFits
    <2>7. DeleteFits(r, w)
        <3>1. r.count = 0
            BY <1>1, <1>2, <2>3 DEF AttemptsFit
        <3>2. l = 0 => Cardinality(w[n]) = 0
            BY <1>2, <2>4, FS_EmptySet
        <3> HIDE DEF n
        <3> QED BY <2>3, <3>1, <3>2 DEF DeleteFits
    <2> QED BY <1>5, <2>1, <2>3, <2>5, <2>6, <2>7 DEF RecordFits
<1> QED BY <1>6, <1>7

LEMMA RecInitInv == RecInit => RecInv
<1> SUFFICES ASSUME RecInit PROVE RecInv
    OBVIOUS
<1>1. (CHOOSE i \in RecIds : TRUE) \in RecIds
    BY RecAssumed
<1>2. /\ NoRecCall \in RecCallType /\ NoRecCall.tries = 0 /\ NoRecCall.count = 0 /\ NoRecCall.failed = FALSE
      /\ NoRecCall.at = "new" /\ NoRecCall.op = "none"
    BY <1>1 DEF NoRecCall, RecCallType, RecOps, RecContents
<1>3. \A c \in RecCalls : recCall[c] = NoRecCall /\ \A n \in 1 .. RecAttempts : recWrote[c][n] = {}
    BY DEF RecInit
<1>4. /\ Entry(1) \in RecEntry /\ Entry(2) \in RecEntry /\ Entry(1).tags = 0 /\ Entry(2).tags = 0
    BY DEF Entry, RecEntry
<1>5. recSpace \in [RecIds -> {Entry(1), Entry(2), NoRecord}]
    BY RecAssumed DEF RecInit
<1>6. RecTypeOK
    BY <1>2, <1>4, <1>5 DEF RecInit, RecTypeOK, RecContents
<1>7. \A c \in RecCalls : RecordFits(recCall[c], recWrote[c])
    BY <1>2, <1>3, RecAssumed DEF RecordFits, AttemptsFit, UpdateFits, DeleteFits, SearchFits, ByQuery
<1>8. AddsCounted
    <2> SUFFICES ASSUME NEW i \in RecIds, recSpace[i] # NoRecord PROVE recSpace[i].tags <= Cardinality(AddedBy(i))
        BY DEF AddsCounted
    <2>1. recSpace[i].tags = 0
        BY <1>4, <1>5
    <2>2. Cardinality(AddedBy(i)) \in Nat
        BY AttemptsFinite DEF AddedBy
    <2> QED BY <2>1, <2>2
<1> QED BY <1>6, <1>7, <1>8 DEF RecInv

LEMMA RecStep == RecInv /\ [RecNext]_recVars => RecInv'
<1> SUFFICES ASSUME RecInv, [RecNext]_recVars PROVE RecInv'
    OBVIOUS
<1>1. CASE RecNext
    BY <1>1, RecBeginInv, SnapshotInv, ApplyInv, SetOneInv, LookInv, RequestBreaksInv DEF RecNext
<1>2. CASE UNCHANGED recVars
    BY <1>2 DEF recVars, RecInv, RecTypeOK, AddsCounted, AddedBy
<1> QED BY <1>1, <1>2

LEMMA ChangedFacts ==
      ASSUME RecInv, NEW c \in RecCalls
      PROVE  LET w == recWrote[c][recCall[c].tries + 1] IN
             /\ IsFiniteSet(Changed(c)) /\ Cardinality(Changed(c)) \in Nat
             /\ w \subseteq Changed(c) /\ Cardinality(w) <= Cardinality(Changed(c))
             /\ recCall[c].lost = 0 => Changed(c) = w
<1> DEFINE w == recWrote[c][recCall[c].tries + 1]
<1>1. /\ AttemptsFit(recCall[c], recWrote[c]) /\ recCall[c].tries + 1 \in 1 .. RecAttempts
      /\ recWrote[c] \in [1 .. RecAttempts -> SUBSET RecIds]
    BY RecCallFacts
<1>2. Changed(c) \subseteq RecIds
    BY <1>1 DEF Changed
<1>3. IsFiniteSet(Changed(c)) /\ Cardinality(Changed(c)) \in Nat
    BY <1>2, IdsFinite
<1>4. w \subseteq Changed(c)
    BY <1>1 DEF Changed
<1>5. ASSUME recCall[c].lost = 0 PROVE Changed(c) = w
    <2>1. \A n \in 1 .. RecAttempts : n # recCall[c].tries + 1 => recWrote[c][n] = {}
        BY <1>1, <1>5 DEF AttemptsFit
    <2>2. Changed(c) \subseteq w
        BY <2>1 DEF Changed
    <2> QED BY <1>4, <2>2
<1>6. Cardinality(w) <= Cardinality(Changed(c))
    <2> HIDE DEF w
    <2> QED BY <1>3, <1>4, FS_Subset
<1> QED BY <1>3, <1>4, <1>5, <1>6

\* An attempt of a call none of whose answers was lost is its only one that
\* wrote: these attempts are at most as many as the calls, and the others at
\* most as many as the attempts.
LEMMA AddsBounded ==
      ASSUME RecInv, NEW i \in RecIds
      PROVE  LET adds == {c \in RecCalls : recCall[c].op = "add" /\ i \in Changed(c)}
                 again == {c \in adds : recCall[c].lost > 0}
             IN  Cardinality(AddedBy(i)) <= Cardinality(adds) + Cardinality(again) * (RecAttempts - 1)
<1> DEFINE adds == {c \in RecCalls : recCall[c].op = "add" /\ i \in Changed(c)}
           again == {c \in adds : recCall[c].lost > 0}
           first == adds \X {1}
           others == again \X (2 .. RecAttempts)
           target == first \cup others
           f == [p \in AddedBy(i) |-> IF recCall[p[1]].lost > 0 THEN p ELSE <<p[1], 1>>]
<1>1. \A p \in AddedBy(i) : /\ p[1] \in adds /\ p[2] \in 1 .. RecAttempts /\ p = <<p[1], p[2]>>
                         /\ p[1] \in RecCalls /\ i \in recWrote[p[1]][p[2]]
    BY DEF AddedBy, Changed
<1>2. \A p \in AddedBy(i) : recCall[p[1]].lost > 0 \/ p[2] = recCall[p[1]].tries + 1
    <2> SUFFICES ASSUME NEW p \in AddedBy(i), recCall[p[1]].lost = 0 PROVE p[2] = recCall[p[1]].tries + 1
        BY <1>1, RecCallFacts
    <2>1. AttemptsFit(recCall[p[1]], recWrote[p[1]])
        BY <1>1, RecCallFacts
    <2> QED BY <1>1, <2>1 DEF AttemptsFit
<1>3. f \in [AddedBy(i) -> target]
    <2> SUFFICES ASSUME NEW p \in AddedBy(i)
                 PROVE  (IF recCall[p[1]].lost > 0 THEN p ELSE <<p[1], 1>>) \in target
        OBVIOUS
    <2>1. CASE recCall[p[1]].lost > 0
        <3>1. p[1] \in again
            BY <1>1, <2>1
        <3>2. p[2] = 1 \/ p[2] \in 2 .. RecAttempts
            BY <1>1, RecAssumed
        <3> HIDE DEF adds, again
        <3>3. CASE p[2] = 1
            BY <3>3, <1>1, <2>1
        <3>4. CASE p[2] \in 2 .. RecAttempts
            BY <3>1, <3>4, <1>1, <2>1
        <3> QED BY <3>2, <3>3, <3>4
    <2>2. CASE ~(recCall[p[1]].lost > 0)
        <3> HIDE DEF adds
        <3> QED BY <1>1, <2>2
    <2> QED BY <2>1, <2>2
<1>4. \A p, q \in AddedBy(i) : f[p] = f[q] => p = q
    <2> SUFFICES ASSUME NEW p \in AddedBy(i), NEW q \in AddedBy(i), f[p] = f[q] PROVE p = q
        OBVIOUS
    <2>1. /\ p = <<p[1], p[2]>> /\ q = <<q[1], q[2]>>
          /\ f[p] = IF recCall[p[1]].lost > 0 THEN p ELSE <<p[1], 1>>
          /\ f[q] = IF recCall[q[1]].lost > 0 THEN q ELSE <<q[1], 1>>
        BY <1>1
    <2>2. p[1] = q[1]
        BY <2>1
    <2>3. p[2] = q[2]
        BY <2>1, <2>2, <1>2
    <2> QED BY <2>1, <2>2, <2>3
<1> HIDE DEF f
<1>5. f \in Injection(AddedBy(i), target)
    BY <1>3, <1>4 DEF Injection, IsInjective
<1>6. IsFiniteSet(adds) /\ IsFiniteSet(again) /\ Cardinality(adds) \in Nat /\ Cardinality(again) \in Nat
    BY RecAssumed, FS_Subset, FS_CardinalityType
<1> HIDE DEF adds, again
<1>7. IsFiniteSet({1}) /\ Cardinality({1}) = 1
    BY FS_Singleton
<1>8. IsFiniteSet(first) /\ Cardinality(first) = Cardinality(adds)
    <2>1. IsFiniteSet(first) /\ Cardinality(first) = Cardinality(adds) * Cardinality({1})
        BY <1>6, <1>7, FS_Product
    <2> QED BY <1>6, <1>7, <2>1
<1>9. IsFiniteSet(2 .. RecAttempts) /\ Cardinality(2 .. RecAttempts) = RecAttempts - 1
    BY RecAssumed, FS_Interval
<1>10. IsFiniteSet(others) /\ Cardinality(others) = Cardinality(again) * (RecAttempts - 1)
    <2>1. IsFiniteSet(others) /\ Cardinality(others) = Cardinality(again) * Cardinality(2 .. RecAttempts)
        BY <1>6, <1>9, FS_Product
    <2> QED BY <1>9, <2>1
<1>11. first \cap others = {}
    OBVIOUS
<1> HIDE DEF first, others
<1>12. IsFiniteSet(target) /\ Cardinality(target) = Cardinality(first) + Cardinality(others)
    <2>1. /\ IsFiniteSet(target)
          /\ Cardinality(target) = Cardinality(first) + Cardinality(others) - Cardinality(first \cap others)
        BY <1>8, <1>10, FS_Union
    <2>2. Cardinality(first \cap others) = 0
        BY <1>11, FS_EmptySet
    <2>3. Cardinality(first) \in Nat /\ Cardinality(others) \in Nat
        BY <1>8, <1>10, FS_CardinalityType
    <2> QED BY <2>1, <2>2, <2>3
<1> HIDE DEF target
<1>13. Cardinality(AddedBy(i)) <= Cardinality(target)
    BY <1>5, <1>12, FS_Injection
<1> QED BY <1>8, <1>10, <1>12, <1>13 DEF adds, again

LEMMA RecInvSound == RecInv => RecordsSound
<1> SUFFICES ASSUME RecInv PROVE RecordsSound
    OBVIOUS
<1>1. \A c \in RecCalls : RecordFits(recCall[c], recWrote[c])
    BY DEF RecInv
<1>2. UpdatesAsTold
    <2> SUFFICES ASSUME NEW c \in RecCalls, recCall[c].at = "done", recCall[c].op \in {"set", "add"}
                 PROVE  /\ recCall[c].told = "done" /\ ~recCall[c].skipped => recWrote[c][recCall[c].tries + 1] = Found(c)
                        /\ recCall[c].told = "failed" /\ Changed(c) # {} => recCall[c].lost > 0
        BY DEF UpdatesAsTold
    <2>1. UpdateFits(recCall[c], recWrote[c])
        BY <1>1 DEF RecordFits
    <2>2. recCall[c].lost = 0 => Changed(c) = recWrote[c][recCall[c].tries + 1]
        BY ChangedFacts
    <2>3. recCall[c].lost \in Nat
        BY RecCallFacts
    <2> QED BY <2>1, <2>2, <2>3 DEF UpdateFits, Found
<1>3. AddedOnce
    <2> SUFFICES ASSUME NEW i \in RecIds, recSpace[i] # NoRecord
                 PROVE  LET adds == {c \in RecCalls : recCall[c].op = "add" /\ i \in Changed(c)}
                            again == {c \in adds : recCall[c].lost > 0}
                        IN  recSpace[i].tags <= Cardinality(adds) + Cardinality(again) * (RecAttempts - 1)
        BY DEF AddedOnce
    <2> DEFINE adds == {c \in RecCalls : recCall[c].op = "add" /\ i \in Changed(c)}
               again == {c \in adds : recCall[c].lost > 0}
               bound == Cardinality(adds) + Cardinality(again) * (RecAttempts - 1)
    <2>1. recSpace[i].tags <= Cardinality(AddedBy(i)) /\ recSpace[i].tags \in Nat /\ Cardinality(AddedBy(i)) \in Nat
        <3>1. Cardinality(AddedBy(i)) \in Nat
            BY AttemptsFinite DEF AddedBy
        <3> QED BY <3>1 DEF RecInv, AddsCounted, RecTypeOK, RecContents, RecEntry
    <2>2. Cardinality(AddedBy(i)) <= bound
        BY AddsBounded
    <2>3. bound \in Int
        <3>1. IsFiniteSet(adds) /\ IsFiniteSet(again)
            BY RecAssumed, FS_Subset
        <3>2. Cardinality(adds) \in Nat /\ Cardinality(again) \in Nat
            <4> HIDE DEF adds, again
            <4> QED BY <3>1, FS_CardinalityType
        <3> HIDE DEF adds, again
        <3> QED BY <3>2, RecAssumed
    <2>4. recSpace[i].tags <= bound
        <3> HIDE DEF bound
        <3> QED BY <2>1, <2>2, <2>3
    <2> QED BY <2>4
<1>4. DeletesCounted
    <2> SUFFICES ASSUME NEW c \in RecCalls, recCall[c].at = "done", recCall[c].op = "delete"
                 PROVE  /\ recCall[c].count <= Cardinality(Changed(c))
                        /\ recCall[c].count < Cardinality(Changed(c)) => recCall[c].lost > 0 \/ recCall[c].skipped
        BY DEF DeletesCounted
    <2> DEFINE w == recWrote[c][recCall[c].tries + 1]
    <2>1. /\ recCall[c].count \in {0, Cardinality(w)}
          /\ recCall[c].lost = 0 /\ ~recCall[c].skipped => recCall[c].count = Cardinality(w)
        BY <1>1 DEF RecordFits, DeleteFits
    <2>2. /\ Cardinality(Changed(c)) \in Nat /\ Cardinality(w) <= Cardinality(Changed(c))
          /\ recCall[c].lost = 0 => Changed(c) = w
        BY ChangedFacts
    <2>3. recCall[c].lost \in Nat /\ recCall[c].count \in Nat
        BY RecCallFacts DEF RecCallType
    <2> HIDE DEF w
    <2> QED BY <2>1, <2>2, <2>3
<1>5. SearchesExact
    BY <1>1 DEF RecordFits, SearchFits, SearchesExact
<1> QED BY <1>2, <1>3, <1>4, <1>5 DEF RecordsSound

\* For any records, calls, attempts and lost answers: what a call is told of
\* its update, deletion or search is so, and each update adds its entry once,
\* or once for each of its attempts if an answer was lost.
THEOREM RecordsAreSound == RecSpec => []RecordsSound
<1>1. RecInit => RecInv
    BY RecInitInv
<1>2. RecInv /\ [RecNext]_recVars => RecInv'
    BY RecStep
<1>3. RecInv => RecordsSound
    BY RecInvSound
<1> QED BY <1>1, <1>2, <1>3, PTL DEF RecSpec

-----------------------------------------------------------------------------
\* The stores together: whatever their calls are, in any order and at any
\* time beside each other, each keeps what it promises.
THEOREM StoresAreSound == StoresSpec => []StoresSound
<1>1. /\ ChunksSound /\ VectorsSound /\ GraphSound /\ ReposSound /\ TokenFound
      /\ EsSound /\ RecordsSound /\ ObjectsSound
      => StoresSound
    BY DEF StoresSound
<1> QED BY <1>1, ChunksAreSound, TokensAreFound, ReposAreSound, VectorsAreSound, GraphIsSound,
           ConnectionIsSound, ObjectsAreSound, RecordsAreSound, PTL DEF StoresSpec

-----------------------------------------------------------------------------
(*****************************************************************************)
(* A request to a chat model: attempts, streams, tags and tool calls in      *)
(* pieces.                                                                   *)
(*****************************************************************************)

\* The calls of tools have numbers from 1 on.
LEMMA ClientFits == MaxAttempts \in Nat \ {0} /\ Pieces \in Nat /\ \E n \in Nat : ToolUses = 1 .. n
<1>1. Cardinality(ToolUses) \in Nat
    BY AttemptsAssumption, FS_CardinalityType
<1> QED BY <1>1, AttemptsAssumption

ClientPhases == {"new", "asking", "streaming", "ended", "done"}
Tokens == {"think", "/think", "reason", "text"}
ClientTypeOK ==
    /\ ask \in [provider : {"openai", "claude", "zhipu"},
                op : {"chat", "chat_stream", "ask_tools", "ask_tools_stream"},
                history : BOOLEAN, indexed : BOOLEAN, twins : BOOLEAN]
    /\ phase \in ClientPhases /\ attempt \in 0 .. MaxAttempts - 1
    /\ speech \in Seq(Tokens) /\ thinking \in BOOLEAN
    /\ sent \in [ToolUses -> 0 .. Pieces + 1]

\* Calls begin one after the other, and only streams send pieces of them.
Begun == {c \in ToolUses : sent[c] > 0}
BegunInOrder == \A c \in ToolUses : c > 1 /\ sent[c] > 0 => sent[c - 1] > 0
\* What is collected of a call is what was sent of it.
SentOf(c) == [name |-> c, args |-> [k \in 1 .. sent[c] - 1 |-> <<c, k>>]]
PartsSent ==
    phase # "done" /\ (ask.indexed \/ ask.provider = "claude") /\ ~ask.twins =>
        DOMAIN parts = Begun /\ \A c \in Begun : parts[c] = SentOf(c)
NotBegun == phase \in {"new", "asking"} => Begun = {} /\ speech = <<>> /\ ~thinking
\* Until the end nothing is told, and an overflow is the end.
Untold ==
    /\ phase # "done" => reply.kind = "none" /\ taken = <<>>
    /\ lastError = "overflow" => phase = "done" /\ reply.kind = "overflow" /\ speech = <<>>

\* The tags up to a place.
Tags(s, tag, k) == Cardinality({j \in 1 .. k : s[j] = tag})
\* The tags of s are pairs, but for an open one, and no text is between them.
Balanced(s, open) ==
    /\ Tags(s, "think", Len(s)) = Tags(s, "/think", Len(s)) + (IF open THEN 1 ELSE 0)
    /\ \A k \in 1 .. Len(s) : s[k] = "text" => Tags(s, "think", k) = Tags(s, "/think", k)
SpeechTagged == Balanced(speech, thinking) /\ (ask.provider # "openai" => ~thinking)

ClientInv ==
    ClientTypeOK /\ BegunInOrder /\ PartsSent /\ NotBegun /\ Untold /\ SpeechTagged /\ CallsAsMade

LEMMA TagsOfAppend ==
    ASSUME NEW s \in Seq(Tokens), NEW t \in Tokens, NEW tag
    PROVE  /\ \A k \in 1 .. Len(s) : Tags(Append(s, t), tag, k) = Tags(s, tag, k)
           /\ Tags(Append(s, t), tag, Len(s) + 1) = Tags(s, tag, Len(s)) + (IF t = tag THEN 1 ELSE 0)
           /\ Tags(s, tag, Len(s)) \in Nat
<1> DEFINE a == Append(s, t)
           T(k) == {j \in 1 .. k : s[j] = tag}
           A(k) == {j \in 1 .. k : a[j] = tag}
<1>1. Len(s) \in Nat /\ a[Len(s) + 1] = t /\ \A j \in 1 .. Len(s) : a[j] = s[j]
    OBVIOUS
<1>2. ASSUME NEW k \in 1 .. Len(s) PROVE A(k) = T(k)
    BY <1>1
<1>3. A(Len(s)) = T(Len(s))
    BY <1>1
<1>4. A(Len(s) + 1) = IF t = tag THEN T(Len(s)) \cup {Len(s) + 1} ELSE T(Len(s))
    BY <1>1
<1>5. IsFiniteSet(T(Len(s))) /\ Len(s) + 1 \notin T(Len(s))
    <2>1. IsFiniteSet(1 .. Len(s))
        <3>1. 1 \in Int /\ Len(s) \in Int
            BY <1>1
        <3> QED BY <3>1, FS_Interval
    <2>2. T(Len(s)) \subseteq 1 .. Len(s)
        OBVIOUS
    <2>3. Len(s) + 1 \notin 1 .. Len(s)
        BY <1>1
    <2> QED BY <2>1, <2>2, <2>3, FS_Subset
<1> DEFINE full == T(Len(s))
<1>6. Cardinality(full) \in Nat
    BY <1>5, FS_CardinalityType
<1>7. Cardinality(A(Len(s) + 1)) = Cardinality(full) + (IF t = tag THEN 1 ELSE 0)
    <2> HIDE DEF A, T
    <2>1. CASE t = tag
        BY <2>1, <1>4, <1>5, FS_AddElement DEF full
    <2>2. CASE t # tag
        BY <2>2, <1>4, <1>6
    <2> QED BY <2>1, <2>2
<1> QED BY <1>2, <1>6, <1>7 DEF Tags

LEMMA NothingSaid == Balanced(<<>>, FALSE)
<1>1. {j \in 1 .. 0 : <<>>[j] = "think"} = {} /\ {j \in 1 .. 0 : <<>>[j] = "/think"} = {}
    OBVIOUS
<1>2. Tags(<<>>, "think", 0) = 0 /\ Tags(<<>>, "/think", 0) = 0
    BY <1>1, FS_EmptySet DEF Tags
<1> QED BY <1>2 DEF Balanced

\* One token more.
LEMMA OneTokenMore ==
    ASSUME NEW s \in Seq(Tokens), NEW open \in BOOLEAN, Balanced(s, open), NEW t \in Tokens,
           t = "think" => ~open, t = "/think" => open, t = "text" => ~open
    PROVE  Append(s, t) \in Seq(Tokens) /\ Balanced(Append(s, t), IF t = "think" THEN TRUE ELSE IF t = "/think" THEN FALSE ELSE open)
<1> DEFINE a == Append(s, t)
<1>1. Len(s) \in Nat /\ a \in Seq(Tokens) /\ Len(a) = Len(s) + 1 /\ a[Len(s) + 1] = t /\ \A j \in 1 .. Len(s) : a[j] = s[j]
    OBVIOUS
<1>2. \A tag \in Tokens :
        /\ \A k \in 1 .. Len(s) : Tags(a, tag, k) = Tags(s, tag, k)
        /\ Tags(a, tag, Len(s) + 1) = Tags(s, tag, Len(s)) + (IF t = tag THEN 1 ELSE 0)
        /\ Tags(s, tag, Len(s)) \in Nat
    BY TagsOfAppend
<1>3. "think" \in Tokens /\ "/think" \in Tokens
    BY DEF Tokens
<1> HIDE DEF a
<1>4. Tags(s, "think", Len(s)) = Tags(s, "/think", Len(s)) + (IF open THEN 1 ELSE 0)
      /\ \A k \in 1 .. Len(s) : s[k] = "text" => Tags(s, "think", k) = Tags(s, "/think", k)
    BY DEF Balanced
<1>5. Tags(a, "think", Len(a)) = Tags(a, "/think", Len(a))
          + (IF IF t = "think" THEN TRUE ELSE IF t = "/think" THEN FALSE ELSE open THEN 1 ELSE 0)
    BY <1>1, <1>2, <1>3, <1>4 DEF Tokens
<1>6. ASSUME NEW k \in 1 .. Len(a), a[k] = "text" PROVE Tags(a, "think", k) = Tags(a, "/think", k)
    <2>1. CASE k \in 1 .. Len(s)
        BY <2>1, <1>1, <1>2, <1>3, <1>4, <1>6
    <2>2. CASE k = Len(s) + 1
        BY <2>2, <1>1, <1>2, <1>3, <1>4, <1>6
    <2> QED BY <2>1, <2>2, <1>1
<1>7. Balanced(a, IF t = "think" THEN TRUE ELSE IF t = "/think" THEN FALSE ELSE open)
    BY <1>5, <1>6 DEF Balanced
<1> QED BY <1>1, <1>7 DEF a

LEMMA ClientInitInv == ClientInit => ClientInv
<1> SUFFICES ASSUME ClientInit PROVE ClientInv
    OBVIOUS
<1>1. ClientTypeOK
    <2>1. 0 \in 0 .. MaxAttempts - 1 /\ 0 \in 0 .. Pieces + 1
        BY ClientFits
    <2>2. sent \in [ToolUses -> 0 .. Pieces + 1] /\ speech \in Seq(Tokens)
        BY <2>1 DEF ClientInit
    <2> QED BY <2>1, <2>2 DEF ClientInit, ClientTypeOK, ClientPhases
<1>2. Begun = {}
    BY DEF ClientInit, Begun
<1>3. BegunInOrder
    BY DEF ClientInit, BegunInOrder
<1>4. PartsSent
    BY <1>2 DEF ClientInit, PartsSent
<1>5. NotBegun
    BY <1>2 DEF ClientInit, NotBegun
<1>6. Untold /\ CallsAsMade
    BY DEF ClientInit, Untold, CallsAsMade, Waiting
<1>7. SpeechTagged
    BY NothingSaid DEF ClientInit, SpeechTagged
<1> QED BY <1>1, <1>3, <1>4, <1>5, <1>6, <1>7 DEF ClientInv

\* The call goes on without a piece of a stream.
LEMMA GoesOn ==
    ASSUME ClientInv, UNCHANGED <<ask, speech, thinking, sent, parts, closing, taken, reply>>, phase # "done",
           phase' \in ClientPhases \ {"done"}, attempt' \in 0 .. MaxAttempts - 1,
           phase' \in {"new", "asking"} => phase \in {"new", "asking"}, lastError' # "overflow"
    PROVE  ClientInv'
<1>1. ClientTypeOK' /\ BegunInOrder' /\ Begun' = Begun
    BY DEF ClientInv, ClientTypeOK, BegunInOrder, Begun
<1>2. PartsSent'
    BY <1>1 DEF ClientInv, PartsSent, SentOf
<1>3. NotBegun' /\ Untold' /\ SpeechTagged'
    BY <1>1 DEF ClientInv, NotBegun, Untold, SpeechTagged
<1>4. CallsAsMade'
    BY DEF ClientInv, Untold, CallsAsMade
<1> QED BY <1>1, <1>2, <1>3, <1>4 DEF ClientInv

\* The call ends without an answer.
LEMMA EndsWithout ==
    ASSUME ClientInv, UNCHANGED <<ask, attempt, speech, thinking, sent, parts, taken>>, phase # "done", phase' = "done",
           reply'.kind # "answer", lastError' = "overflow" => reply'.kind = "overflow" /\ speech = <<>>
    PROVE  ClientInv'
<1>1. ClientTypeOK' /\ BegunInOrder'
    BY DEF ClientInv, ClientTypeOK, BegunInOrder, ClientPhases
<1>2. PartsSent' /\ NotBegun' /\ Untold' /\ SpeechTagged' /\ CallsAsMade'
    BY DEF ClientInv, PartsSent, NotBegun, Untold, SpeechTagged, CallsAsMade
<1> QED BY <1>1, <1>2 DEF ClientInv

LEMMA ClientRaises == ASSUME ClientInv, phase = "asking", NEW error, Raises(error) PROVE ClientInv'
<1>0. UNCHANGED <<ask, speech, thinking, sent, parts, closing, taken>> /\ speech = <<>> /\ attempt \in 0 .. MaxAttempts - 1
    BY DEF Raises, ClientInv, NotBegun, ClientTypeOK
<1>1. CASE Overflow(error) /\ ~Retryable(error)
    <2>1. attempt' = attempt /\ phase' = "done" /\ reply'.kind = "overflow"
        BY <1>1 DEF Raises, Replied
    <2> QED BY <1>0, <2>1, EndsWithout
<1>2. CASE ~Overflow(error) /\ (~Retryable(error) \/ attempt + 1 = MaxAttempts)
    <2>1. attempt' = attempt /\ phase' = "done" /\ reply'.kind = "failed" /\ lastError' = "other"
        BY <1>2 DEF Raises, Replied
    <2> QED BY <1>0, <2>1, EndsWithout
<1>3. CASE ~Overflow(error) /\ Retryable(error) /\ attempt + 1 # MaxAttempts
    <2>1. attempt' = attempt + 1 /\ phase' = phase /\ reply' = reply /\ lastError' = "other"
        BY <1>3 DEF Raises
    <2>2. attempt' \in 0 .. MaxAttempts - 1
        BY <1>0, <1>3, <2>1, ClientFits
    <2> QED BY <1>0, <2>1, <2>2, GoesOn DEF ClientPhases
<1> QED BY <1>1, <1>2, <1>3 DEF Retryable

\* The model's calls come whole.
LEMMA WholeInv == ASSUME ClientInv, OpenAIAnswered PROVE ClientInv'
<1>0. PICK n \in Nat : ToolUses = 1 .. n
    BY ClientFits
<1>1. /\ phase' = "done" /\ reply' = [kind |-> "answer", marked |-> TRUE]
      /\ UNCHANGED <<ask, attempt, speech, thinking, parts, closing, lastError>>
      /\ taken' = (IF WithTools(ask.op) THEN Whole ELSE <<>>)
      /\ sent' = (IF WithTools(ask.op) THEN [c \in ToolUses |-> Pieces + 1] ELSE sent)
    BY DEF OpenAIAnswered, Replied
<1>2. lastError # "overflow" /\ Begun = {}
    BY DEF OpenAIAnswered, ClientInv, Untold, NotBegun
<1>3. Pieces + 1 \in 0 .. Pieces + 1 /\ Pieces + 1 > 0
    BY ClientFits
<1>4. ClientTypeOK'
    BY <1>1, <1>3 DEF ClientInv, ClientTypeOK, ClientPhases
<1>5. BegunInOrder'
    <2>1. CASE WithTools(ask.op)
        <3> SUFFICES ASSUME NEW c \in ToolUses, c > 1 PROVE sent'[c - 1] > 0
            BY DEF BegunInOrder
        <3>1. c - 1 \in ToolUses
            BY <1>0
        <3> QED BY <2>1, <3>1, <1>1, <1>3
    <2>2. CASE ~WithTools(ask.op)
        BY <2>2, <1>1 DEF ClientInv, BegunInOrder
    <2> QED BY <2>1, <2>2
<1>6. PartsSent' /\ NotBegun' /\ Untold' /\ SpeechTagged'
    BY <1>1, <1>2 DEF ClientInv, PartsSent, NotBegun, Untold, SpeechTagged
<1>7. CallsAsMade'
    <2>1. CASE WithTools(ask.op)
        <3>1. taken' = [c \in 1 .. n |-> [use |-> c, args |-> "all"]]
            BY <2>1, <1>0, <1>1 DEF Whole
        <3>2. Len(taken') = n /\ \A k \in 1 .. n : taken'[k].use = k /\ taken'[k].args = "all"
            BY <3>1
        <3>3. \A k \in 1 .. n : sent'[k] = Pieces + 1
            BY <2>1, <1>0, <1>1
        <3> QED BY <3>2, <3>3, <1>0 DEF CallsAsMade
    <2>2. CASE ~WithTools(ask.op)
        <3>1. taken' = <<>> /\ sent' = sent /\ \A c \in ToolUses : ~(sent[c] > 0)
            BY <2>2, <1>1, <1>2 DEF Begun
        <3>2. Len(taken') = 0 /\ \A k \in 1 .. Len(taken') : FALSE
            BY <3>1
        <3> QED BY <3>1, <3>2 DEF CallsAsMade
    <2> QED BY <2>1, <2>2
<1> QED BY <1>4, <1>5, <1>6, <1>7 DEF ClientInv

\* A stream goes on with text, reasoning and their tags.
LEMMA SpeaksInv ==
    ASSUME ClientInv, phase = "streaming", UNCHANGED <<ask, attempt, phase, sent, parts, closing, lastError, reply, taken>>,
           speech' \in Seq(Tokens), thinking' \in BOOLEAN, Balanced(speech', thinking'), ask.provider # "openai" => ~thinking'
    PROVE  ClientInv'
<1>1. ClientTypeOK' /\ BegunInOrder' /\ Begun' = Begun
    BY DEF ClientInv, ClientTypeOK, BegunInOrder, Begun
<1>2. PartsSent'
    BY <1>1 DEF ClientInv, PartsSent, SentOf
<1>3. NotBegun' /\ Untold' /\ SpeechTagged'
    BY <1>1 DEF ClientInv, NotBegun, Untold, SpeechTagged
<1>4. CallsAsMade'
    BY DEF ClientInv, Untold, CallsAsMade
<1> QED BY <1>1, <1>2, <1>3, <1>4 DEF ClientInv

LEMMA Opened ==
    ASSUME NEW s \in Seq(Tokens), NEW open \in BOOLEAN, Balanced(s, open)
    PROVE  LET o == IF open THEN s ELSE Append(s, "think") IN o \in Seq(Tokens) /\ Balanced(o, TRUE)
<1>1. CASE open
    BY <1>1
<1>2. CASE ~open
    <2>1. open = FALSE /\ "think" \in Tokens
        BY <1>2 DEF Tokens
    <2>2. Append(s, "think") \in Seq(Tokens) /\ Balanced(Append(s, "think"), TRUE)
        BY <2>1, OneTokenMore
    <2> QED BY <2>1, <2>2
<1> QED BY <1>1, <1>2

LEMMA Closed ==
    ASSUME NEW s \in Seq(Tokens), NEW open \in BOOLEAN, Balanced(s, open)
    PROVE  LET o == IF open THEN Append(s, "/think") ELSE s IN o \in Seq(Tokens) /\ Balanced(o, FALSE)
<1>1. CASE ~open
    BY <1>1
<1>2. CASE open
    <2>1. open = TRUE /\ "/think" \in Tokens
        BY <1>2 DEF Tokens
    <2>2. Append(s, "/think") \in Seq(Tokens) /\ Balanced(Append(s, "/think"), FALSE)
        BY <2>1, OneTokenMore
    <2> QED BY <2>1, <2>2
<1> QED BY <1>1, <1>2

LEMMA OpenAISpeaksInv == ASSUME ClientInv, OpenAISpeaks PROVE ClientInv'
<1>0. /\ phase = "streaming" /\ UNCHANGED <<ask, attempt, phase, sent, parts, closing, lastError, reply, taken>> /\ ask.provider = "openai"
      /\ speech \in Seq(Tokens) /\ thinking \in BOOLEAN /\ Balanced(speech, thinking)
    BY DEF OpenAISpeaks, Said, ClientInv, ClientTypeOK, SpeechTagged
<1> DEFINE opened == IF thinking THEN speech ELSE Append(speech, "think")
           closed == IF thinking THEN Append(speech, "/think") ELSE speech
           reasoned == Append(opened, "reason")
           ended == Append(reasoned, "/think")
<1>1. opened \in Seq(Tokens) /\ Balanced(opened, TRUE) /\ closed \in Seq(Tokens) /\ Balanced(closed, FALSE)
    BY <1>0, Opened, Closed
<1>2. speech \o OpenAIOpens \o <<"reason">> = reasoned /\ speech \o OpenAIOpens \o <<"reason", "/think", "text">> = Append(ended, "text")
      /\ speech \o OpenAICloses \o <<"text">> = Append(closed, "text")
    BY <1>0 DEF OpenAIOpens, OpenAICloses, Tokens
<1> HIDE DEF opened, closed
<1>3. reasoned \in Seq(Tokens) /\ Balanced(reasoned, TRUE)
    BY <1>1, OneTokenMore DEF Tokens
<1> HIDE DEF reasoned
<1>4. ended \in Seq(Tokens) /\ Balanced(ended, FALSE)
    BY <1>3, OneTokenMore DEF Tokens
<1> HIDE DEF ended
<1>5. /\ Append(ended, "text") \in Seq(Tokens) /\ Balanced(Append(ended, "text"), FALSE)
      /\ Append(closed, "text") \in Seq(Tokens) /\ Balanced(Append(closed, "text"), FALSE)
    BY <1>1, <1>4, OneTokenMore DEF Tokens
<1>6. \/ speech' = reasoned /\ thinking' = TRUE
      \/ speech' = Append(closed, "text") /\ thinking' = FALSE
      \/ speech' = Append(ended, "text") /\ thinking' = FALSE
    BY <1>2 DEF OpenAISpeaks
<1> QED BY <1>0, <1>3, <1>5, <1>6, SpeaksInv

LEMMA ClaudeSpeaksInv == ASSUME ClientInv, ClaudeSpeaks PROVE ClientInv'
<1>1. /\ phase = "streaming" /\ UNCHANGED <<ask, attempt, phase, thinking, sent, parts, closing, lastError, reply, taken>>
      /\ ~thinking /\ speech' = Append(speech, "text") /\ speech \in Seq(Tokens) /\ Balanced(speech, FALSE)
    BY DEF ClaudeSpeaks, Said, ClientInv, ClientTypeOK, SpeechTagged
<1>2. speech' \in Seq(Tokens) /\ Balanced(speech', FALSE)
    BY <1>1, OneTokenMore DEF Tokens
<1>3. thinking' = FALSE
    BY <1>1 DEF ClientInv, ClientTypeOK
<1> QED BY <1>1, <1>2, <1>3, SpeaksInv

\* A stream goes on with a piece of a call.
LEMMA PieceInv ==
    ASSUME ClientInv, NEW c \in ToolUses, ToolPiece(c), NEW i, parts' = Put(parts, i, CollectAt(i, c)),
           (ask.indexed \/ ask.provider = "claude") /\ ~ask.twins => i = c
    PROVE  ClientInv'
<1>0. PICK n \in Nat : ToolUses = 1 .. n
    BY ClientFits
<1>1. /\ phase = "streaming" /\ UNCHANGED <<ask, attempt, phase, speech, thinking, closing, lastError, reply, taken>>
      /\ sent[c] \in Nat /\ sent[c] <= Pieces /\ (c > 1 => sent[c - 1] > 0)
      /\ sent' = [sent EXCEPT ![c] = sent[c] + 1] /\ sent \in [ToolUses -> 0 .. Pieces + 1]
    BY ClientFits DEF ToolPiece, ClientInv, ClientTypeOK
<1>2. sent'[c] = sent[c] + 1 /\ \A d \in ToolUses : d # c => sent'[d] = sent[d]
    BY <1>1
<1>3. \A d \in ToolUses : sent[d] \in Nat /\ d \in Nat
    BY <1>0, <1>1, ClientFits
<1>4. ClientTypeOK'
    <2>1. sent[c] + 1 \in 0 .. Pieces + 1
        BY <1>1, ClientFits
    <2>2. sent' \in [ToolUses -> 0 .. Pieces + 1]
        BY <2>1, <1>1
    <2> QED BY <2>2, <1>1 DEF ClientInv, ClientTypeOK
<1>5. BegunInOrder'
    <2> SUFFICES ASSUME NEW d \in ToolUses, d > 1, sent'[d] > 0 PROVE sent'[d - 1] > 0
        BY DEF BegunInOrder
    <2>1. d - 1 \in ToolUses /\ d - 1 # d
        BY <1>0
    <2>2. sent[d - 1] > 0
        <3>1. CASE d = c
            BY <3>1, <1>1
        <3>2. CASE d # c
            BY <3>2, <1>2 DEF ClientInv, BegunInOrder
        <3> QED BY <3>1, <3>2
    <2> QED BY <2>1, <2>2, <1>2, <1>3
<1>6. Begun' = Begun \cup {c}
    BY <1>2, <1>3 DEF Begun
<1>7. PartsSent'
    <2> SUFFICES ASSUME (ask.indexed \/ ask.provider = "claude") /\ ~ask.twins
                 PROVE  DOMAIN parts' = Begun' /\ \A d \in Begun' : parts'[d] = SentOf(d)'
        BY <1>1 DEF PartsSent
    <2>1. DOMAIN parts = Begun /\ \A d \in Begun : parts[d] = SentOf(d)
        BY <1>1 DEF ClientInv, PartsSent
    <2>2. i = c
        OBVIOUS
    <2>3. DOMAIN parts' = Begun' /\ parts'[c] = CollectAt(c, c) /\ \A d \in Begun : d # c => parts'[d] = parts[d]
        BY <2>1, <2>2, <1>6 DEF Put
    <2>4. \A d \in Begun : d # c => SentOf(d)' = SentOf(d)
        BY <1>2 DEF SentOf, Begun
    <2>5. CollectAt(c, c) = SentOf(c)'
        <3>1. SentOf(c)' = [name |-> c, args |-> [k \in 1 .. sent[c] |-> <<c, k>>]]
            <4>1. sent'[c] - 1 = sent[c]
                BY <1>1, <1>2
            <4> QED BY <4>1 DEF SentOf
        <3>2. CASE sent[c] = 0
            <4>1. c \notin DOMAIN parts
                BY <2>1, <3>2 DEF Begun
            <4>2. CollectAt(c, c) = [name |-> c, args |-> <<>>]
                BY <4>1, <3>2 DEF CollectAt, Item
            <4>3. [k \in 1 .. 0 |-> <<c, k>>] = <<>>
                OBVIOUS
            <4> QED BY <4>2, <4>3, <3>1, <3>2
        <3>3. CASE sent[c] # 0
            <4> DEFINE args == [k \in 1 .. sent[c] - 1 |-> <<c, k>>]
            <4>1. c \in Begun /\ Item(c) = [name |-> c, args |-> args]
                BY <2>1, <3>3, <1>3 DEF Begun, Item, SentOf
            <4>2. CollectAt(c, c) = [Item(c) EXCEPT !.args = Append(@, <<c, sent[c]>>)]
                BY <3>3 DEF CollectAt
            <4>3. Append(args, <<c, sent[c]>>) = [k \in 1 .. sent[c] |-> <<c, k>>]
                <5>1. sent[c] - 1 \in Nat /\ (sent[c] - 1) + 1 = sent[c]
                    BY <1>1, <3>3
                <5>2. args \in [1 .. sent[c] - 1 -> Nat \X Nat] /\ <<c, sent[c]>> \in Nat \X Nat
                    BY <1>3, <5>1
                <5>3. args \in Seq(Nat \X Nat) /\ Len(args) = sent[c] - 1
                    <6> DEFINE l == sent[c] - 1
                    <6>1. l \in Nat /\ args \in [1 .. l -> Nat \X Nat]
                        BY <5>1, <5>2
                    <6> HIDE DEF l, args
                    <6>2. args \in Seq(Nat \X Nat) /\ Len(args) = l
                        BY <6>1
                    <6> QED BY <6>2 DEF l
                <5> DEFINE longer == Append(args, <<c, sent[c]>>)
                <5>4. longer \in Seq(Nat \X Nat) /\ Len(longer) = sent[c] /\ longer[sent[c]] = <<c, sent[c]>>
                      /\ \A k \in 1 .. sent[c] - 1 : longer[k] = args[k]
                    <6> HIDE DEF args
                    <6> QED BY <5>1, <5>2, <5>3
                <5>5. \A k \in 1 .. sent[c] - 1 : args[k] = <<c, k>>
                    OBVIOUS
                <5> HIDE DEF longer, args
                <5>6. \A k \in 1 .. sent[c] : longer[k] = <<c, k>>
                    <6> SUFFICES ASSUME NEW k \in 1 .. sent[c] PROVE longer[k] = <<c, k>>
                        OBVIOUS
                    <6>1. CASE k = sent[c]
                        BY <6>1, <5>4
                    <6>2. CASE k # sent[c]
                        <7>1. k \in 1 .. sent[c] - 1
                            BY <6>2, <5>1, <1>1
                        <7> QED BY <7>1, <5>4, <5>5
                    <6> QED BY <6>1, <6>2
                <5>7. longer = [k \in 1 .. sent[c] |-> longer[k]]
                    BY <5>4, <5>1, <1>1
                <5>8. longer = [k \in 1 .. sent[c] |-> <<c, k>>]
                    BY <5>6, <5>7
                <5> QED BY <5>8 DEF longer
            <4> HIDE DEF args
            <4>4. CollectAt(c, c) = [name |-> c, args |-> Append(args, <<c, sent[c]>>)]
                <5> DEFINE item == Item(c)  longer == Append(args, <<c, sent[c]>>)
                <5>1. item = [name |-> c, args |-> args] /\ CollectAt(c, c) = [item EXCEPT !.args = Append(item.args, <<c, sent[c]>>)]
                    BY <4>1, <4>2
                <5> HIDE DEF item
                <5>2. item.args = args
                    BY <5>1
                <5>3. CollectAt(c, c) = [item EXCEPT !.args = longer]
                    BY <5>1, <5>2
                <5> HIDE DEF longer
                <5>4. CollectAt(c, c) = [name |-> c, args |-> longer]
                    BY <5>1, <5>3
                <5> QED BY <5>4 DEF longer
            <4> QED BY <4>3, <4>4, <3>1
        <3> QED BY <3>2, <3>3
    <2> QED BY <2>1, <2>3, <2>4, <2>5, <1>6
<1>8. NotBegun' /\ Untold' /\ SpeechTagged' /\ CallsAsMade'
    BY <1>1 DEF ClientInv, NotBegun, Untold, SpeechTagged, CallsAsMade
<1> QED BY <1>4, <1>5, <1>7, <1>8 DEF ClientInv

\* An ordered sequence of as many items as there are has each of them.
LEMMA AllOrdered ==
    ASSUME NEW items, items \subseteq Nat, IsFiniteSet(items), NEW s \in [1 .. Cardinality(items) -> items],
           \A k, l \in 1 .. Cardinality(items) : k < l => s[k] < s[l]
    PROVE  \A c \in items : \E k \in 1 .. Cardinality(items) : s[k] = c
<1>1. PICK n \in Nat : n = Cardinality(items)
    BY FS_CardinalityType
<1>2. s \in Injection(1 .. n, items)
    <2>1. \A k \in 1 .. n : s[k] \in Nat
        BY <1>1
    <2>2. \A k, l \in 1 .. n : k < l => s[k] < s[l]
        BY <1>1
    <2>3. \A k, l \in 1 .. n : s[k] = s[l] => k = l
        <3> SUFFICES ASSUME NEW k \in 1 .. n, NEW l \in 1 .. n, k < l PROVE s[k] # s[l]
            OBVIOUS
        <3> QED BY <2>1, <2>2
    <2>4. s \in [1 .. n -> items]
        BY <1>1
    <2> QED BY <2>3, <2>4 DEF Injection, IsInjective
<1>3. IsFiniteSet(1 .. n) /\ Cardinality(1 .. n) = n
    <2>1. 1 \in Int /\ n \in Int
        OBVIOUS
    <2>2. IsFiniteSet(1 .. n) /\ Cardinality(1 .. n) = IF 1 > n THEN 0 ELSE n - 1 + 1
        BY <2>1, FS_Interval
    <2> QED BY <2>2
<1>4. s \in Surjection(1 .. n, items)
    BY <1>1, <1>2, <1>3, FS_Injection
<1> QED BY <1>1, <1>4 DEF Surjection

\* What can be read of a call is all that was sent of it, or nothing.
LEMMA ParsedSent ==
    ASSUME ClientTypeOK, NEW c \in Begun, Parsed(SentOf(c)) # "broken"
    PROVE  sent[c] = IF Parsed(SentOf(c)) = "all" THEN Pieces + 1 ELSE 1
<1> DEFINE args == [i \in 1 .. sent[c] - 1 |-> <<c, i>>]
<1>1. sent[c] \in Nat /\ sent[c] > 0 /\ Pieces \in Nat
    <2>1. c \in ToolUses /\ sent[c] > 0
        BY DEF Begun
    <2>2. sent[c] \in 0 .. Pieces + 1 /\ Pieces \in Nat
        BY <2>1, ClientFits DEF ClientTypeOK
    <2> QED BY <2>1, <2>2
<1>2. SentOf(c).args = args /\ SentOf(c).name = c /\ DOMAIN args = 1 .. sent[c] - 1
    BY DEF SentOf
<1> HIDE DEF args
<1>3. Parsed(SentOf(c)) = IF args = <<>> THEN "none" ELSE IF args = AllOf(c) THEN "all" ELSE "broken"
    BY <1>2 DEF Parsed
<1>4. CASE args = <<>>
    <2>1. 1 .. sent[c] - 1 = {}
        BY <1>2, <1>4
    <2>2. 1 \notin 1 .. sent[c] - 1
        BY <2>1
    <2>3. sent[c] = 1
        BY <1>1, <2>2
    <2> QED BY <1>3, <1>4, <2>3
<1>5. CASE args # <<>>
    <2>1. args = AllOf(c) /\ Parsed(SentOf(c)) = "all"
        BY <1>3, <1>5
    <2>2. 1 .. sent[c] - 1 = 1 .. Pieces
        BY <1>2, <2>1 DEF AllOf
    <2>3. sent[c] - 1 = Pieces
        BY <1>1, <2>2
    <2> QED BY <1>1, <2>1, <2>3
<1> QED BY <1>4, <1>5

\* The calls of a stream that came to its end.
LEMMA TakeCallsInv == ASSUME ClientInv, TakeCalls PROVE ClientInv'
<1>0. PICK tags \in [DOMAIN parts -> {"none", "tool", "block"}] :
        /\ phase = "ended" /\ closing' = tags
        /\ IF \E i \in Untorn(tags) : Parsed(parts[i]) = "broken"
           THEN Replied("raised", TRUE) /\ UNCHANGED taken
           ELSE /\ Replied("answer", TRUE)
                /\ \E s \in Ordered(Untorn(tags)) :
                     taken' = [k \in DOMAIN s |-> [use |-> parts[s[k]].name, args |-> Parsed(parts[s[k]])]]
        /\ UNCHANGED <<ask, attempt, speech, thinking, sent, parts, lastError>>
    BY DEF TakeCalls
<1>1. phase' = "done" /\ lastError # "overflow" /\ phase = "ended"
    BY <1>0 DEF Replied, ClientInv, Untold
<1> DEFINE broken == \E i \in Untorn(tags) : Parsed(parts[i]) = "broken"
<1>2. CASE broken
    <2>1. reply'.kind = "raised" /\ taken' = taken
        BY <1>0, <1>2 DEF Replied
    <2> QED BY <1>0, <1>1, <2>1, EndsWithout
<1>3. CASE ~broken
    <2>1. reply' = [kind |-> "answer", marked |-> TRUE]
        BY <1>0, <1>3 DEF Replied
    <2>2. PICK s \in Ordered(Untorn(tags)) :
            taken' = [k \in DOMAIN s |-> [use |-> parts[s[k]].name, args |-> Parsed(parts[s[k]])]]
        BY <1>0, <1>3
    <2>3. ClientTypeOK' /\ BegunInOrder'
        BY <1>0, <1>1 DEF ClientInv, ClientTypeOK, BegunInOrder, ClientPhases
    <2>4. PartsSent' /\ NotBegun' /\ Untold' /\ SpeechTagged'
        BY <1>0, <1>1 DEF ClientInv, PartsSent, NotBegun, Untold, SpeechTagged
    <2>5. ASSUME ask.indexed \/ ask.provider = "claude", ~ask.twins
          PROVE  /\ \A k, l \in 1 .. Len(taken') : k < l => taken'[k].use < taken'[l].use
                 /\ \A k \in 1 .. Len(taken') :
                       /\ taken'[k].use \in ToolUses
                       /\ sent[taken'[k].use] = IF taken'[k].args = "all" THEN Pieces + 1 ELSE 1
                 /\ \A c \in ToolUses : sent[c] > 0 =>
                       \/ \E k \in 1 .. Len(taken') : taken'[k].use = c
                       \/ tags[c] = "tool" \/ \E b \in 1 .. c : tags[b] = "block"
        <3>1. DOMAIN parts = Begun /\ \A c \in Begun : parts[c] = SentOf(c)
            BY <2>5, <1>1 DEF ClientInv, PartsSent
        <3>2. \A c \in Begun : parts[c].name = c /\ c \in ToolUses /\ c \in Nat /\ c # 0
            <4>1. \A c \in Begun : c \in ToolUses
                BY DEF Begun
            <4>2. PICK n \in Nat : ToolUses = 1 .. n
                BY ClientFits
            <4>3. \A c \in Begun : SentOf(c).name = c
                BY DEF SentOf
            <4> QED BY <3>1, <4>1, <4>2, <4>3
        <3>3. Untorn(tags) = {c \in Begun : ~Cut(tags, c)} /\ ById = Begun
            BY <2>5, <3>1, <3>2 DEF Untorn, ById
        <3> DEFINE left == Untorn(tags)
        <3>4. left \subseteq Begun /\ IsFiniteSet(left)
            <4>1. left \subseteq ToolUses /\ IsFiniteSet(ToolUses)
                BY <3>2, <3>3, AttemptsAssumption
            <4> QED BY <4>1, <3>3, FS_Subset
        <3>5. /\ s \in [1 .. Cardinality(left) -> left] /\ Cardinality(left) \in Nat
              /\ \A k, l \in 1 .. Cardinality(left) : k < l => s[k] < s[l]
            BY <2>2, <3>4, FS_CardinalityType DEF Ordered
        <3> HIDE DEF left
        <3>6. \A c \in left : \E k \in 1 .. Cardinality(left) : s[k] = c
            BY <3>2, <3>4, <3>5, AllOrdered
        <3>7. PICK m \in Nat : m = Cardinality(left) /\ s \in [1 .. m -> left]
            BY <3>5
        <3>8. taken' = [k \in 1 .. m |-> [use |-> s[k], args |-> Parsed(SentOf(s[k]))]]
            <4>1. \A k \in 1 .. m : parts[s[k]] = SentOf(s[k]) /\ parts[s[k]].name = s[k]
                BY <3>1, <3>2, <3>4, <3>7
            <4>2. DOMAIN s = 1 .. m
                BY <3>7
            <4> QED BY <4>1, <4>2, <2>2
        <3>9. Len(taken') = m /\ \A k \in 1 .. m : taken'[k].use = s[k] /\ taken'[k].args = Parsed(SentOf(s[k]))
            BY <3>8
        <3>10. ASSUME NEW k \in 1 .. m PROVE s[k] \in ToolUses /\ sent[s[k]] = IF taken'[k].args = "all" THEN Pieces + 1 ELSE 1
            <4>1. s[k] \in left /\ s[k] \in Begun
                BY <3>4, <3>7
            <4>2. Parsed(SentOf(s[k])) # "broken"
                BY <4>1, <1>3, <3>1 DEF left
            <4> QED BY <4>1, <4>2, <3>2, <3>9, ParsedSent DEF ClientInv
        <3>11. ASSUME NEW c \in ToolUses, sent[c] > 0, c \notin left
               PROVE  tags[c] = "tool" \/ \E b \in 1 .. c : tags[b] = "block"
            <4>1. c \in Begun /\ Cut(tags, c)
                BY <3>11, <3>3 DEF Begun, left
            <4>2. CASE tags[c] = "tool"
                BY <4>2
            <4>3. CASE \E b \in Begun : b <= c /\ tags[b] = "block"
                <5>1. PICK b \in Begun : b <= c /\ tags[b] = "block"
                    BY <4>3
                <5>2. b \in ToolUses /\ c \in ToolUses /\ \E n \in Nat : ToolUses = 1 .. n
                    BY <3>2, <5>1, ClientFits
                <5>3. b \in 1 .. c
                    BY <5>1, <5>2
                <5> QED BY <5>1, <5>3
            <4> QED BY <4>1, <4>2, <4>3, <3>3 DEF Cut
        <3>12. \A k, l \in 1 .. m : k < l => taken'[k].use < taken'[l].use
            BY <3>5, <3>7, <3>9
        <3>13. \A c \in ToolUses : sent[c] > 0 =>
                  (\E k \in 1 .. m : taken'[k].use = c) \/ tags[c] = "tool" \/ \E b \in 1 .. c : tags[b] = "block"
            BY <3>6, <3>7, <3>9, <3>11
        <3> QED BY <3>9, <3>10, <3>12, <3>13
    <2>6. CallsAsMade'
        BY <2>5, <1>0 DEF CallsAsMade
    <2> QED BY <2>3, <2>4, <2>6 DEF ClientInv
<1> QED BY <1>2, <1>3

LEMMA ClientStep == ClientInv /\ [ClientNext]_clientVars => ClientInv'
<1> SUFFICES ASSUME ClientInv, [ClientNext]_clientVars PROVE ClientInv'
    OBVIOUS
<1>0. phase # "done" => lastError # "overflow" /\ reply.kind # "answer"
    BY DEF ClientInv, Untold
<1>01. attempt \in 0 .. MaxAttempts - 1
    BY DEF ClientInv, ClientTypeOK
<1>1. CASE Begin
    <2>1. CASE phase' = "asking" /\ UNCHANGED reply
        BY <1>0, <1>01, <1>1, <2>1, GoesOn DEF Begin, ClientPhases
    <2>2. CASE Replied("raised", TRUE)
        BY <1>0, <1>1, <2>2, EndsWithout DEF Begin, Replied
    <2> QED BY <1>1, <2>1, <2>2 DEF Begin
<1>2. CASE RequestFails
    BY <1>2, ClientRaises DEF RequestFails
<1>3. CASE Invalid
    BY <1>0, <1>3, EndsWithout DEF Invalid, Replied
<1>4. CASE OpenAIAnswered
    BY <1>4, WholeInv
<1>5. CASE ClaudeAnswered
    BY <1>5, ClientRaises DEF ClaudeAnswered
<1>6. CASE StreamOpened
    BY <1>0, <1>01, <1>6, GoesOn DEF StreamOpened, ClientPhases
<1>7. CASE OpenAISpeaks
    BY <1>7, OpenAISpeaksInv
<1>8. CASE ClaudeSpeaks
    BY <1>8, ClaudeSpeaksInv
<1>9. CASE StreamBreaks
    BY <1>0, <1>9, EndsWithout DEF StreamBreaks, Replied
<1>10. CASE StreamEnds
    BY <1>0, <1>01, <1>10, GoesOn DEF StreamEnds, ClientPhases
<1>11. CASE TakeCalls
    BY <1>11, TakeCallsInv
<1>12. CASE \E c \in ToolUses : OpenAICollects(c)
    <2>1. PICK c \in ToolUses : OpenAICollects(c)
        BY <1>12
    <2>2. ToolPiece(c) /\ parts' = Put(parts, IF ask.indexed THEN c ELSE 0, CollectAt(IF ask.indexed THEN c ELSE 0, c))
          /\ ask.provider = "openai"
        BY <2>1 DEF OpenAICollects
    <2>3. CASE ask.indexed
        BY <2>2, <2>3, PieceInv
    <2>4. CASE ~ask.indexed
        BY <2>2, <2>4, PieceInv
    <2> QED BY <2>3, <2>4
<1>13. CASE \E c \in ToolUses : ClaudeCollects(c)
    <2>1. PICK c \in ToolUses : ClaudeCollects(c)
        BY <1>13
    <2>2. ToolPiece(c) /\ parts' = Put(parts, IF ask.twins THEN 1 ELSE c, CollectAt(IF ask.twins THEN 1 ELSE c, c))
        BY <2>1 DEF ClaudeCollects
    <2>3. CASE ask.twins
        BY <2>2, <2>3, PieceInv
    <2>4. CASE ~ask.twins
        BY <2>2, <2>4, PieceInv
    <2> QED BY <2>3, <2>4
<1>14. CASE UNCHANGED clientVars
    <2>1. ClientTypeOK' /\ BegunInOrder' /\ PartsSent' /\ NotBegun'
        BY <1>14 DEF clientVars, ClientInv, ClientTypeOK, BegunInOrder, PartsSent, SentOf, NotBegun, Begun
    <2>2. Untold' /\ SpeechTagged' /\ CallsAsMade'
        BY <1>14 DEF clientVars, ClientInv, Untold, SpeechTagged, CallsAsMade
    <2> QED BY <2>1, <2>2 DEF ClientInv
<1> QED BY <1>1, <1>2, <1>3, <1>4, <1>5, <1>6, <1>7, <1>8, <1>9, <1>10, <1>11, <1>12, <1>13, <1>14 DEF ClientNext

LEMMA ClientInvSound == ClientInv => ClientSound
<1> SUFFICES ASSUME ClientInv PROVE ClientSound
    OBVIOUS
<1>1. TextOutside
    BY DEF ClientInv, SpeechTagged, Balanced, Tags, TextOutside
<1>2. OverflowTold
    BY ClientFits DEF ClientInv, ClientTypeOK, Untold, OverflowTold
<1> QED BY <1>1, <1>2 DEF ClientInv, ClientSound

\* Whatever a provider sends and however often a request fails: of calls that have
\* ids of their own the agent takes, in their order and whole, all those that no
\* closing tag in their or earlier arguments cuts off; no text stands inside the
\* reasoning, and a request is not made again once its stream has begun
\* (openai_llm.py, claude_llm.py, react.py).
THEOREM ClientIsSound == ClientSpec => []ClientSound
<1>1. ClientInit => ClientInv
    BY ClientInitInv
<1>2. ClientInv /\ [ClientNext]_clientVars => ClientInv'
    BY ClientStep
<1>3. ClientInv => ClientSound
    BY ClientInvSound
<1> QED BY <1>1, <1>2, <1>3, PTL DEF ClientSpec

-----------------------------------------------------------------------------
(*****************************************************************************)
(* Embeddings and ranks: batches, attempts, and every answer in the place of *)
(* its text.                                                                 *)
(*****************************************************************************)

Adapters == EmbeddingModels \cup {AsQuery(m) : m \in EmbeddingModels} \cup RankModels
AdapterFits(a) ==
    /\ a.does \in {"encode", "query", "rank"} /\ a.size \in Nat
    /\ a.once \in BOOLEAN /\ a.indexed \in BOOLEAN /\ a.late \in BOOLEAN
    /\ a.once => a.size = MaxTexts /\ ~a.late
    /\ a.size = 0 => MaxTexts = 0
    /\ a.does = "query" => a.size = 1 /\ ~a.once
    /\ a.does # "rank" => a.malformed = "raise" /\ ~a.late
    /\ a.malformed # "raise" => a.once
    /\ a.does = "rank" => a.indexed
    /\ a.does # "rank" => ~a.rescales
    /\ a.does # "rank" /\ a.size = 1 /\ ~a.once => a.none \in {"raise", "either"} \/ (a.does = "query" /\ a.query = "list")
\* A query whose answer is the list of all vectors may have none.
Lists == adapter.does = "query" /\ adapter.query = "list"

LEMMA EmbeddingFits == ASSUME NEW m \in EmbeddingModels PROVE AdapterFits(m) /\ m.does = "encode" /\ AdapterFits(AsQuery(m))
<1>1. Scaled(1) = 1 /\ Scaled(16) = 3 /\ Scaled(8) = 2 /\ Scaled(4) = 2
    BY DEF Scaled
<1> USE <1>1, AskAssumption DEF AdapterFits, AsQuery, Batched, OneByOne
<1>2. CASE m = Batched
    BY <1>2
<1>3. CASE m = SILICONFLOWEmbed
    BY <1>3 DEF SILICONFLOWEmbed
<1>4. CASE m = BaiduYiyanEmbed
    BY <1>4 DEF BaiduYiyanEmbed
<1>5. CASE m = QWenEmbed
    BY <1>5 DEF QWenEmbed
<1>6. CASE m = OneByOne
    BY <1>6
<1>7. CASE m = ZhipuEmbed
    BY <1>7 DEF ZhipuEmbed
<1>8. CASE m = BAAIEmbedding
    BY <1>8 DEF BAAIEmbedding
<1>9. m \in {Batched, SILICONFLOWEmbed, BaiduYiyanEmbed, QWenEmbed, OneByOne, ZhipuEmbed, BAAIEmbedding}
    BY ONLY m \in EmbeddingModels DEF EmbeddingModels, OpenAIEmbed, CoHereEmbed, GeminiEmbed, MistralEmbed, NvidiaEmbed, VoyageEmbed, OllamaEmbed,
       BedrockEmbed, HuggingFaceEmbed
<1> QED BY <1>2, <1>3, <1>4, <1>5, <1>6, <1>7, <1>8, <1>9

LEMMA RankFits == ASSUME NEW m \in RankModels PROVE AdapterFits(m) /\ m.does = "rank"
<1>1. Scaled(1) = 1 /\ Scaled(16) = 3 /\ Scaled(8) = 2 /\ Scaled(4) = 2
    BY DEF Scaled
<1> USE <1>1, AskAssumption DEF AdapterFits, Batched, Ranked
<1>2. CASE m = Ranked
    BY <1>2
<1>3. CASE m = OpenAIRank
    BY <1>3 DEF OpenAIRank
<1>4. CASE m \in {VoyageRank, XinferenceRank}
    BY <1>4 DEF VoyageRank, XinferenceRank
<1>5. CASE m = GPUStackRank
    BY <1>5 DEF GPUStackRank
<1>6. CASE m = SiliconflowRank
    BY <1>6 DEF SiliconflowRank
<1>7. CASE m = HuggingfaceRank
    BY <1>7 DEF HuggingfaceRank
<1>8. m \in {Ranked, OpenAIRank, VoyageRank, XinferenceRank, GPUStackRank, SiliconflowRank, HuggingfaceRank}
    BY ONLY m \in RankModels DEF RankModels, CohereRank, QwenRank, NvidiaRank, BaiduYiyanRank
<1> QED BY <1>2, <1>3, <1>4, <1>5, <1>6, <1>7, <1>8

Reached == IF asking.next > asking.n THEN asking.n ELSE asking.next - 1
AskCalls == [n : Nat, next : Nat \ {0}, tries : Nat, asked : BOOLEAN, late : BOOLEAN,
             told : {"none", "done", "raised"}, got : Seq(Nat), missed : SUBSET Nat]
AskTypeOK ==
    /\ adapter \in Adapters
    /\ asking \in AskCalls
AskProgress ==
    /\ asking.next > 1 => asking.next > adapter.size
    /\ asking.next > 1 /\ adapter.once => asking.asked
    /\ IF adapter.does = "query" THEN asking.n = 1 /\ asking.next <= 2 ELSE asking.n <= MaxTexts
    /\ asking.told = "done" => ~asking.late /\ asking.next > asking.n
    /\ asking.late => adapter.late
VectorsKept ==
    adapter.does # "rank" =>
        /\ \A i \in 1 .. Len(asking.got) : asking.got[i] \in 1 .. asking.n /\ asking.got[i] < asking.next
        /\ \A i, j \in 1 .. Len(asking.got) : i < j => asking.got[i] < asking.got[j]
        /\ asking.missed = {} \/ (adapter.size = 1 /\ ~adapter.once /\ ~Lists) => Len(asking.got) = Reached
        /\ asking.next = 1 => Len(asking.got) = 0
        /\ adapter.size = 1 \/ (adapter.indexed /\ asking.n <= adapter.size) =>
               \A k \in 1 .. Len(asking.got) : asking.got[k] = k
ScoresKept ==
    adapter.does = "rank" =>
        /\ Len(asking.got) = asking.n
        /\ ~asking.late =>
             /\ asking.missed \subseteq 1 .. asking.next - 1
             /\ \A t \in 1 .. asking.n :
                    asking.got[t] = IF t >= asking.next \/ t \in asking.missed THEN 0 ELSE t
AskInv == AskTypeOK /\ AskProgress /\ VectorsKept /\ ScoresKept

LEMMA AskCallIs ==
    ASSUME NEW n \in Nat, NEW next \in Nat \ {0}, NEW tries \in Nat, NEW asked \in BOOLEAN, NEW late \in BOOLEAN,
           NEW told \in {"none", "done", "raised"}, NEW got \in Seq(Nat), NEW missed \in SUBSET Nat
    PROVE  [n |-> n, next |-> next, tries |-> tries, asked |-> asked, late |-> late, told |-> told, got |-> got,
            missed |-> missed] \in AskCalls
BY DEF AskCalls

LEMMA AdapterFacts == ASSUME AskTypeOK PROVE AdapterFits(adapter)
<1>1. CASE adapter \in EmbeddingModels
    BY <1>1, EmbeddingFits
<1>2. CASE \E m \in EmbeddingModels : adapter = AsQuery(m)
    BY <1>2, EmbeddingFits
<1>3. CASE adapter \in RankModels
    BY <1>3, RankFits
<1> QED BY <1>1, <1>2, <1>3 DEF AskTypeOK, AskCalls, Adapters

LEMMA AskInitInv == AskInit => AskInv
<1> SUFFICES ASSUME AskInit PROVE AskInv
    OBVIOUS
<1>1. adapter \in Adapters
    BY DEF AskInit, Adapters
<1>2. PICK n \in IF adapter.does = "query" THEN {1} ELSE 0 .. MaxTexts :
          asking = [n |-> n, next |-> 1, tries |-> 0, asked |-> FALSE, late |-> FALSE, told |-> "none",
                    got |-> IF adapter.does = "rank" THEN [t \in 1 .. n |-> 0] ELSE <<>>,
                    missed |-> {}]
    BY DEF AskInit
<1>3. n \in Nat /\ (IF adapter.does = "query" THEN n = 1 ELSE n <= MaxTexts)
    BY <1>2, AskAssumption
<1> DEFINE none == [t \in 1 .. n |-> 0]
<1>4. none \in Seq(Nat) /\ Len(none) = n /\ \A t \in 1 .. n : none[t] = 0
    <2>1. none \in [1 .. n -> Nat]
        OBVIOUS
    <2>2. none \in Seq(Nat)
        BY <2>1, <1>3
    <2>3. DOMAIN none = 1 .. n
        OBVIOUS
    <2> QED BY <2>2, <2>3, <1>3
<1> HIDE DEF none
<1>5. asking.got = IF adapter.does = "rank" THEN none ELSE <<>>
    BY <1>2 DEF none
<1>6. /\ asking.n = n /\ asking.next = 1 /\ asking.tries = 0 /\ asking.asked = FALSE /\ asking.late = FALSE
      /\ asking.told = "none" /\ asking.missed = {}
    BY <1>2
<1>61. asking = [n |-> asking.n, next |-> asking.next, tries |-> asking.tries, asked |-> asking.asked, late |-> asking.late,
                 told |-> asking.told, got |-> asking.got, missed |-> asking.missed]
    BY <1>2
<1>7. AskTypeOK
    <2>1. asking.got \in Seq(Nat)
        BY <1>4, <1>5
    <2>2. asking \in AskCalls
        <3>1. asking.n \in Nat /\ asking.next \in Nat \ {0} /\ asking.tries \in Nat /\ asking.asked \in BOOLEAN
              /\ asking.late \in BOOLEAN /\ asking.told \in {"none", "done", "raised"} /\ asking.missed \in SUBSET Nat
            <4>1. asking.n \in Nat /\ asking.next \in Nat \ {0} /\ asking.tries \in Nat
                BY ONLY <1>3, <1>6
            <4>2. asking.asked \in BOOLEAN /\ asking.late \in BOOLEAN /\ asking.told \in {"none", "done", "raised"}
                BY ONLY <1>6
            <4>3. asking.missed \in SUBSET Nat
                BY ONLY <1>6
            <4> QED BY ONLY <4>1, <4>2, <4>3
        <3>2. asking = [n |-> asking.n, next |-> asking.next, tries |-> asking.tries, asked |-> asking.asked, late |-> asking.late,
                   told |-> asking.told, got |-> asking.got, missed |-> asking.missed]
            BY ONLY <1>61
        <3> QED BY ONLY <2>1, <3>1, <3>2 DEF AskCalls
    <2> QED BY <1>1, <2>2 DEF AskTypeOK, AskCalls
<1>8. AskProgress
    BY <1>3, <1>6 DEF AskProgress
<1>9. VectorsKept
    BY <1>3, <1>5, <1>6 DEF VectorsKept, Reached
<1>10. ScoresKept
    BY <1>3, <1>4, <1>5, <1>6 DEF ScoresKept
<1> QED BY <1>7, <1>8, <1>9, <1>10 DEF AskInv

\* There is more to ask for only behind the last batch, or at the start.
LEMMA MoreFacts ==
    ASSUME AskInv, AskMore
    PROVE  /\ asking.told = "none" /\ (asking.next <= asking.n \/ (adapter.once /\ asking.next = 1))
           /\ asking.n <= adapter.size => asking.next = 1
<1>1. AdapterFits(adapter) /\ asking.next \in Nat \ {0} /\ asking.n \in Nat
    BY AdapterFacts DEF AskInv, AskTypeOK, AskCalls
<1> QED BY <1>1 DEF AskInv, AskMore, AskProgress, AdapterFits

\* The last text of the batch.
BatchEnd == IF asking.next + adapter.size - 1 < asking.n THEN asking.next + adapter.size - 1 ELSE asking.n
LEMMA BatchIs ==
    ASSUME AskTypeOK
    PROVE  /\ BatchTexts = asking.next .. BatchEnd /\ BatchEnd \in Int /\ asking.next \in Nat \ {0} /\ asking.n \in Nat /\ adapter.size \in Nat
           /\ BatchEnd <= asking.n /\ BatchEnd < asking.next + adapter.size
           /\ BatchTexts \subseteq Nat /\ IsFiniteSet(BatchTexts) /\ Cardinality(BatchTexts) \in Nat
           /\ \A t \in BatchTexts : t \in 1 .. asking.n /\ asking.next <= t /\ t < asking.next + adapter.size
           /\ Cardinality(BatchTexts) = IF asking.next > BatchEnd THEN 0 ELSE BatchEnd - asking.next + 1
<1>1. asking.next \in Nat \ {0} /\ asking.n \in Nat /\ adapter.size \in Nat
    BY AdapterFacts DEF AskTypeOK, AskCalls, AdapterFits
<1>2. BatchTexts = asking.next .. BatchEnd
    BY DEF BatchTexts, BatchEnd
<1>3. BatchEnd \in Int /\ asking.next \in Int /\ BatchEnd <= asking.n /\ BatchEnd < asking.next + adapter.size
    BY <1>1 DEF BatchEnd
<1>4. IsFiniteSet(asking.next .. BatchEnd)
      /\ Cardinality(asking.next .. BatchEnd) = IF asking.next > BatchEnd THEN 0 ELSE BatchEnd - asking.next + 1
    BY <1>3, FS_Interval
<1>5. \A t \in asking.next .. BatchEnd : t \in Nat /\ t \in 1 .. asking.n /\ asking.next <= t /\ t < asking.next + adapter.size
    BY <1>1, <1>3
<1>6. Cardinality(BatchTexts) \in Nat
    BY <1>2, <1>4, FS_CardinalityType
<1> QED BY <1>1, <1>2, <1>3, <1>4, <1>5, <1>6

\* What an answer adds to the vectors.
Gathered(s) == IF adapter.indexed THEN Placed(s) ELSE s
LEMMA AnswerIs ==
    ASSUME AskTypeOK, NEW s \in AnswerFor(BatchTexts)
    PROVE  /\ s \in Seq(Nat) /\ \A i \in 1 .. Len(s) : s[i] \in BatchTexts
           /\ \A i, j \in 1 .. Len(s) : i < j => IF adapter.indexed THEN s[i] # s[j] ELSE s[i] < s[j]
           /\ \A i, j \in 1 .. Len(s) : i # j => s[i] # s[j]
           /\ AnsweredFor(s) = {s[i] : i \in 1 .. Len(s)} /\ Len(s) \in Nat /\ DOMAIN s = 1 .. Len(s)
<1>1. PICK k \in 0 .. Cardinality(BatchTexts) : s \in [1 .. k -> BatchTexts]
    BY DEF AnswerFor
<1>2. k \in Nat /\ BatchTexts \subseteq Nat
    BY <1>1, BatchIs
<1>3. s \in Seq(Nat) /\ Len(s) = k /\ DOMAIN s = 1 .. k
    <2>1. s \in [1 .. k -> Nat]
        BY <1>1, <1>2
    <2> QED BY <2>1, <1>2
<1>4. \A i, j \in 1 .. k : i < j => IF adapter.indexed THEN s[i] # s[j] ELSE s[i] < s[j]
    BY <1>3 DEF AnswerFor
<1>5. \A i \in 1 .. k : s[i] \in BatchTexts /\ s[i] \in Nat
    BY <1>1, <1>2
<1>6. \A i, j \in 1 .. k : i # j => s[i] # s[j]
    BY <1>2, <1>4, <1>5
<1> QED BY <1>3, <1>4, <1>5, <1>6 DEF AnsweredFor

LEMMA WholeAnswer ==
    ASSUME AskTypeOK, NEW s \in AnswerFor(BatchTexts), BatchTexts \subseteq AnsweredFor(s)
    PROVE  Len(s) = Cardinality(BatchTexts)
<1>1. s \in [1 .. Len(s) -> BatchTexts]
    BY AnswerIs
<1>2. s \in Bijection(1 .. Len(s), BatchTexts)
    <2>1. \A t \in BatchTexts : \E i \in 1 .. Len(s) : s[i] = t
        BY AnswerIs
    <2>2. \A i, j \in DOMAIN s : s[i] = s[j] => i = j
        BY AnswerIs
    <2> QED BY <1>1, <2>1, <2>2 DEF Bijection, Injection, Surjection, IsInjective
<1>3. Cardinality(1 .. Len(s)) = Len(s) /\ IsFiniteSet(1 .. Len(s))
    <2>1. Len(s) \in Nat
        BY AnswerIs
    <2>2. 1 \in Int /\ Len(s) \in Int
        BY <2>1
    <2>3. IsFiniteSet(1 .. Len(s)) /\ Cardinality(1 .. Len(s)) = IF 1 > Len(s) THEN 0 ELSE Len(s) - 1 + 1
        BY <2>2, FS_Interval
    <2> QED BY <2>1, <2>3
<1> QED BY <1>2, <1>3, FS_Bijection DEF ExistsBijection

\* Answers that fit are placed without a gap.
LEMMA PlacedIs ==
    ASSUME AskTypeOK, NEW s \in AnswerFor(BatchTexts), adapter.indexed, Fits(s)
    PROVE  \A k \in 1 .. Len(s) : Placed(s)[k] = asking.next + k - 1
<1> DEFINE L == Len(s)
           f == [i \in 1 .. L |-> Position(s[i])]
<1>1. L \in Nat /\ asking.next \in Nat \ {0}
    BY AnswerIs DEF AskTypeOK, AskCalls
<1>2. \A i \in 1 .. L : s[i] \in Nat /\ asking.next <= s[i] /\ s[i] \in AnsweredFor(s)
    BY AnswerIs, BatchIs
<1>3. \A i \in 1 .. L : Position(s[i]) \in 1 .. L
    BY <1>1, <1>2 DEF Fits, Position
<1>4. f \in Injection(1 .. L, 1 .. L)
    <2>1. f \in [1 .. L -> 1 .. L]
        BY <1>3
    <2>2. ASSUME NEW i \in 1 .. L, NEW j \in 1 .. L, f[i] = f[j] PROVE i = j
        <3>1. s[i] = s[j]
            BY <1>1, <1>2, <2>2 DEF Position
        <3> QED BY <3>1, AnswerIs
    <2> QED BY <2>1, <2>2 DEF Injection, IsInjective
<1>5. f \in Surjection(1 .. L, 1 .. L)
    BY <1>1, <1>4, FS_Interval, FS_Injection
<1>6. ASSUME NEW k \in 1 .. L PROVE Placed(s)[k] = asking.next + k - 1
    <2>1. PICK i \in 1 .. L : f[i] = k
        BY <1>5 DEF Surjection
    <2>2. s[i] \in AnsweredFor(s) /\ Position(s[i]) = k
        BY <2>1, <1>2
    <2>3. \A t \in AnsweredFor(s) : t \in Nat
        BY <1>2, AnswerIs
    <2>4. Placed(s)[k] = CHOOSE t \in AnsweredFor(s) : Position(t) = k
        BY AnswerIs DEF Placed
    <2>5. Placed(s)[k] \in AnsweredFor(s) /\ Position(Placed(s)[k]) = k
        BY <2>2, <2>4
    <2> QED BY <2>3, <2>5, <1>1 DEF Position
<1> QED BY <1>6

LEMMA GatheredIs ==
    ASSUME AskTypeOK, NEW s \in AnswerFor(BatchTexts), s # <<>> /\ adapter.indexed => Fits(s)
    PROVE  LET g == Gathered(s) IN
           /\ g \in Seq(Nat) /\ Len(g) = Len(s) /\ \A i \in 1 .. Len(g) : g[i] \in BatchTexts
           /\ \A i, j \in 1 .. Len(g) : i < j => g[i] < g[j]
           /\ adapter.indexed => \A i \in 1 .. Len(g) : g[i] = asking.next + i - 1
<1>1. /\ s \in Seq(Nat) /\ \A i \in 1 .. Len(s) : s[i] \in BatchTexts
      /\ Len(s) \in Nat /\ DOMAIN s = 1 .. Len(s)
      /\ AnsweredFor(s) = {s[i] : i \in 1 .. Len(s)}
    BY AnswerIs
<1>2. CASE ~adapter.indexed
    <2>1. \A i, j \in 1 .. Len(s) : i < j => s[i] < s[j]
        BY <1>2, AnswerIs
    <2> QED BY <1>1, <1>2, <2>1 DEF Gathered
<1>3. CASE adapter.indexed /\ s = <<>>
    <2>1. Placed(s) = [k \in DOMAIN s |-> CHOOSE t \in AnsweredFor(s) : Position(t) = k]
        BY DEF Placed
    <2>2. DOMAIN Placed(s) = 1 .. 0
        BY <1>1, <1>3, <2>1
    <2>3. Placed(s) = <<>>
        BY <2>1, <2>2, <1>3
    <2>4. Gathered(s) = <<>>
        BY <1>3, <2>3 DEF Gathered
    <2> QED BY <2>4, <1>3
<1>4. CASE adapter.indexed /\ s # <<>>
    <2> DEFINE g == Placed(s)
    <2>1. g = [k \in DOMAIN s |-> CHOOSE t \in AnsweredFor(s) : Position(t) = k]
        BY DEF Placed
    <2>2. DOMAIN g = 1 .. Len(s)
        BY <1>1, <2>1
    <2>3. \A k \in 1 .. Len(s) : g[k] = asking.next + k - 1
        BY <1>4, PlacedIs
    <2>4. \A k \in 1 .. Len(s) : g[k] \in BatchTexts
        <3> SUFFICES ASSUME NEW k \in 1 .. Len(s) PROVE g[k] \in BatchTexts
            OBVIOUS
        <3>0. asking.next \in Nat \ {0}
            BY DEF AskTypeOK, AskCalls
        <3>1. Len(s) <= Cardinality(BatchTexts)
            <4>1. PICK n \in 0 .. Cardinality(BatchTexts) : s \in [1 .. n -> BatchTexts]
                BY DEF AnswerFor
            <4> QED BY <4>1, <1>1, BatchIs
        <3>2. k \in Nat /\ 1 <= k /\ k <= Cardinality(BatchTexts)
            BY <3>1, <1>1, BatchIs
        <3>3. asking.next + k - 1 \in asking.next .. BatchEnd
            BY <3>0, <3>2, BatchIs
        <3> QED BY <2>3, <3>3, BatchIs
    <2>5. asking.next \in Nat \ {0} /\ BatchTexts \subseteq Nat
        BY BatchIs DEF AskTypeOK, AskCalls
    <2>6. g \in Seq(Nat) /\ Len(g) = Len(s)
        <3>1. g \in [1 .. Len(s) -> Nat]
            BY <2>1, <2>2, <2>4, <2>5
        <3> QED BY <3>1, <1>1
    <2>7. Gathered(s) = g
        BY <1>4 DEF Gathered
    <2> HIDE DEF g
    <2>8. \A i, j \in 1 .. Len(g) : i < j => g[i] < g[j]
        BY <1>1, <2>3, <2>5, <2>6
    <2> QED BY <1>1, <2>3, <2>4, <2>6, <2>7, <2>8
<1> QED BY <1>2, <1>3, <1>4

\* What a step changes of the call.
LEMMA TookFields ==
    ASSUME AskTypeOK, NEW s \in AnswerFor(BatchTexts), Took(s)
    PROVE  /\ asking'.n = asking.n /\ asking'.next = asking.next + adapter.size /\ asking'.tries = 0 /\ asking'.asked = TRUE
           /\ asking'.late = asking.late /\ asking'.told = asking.told /\ asking'.got = Collected(s)
           /\ asking'.missed = asking.missed \cup (BatchTexts \ AnsweredFor(s))
           /\ asking' = [n |-> asking.n, next |-> asking.next + adapter.size, tries |-> 0, asked |-> TRUE, late |-> asking.late,
                         told |-> asking.told, got |-> Collected(s), missed |-> asking.missed \cup (BatchTexts \ AnsweredFor(s))]
<1> USE DEF AskTypeOK, AskCalls, Took
<1>1. /\ asking'.n = asking.n /\ asking'.next = asking.next + adapter.size /\ asking'.tries = 0 /\ asking'.asked = TRUE
      /\ asking'.late = asking.late /\ asking'.told = asking.told /\ asking'.got = Collected(s)
      /\ asking'.missed = asking.missed \cup (BatchTexts \ AnsweredFor(s))
    OBVIOUS
<1>2. asking' = [n |-> asking.n, next |-> asking.next + adapter.size, tries |-> 0, asked |-> TRUE, late |-> asking.late,
                 told |-> asking.told, got |-> Collected(s), missed |-> asking.missed \cup (BatchTexts \ AnsweredFor(s))]
    OBVIOUS
<1> QED BY ONLY <1>1, <1>2

\* The batch reaches from where the call is to where it will be.
LEMMA ReachedNext ==
    ASSUME AskInv, AskMore
    PROVE  LET next == asking.next + adapter.size IN
           /\ BatchEnd = IF next > asking.n THEN asking.n ELSE next - 1
           /\ Reached + Cardinality(BatchTexts) = BatchEnd
           /\ asking.next <= asking.n => Reached = asking.next - 1 /\ asking.next <= BatchEnd
           /\ asking.next > asking.n => asking.n = 0 /\ asking.next = 1 /\ adapter.once
<1>1. AdapterFits(adapter) /\ AskTypeOK
    BY AdapterFacts DEF AskInv
<1>2. asking.next \in Nat \ {0} /\ asking.n \in Nat /\ adapter.size \in Nat
    BY <1>1, BatchIs
<1>3. asking.next > asking.n => asking.n = 0 /\ asking.next = 1 /\ adapter.once
    BY <1>2, MoreFacts
<1>4. asking.next <= asking.n => adapter.size >= 1
    <2> SUFFICES ASSUME asking.next <= asking.n, adapter.size = 0 PROVE FALSE
        BY <1>2
    <2>1. MaxTexts = 0 /\ asking.n >= 1
        BY <1>1, <1>2 DEF AdapterFits
    <2>2. adapter.does = "query"
        BY <2>1, <1>2 DEF AskInv, AskProgress
    <2> QED BY <2>2, <1>1 DEF AdapterFits
<1>5. BatchEnd = IF asking.next + adapter.size > asking.n THEN asking.n ELSE asking.next + adapter.size - 1
    BY <1>2 DEF BatchEnd
<1>6. Cardinality(BatchTexts) = IF asking.next > BatchEnd THEN 0 ELSE BatchEnd - asking.next + 1
    BY <1>1, BatchIs
<1>7. CASE asking.next <= asking.n
    BY <1>2, <1>4, <1>5, <1>6, <1>7 DEF Reached
<1>8. CASE asking.next > asking.n
    BY <1>2, <1>3, <1>5, <1>6, <1>8 DEF Reached
<1> QED BY <1>2, <1>3, <1>5, <1>7, <1>8

\* The vectors of one more batch.
LEMMA TookVectors ==
    ASSUME AskInv, AskMore, adapter.does # "rank", NEW s \in AnswerFor(BatchTexts), s # <<>> /\ adapter.indexed => Fits(s),
           s = <<>> => ~(adapter.size = 1 /\ ~adapter.once /\ ~Lists), Took(s), adapter' = adapter
    PROVE  asking'.got \in Seq(Nat) /\ VectorsKept'
<1> DEFINE g == Gathered(s)
<1>0. AskTypeOK /\ VectorsKept /\ AdapterFits(adapter)
    BY AdapterFacts DEF AskInv
<1>1. /\ g \in Seq(Nat) /\ Len(g) = Len(s) /\ \A i \in 1 .. Len(g) : g[i] \in BatchTexts
      /\ \A i, j \in 1 .. Len(g) : i < j => g[i] < g[j]
      /\ adapter.indexed => \A i \in 1 .. Len(g) : g[i] = asking.next + i - 1
    BY <1>0, GatheredIs
<1>2. asking'.got = asking.got \o g
    BY <1>0, TookFields DEF Collected, Gathered
<1> HIDE DEF g
<1>3. asking.got \in Seq(Nat) /\ Len(asking.got) \in Nat /\ Len(g) \in Nat
    BY <1>0, <1>1 DEF AskTypeOK, AskCalls
<1>4. /\ asking'.got \in Seq(Nat) /\ Len(asking'.got) = Len(asking.got) + Len(g)
      /\ \A i \in 1 .. Len(asking.got) : asking'.got[i] = asking.got[i]
      /\ \A i \in 1 .. Len(g) : asking'.got[Len(asking.got) + i] = g[i]
      /\ \A i \in 1 .. Len(asking'.got) : i \in 1 .. Len(asking.got) \/ \E j \in 1 .. Len(g) : i = Len(asking.got) + j
    <2>1. /\ asking'.got \in Seq(Nat) /\ Len(asking'.got) = Len(asking.got) + Len(g)
          /\ \A i \in 1 .. Len(asking.got) + Len(g) :
                 asking'.got[i] = IF i <= Len(asking.got) THEN asking.got[i] ELSE g[i - Len(asking.got)]
        <3> DEFINE a == asking.got
        <3>1. a \in Seq(Nat) /\ g \in Seq(Nat) /\ asking'.got = a \o g
            BY <1>1, <1>2, <1>3
        <3> HIDE DEF a
        <3>2. /\ a \o g \in Seq(Nat) /\ Len(a \o g) = Len(a) + Len(g)
              /\ \A i \in 1 .. Len(a) + Len(g) : (a \o g)[i] = IF i <= Len(a) THEN a[i] ELSE g[i - Len(a)]
            BY ONLY <3>1, ConcatProperties
        <3> QED BY <3>1, <3>2 DEF a
    <2>2. \A i \in 1 .. Len(asking.got) : asking'.got[i] = asking.got[i]
        BY <2>1, <1>3
    <2>3. \A i \in 1 .. Len(g) : asking'.got[Len(asking.got) + i] = g[i]
        <3> SUFFICES ASSUME NEW i \in 1 .. Len(g) PROVE asking'.got[Len(asking.got) + i] = g[i]
            OBVIOUS
        <3>1. Len(asking.got) + i \in 1 .. Len(asking.got) + Len(g) /\ ~(Len(asking.got) + i <= Len(asking.got))
              /\ (Len(asking.got) + i) - Len(asking.got) = i
            BY <1>3
        <3> QED BY <3>1, <2>1
    <2>4. ASSUME NEW i \in 1 .. Len(asking'.got), i \notin 1 .. Len(asking.got)
          PROVE  \E j \in 1 .. Len(g) : i = Len(asking.got) + j
        <3>1. i - Len(asking.got) \in 1 .. Len(g) /\ i = Len(asking.got) + (i - Len(asking.got))
            BY <2>1, <2>4, <1>3
        <3> QED BY <3>1
    <2> QED BY <2>1, <2>2, <2>3, <2>4
<1>5. /\ asking.next \in Nat \ {0} /\ asking.n \in Nat /\ adapter.size \in Nat
      /\ \A t \in BatchTexts : t \in Nat /\ t \in 1 .. asking.n /\ asking.next <= t /\ t < asking.next + adapter.size
    BY <1>0, BatchIs
<1>6. asking'.n = asking.n /\ asking'.next = asking.next + adapter.size
      /\ asking'.missed = asking.missed \cup (BatchTexts \ AnsweredFor(s))
    BY <1>0, TookFields
<1>7. \A i \in 1 .. Len(asking.got) : asking.got[i] \in 1 .. asking.n /\ asking.got[i] < asking.next /\ asking.got[i] \in Nat
    BY <1>0, <1>5 DEF VectorsKept
<1>8. \A i \in 1 .. Len(asking'.got) : asking'.got[i] \in 1 .. asking'.n /\ asking'.got[i] < asking'.next
    <2> SUFFICES ASSUME NEW i \in 1 .. Len(asking'.got) PROVE asking'.got[i] \in 1 .. asking.n /\ asking'.got[i] < asking.next + adapter.size
        BY <1>6
    <2>1. CASE i \in 1 .. Len(asking.got)
        <3>1. asking'.got[i] = asking.got[i]
            BY <2>1, <1>4
        <3>2. asking.got[i] \in 1 .. asking.n /\ asking.got[i] < asking.next /\ asking.got[i] \in Nat
            BY <2>1, <1>7
        <3> QED BY <3>1, <3>2, <1>5
    <2>2. CASE \E j \in 1 .. Len(g) : i = Len(asking.got) + j
        BY <2>2, <1>1, <1>4, <1>5
    <2> QED BY <2>1, <2>2, <1>4
<1>9. \A i, j \in 1 .. Len(asking'.got) : i < j => asking'.got[i] < asking'.got[j]
    <2> SUFFICES ASSUME NEW i \in 1 .. Len(asking'.got), NEW j \in 1 .. Len(asking'.got), i < j
                 PROVE  asking'.got[i] < asking'.got[j]
        OBVIOUS
    <2>1. CASE i \in 1 .. Len(asking.got) /\ j \in 1 .. Len(asking.got)
        BY <2>1, <1>0, <1>4 DEF VectorsKept
    <2>2. CASE i \in 1 .. Len(asking.got) /\ \E y \in 1 .. Len(g) : j = Len(asking.got) + y
        <3>1. PICK y \in 1 .. Len(g) : j = Len(asking.got) + y
            BY <2>2
        <3>2. asking'.got[i] = asking.got[i] /\ asking'.got[j] = g[y]
            BY <2>2, <3>1, <1>4
        <3>3. asking.got[i] \in Nat /\ asking.got[i] < asking.next
            BY <2>2, <1>7
        <3>4. g[y] \in Nat /\ asking.next <= g[y]
            BY <1>1, <1>5
        <3> QED BY <3>2, <3>3, <3>4, <1>5
    <2>3. CASE /\ \E x \in 1 .. Len(g) : i = Len(asking.got) + x
               /\ \E y \in 1 .. Len(g) : j = Len(asking.got) + y
        <3>1. PICK x \in 1 .. Len(g) : i = Len(asking.got) + x
            BY <2>3
        <3>2. PICK y \in 1 .. Len(g) : j = Len(asking.got) + y
            BY <2>3
        <3>3. x < y
            BY <3>1, <3>2, <1>3
        <3> QED BY <3>1, <3>2, <3>3, <1>1, <1>4
    <2>4. CASE j \in 1 .. Len(asking.got) /\ \E x \in 1 .. Len(g) : i = Len(asking.got) + x
        BY <2>4, <1>3
    <2> QED BY <2>1, <2>2, <2>3, <2>4, <1>4
<1>10. Reached' = Reached + Cardinality(BatchTexts)
    <2>1. Reached' = BatchEnd
        BY <1>6, ReachedNext DEF Reached
    <2> QED BY <2>1, ReachedNext
<1>11. asking'.missed = {} \/ (adapter.size = 1 /\ ~adapter.once /\ ~Lists) => Len(asking'.got) = Reached'
    <2>1. CASE asking'.missed = {}
        <3>1. asking.missed = {} /\ BatchTexts \subseteq AnsweredFor(s)
            BY <1>6, <2>1
        <3>2. Len(asking.got) = Reached
            BY <3>1, <1>0 DEF VectorsKept
        <3>3. Len(g) = Cardinality(BatchTexts)
            BY <3>1, <1>0, <1>1, WholeAnswer
        <3> QED BY <3>2, <3>3, <1>4, <1>10
    <2>2. CASE adapter.size = 1 /\ ~adapter.once /\ ~Lists
        <3>1. Len(asking.got) = Reached
            BY <2>2, <1>0 DEF VectorsKept
        <3>2. Cardinality(BatchTexts) = 1
            <4>1. asking.next <= asking.n /\ asking.next <= BatchEnd
                BY <2>2, <1>5, ReachedNext
            <4>2. BatchEnd = asking.next
                BY <2>2, <4>1, <1>5 DEF BatchEnd
            <4> QED BY <4>2, <1>0, <1>5, BatchIs
        <3>3. Len(g) = 1
            <4>1. Len(s) # 0
                BY <2>2, <1>0, AnswerIs
            <4>2. Len(s) <= 1
                <5>1. PICK k \in 0 .. Cardinality(BatchTexts) : s \in [1 .. k -> BatchTexts]
                    BY DEF AnswerFor
                <5>2. Len(s) \in Nat /\ DOMAIN s = 1 .. Len(s) /\ DOMAIN s = 1 .. k
                    BY <5>1, <1>0, AnswerIs
                <5>3. k \in 0 .. 1
                    BY <5>1, <3>2
                <5> QED BY <5>2, <5>3
            <4> QED BY <4>1, <4>2, <1>1, <1>3
        <3> QED BY <3>1, <3>2, <3>3, <1>4, <1>10
    <2> QED BY <2>1, <2>2
<1>12. asking'.next = 1 => Len(asking'.got) = 0
    <2> SUFFICES ASSUME asking'.next = 1 PROVE Len(asking'.got) = 0
        OBVIOUS
    <2>1. asking.next = 1 /\ adapter.size = 0
        BY <1>5, <1>6
    <2>2. Len(asking.got) = 0
        BY <2>1, <1>0 DEF VectorsKept
    <2>3. BatchTexts = {}
        BY <2>1, <1>5
    <2>4. Len(g) = 0
        BY <2>3, <1>1, <1>3
    <2> QED BY <2>2, <2>4, <1>4
<1>13. adapter.size = 1 \/ (adapter.indexed /\ asking.n <= adapter.size) => \A k \in 1 .. Len(asking'.got) : asking'.got[k] = k
    <2> SUFFICES ASSUME adapter.size = 1 \/ (adapter.indexed /\ asking.n <= adapter.size)
                 PROVE  \A k \in 1 .. Len(asking'.got) : asking'.got[k] = k
        OBVIOUS
    <2>1. \A k \in 1 .. Len(asking.got) : asking.got[k] = k
        BY <1>0 DEF VectorsKept
    <2>2. Len(asking.got) = asking.next - 1
        <3>1. CASE asking.next = 1
            BY <3>1, <1>0 DEF VectorsKept
        <3>2. CASE asking.next # 1
            <4>1. asking.next <= asking.n /\ ~(asking.n <= adapter.size)
                BY <3>2, <1>5, MoreFacts
            <4>2. adapter.size = 1
                BY <4>1
            <4>3. ~adapter.once
                <5> SUFFICES ASSUME adapter.once PROVE FALSE
                    OBVIOUS
                <5>1. MaxTexts = 1 /\ ~(adapter.does = "query")
                    BY <4>2, <1>0 DEF AdapterFits
                <5>2. asking.n <= 1
                    BY <5>1 DEF AskInv, AskProgress
                <5> QED BY <4>1, <4>2, <5>2
            <4>4. ~Lists
                <5>1. adapter.does = "query" => asking.n = 1
                    BY DEF AskInv, AskProgress
                <5> QED BY <5>1, <4>1, <4>2 DEF Lists
            <4> QED BY <4>1, <4>2, <4>3, <4>4, <1>0, <1>5, ReachedNext DEF VectorsKept
        <3> QED BY <3>1, <3>2
    <2>3. \A i \in 1 .. Len(g) : g[i] = asking.next + i - 1
        <3>1. CASE adapter.indexed
            BY <3>1, <1>1
        <3>2. CASE adapter.size = 1
            <4>1. \A i \in 1 .. Len(g) : g[i] = asking.next
                BY <3>2, <1>1, <1>5
            <4>2. \A i \in 1 .. Len(g) : i = 1
                <5> SUFFICES ASSUME NEW i \in 1 .. Len(g), i # 1 PROVE FALSE
                    OBVIOUS
                <5>1. 1 \in 1 .. Len(g) /\ 1 < i
                    BY <1>3
                <5>2. g[1] < g[i]
                    BY <5>1, <1>1
                <5> QED BY <5>1, <5>2, <4>1, <1>5
            <4> QED BY <4>1, <4>2, <1>5
        <3> QED BY <3>1, <3>2
    <2>4. ASSUME NEW k \in 1 .. Len(asking'.got) PROVE asking'.got[k] = k
        <3>1. CASE k \in 1 .. Len(asking.got)
            BY <3>1, <2>1, <1>4
        <3>2. CASE \E j \in 1 .. Len(g) : k = Len(asking.got) + j
            BY <3>2, <2>2, <2>3, <1>4, <1>5
        <3> QED BY <3>1, <3>2, <1>4
    <2> QED BY <2>4
<1>14. Lists' <=> Lists
    BY DEF Lists
<1> QED BY <1>4, <1>6, <1>8, <1>9, <1>11, <1>12, <1>13, <1>14 DEF VectorsKept

\* The scores of one more batch.
LEMMA TookScores ==
    ASSUME AskInv, AskMore, adapter.does = "rank", NEW s \in AnswerFor(BatchTexts), Took(s), adapter' = adapter
    PROVE  asking'.got \in Seq(Nat) /\ ScoresKept'
<1>0. AskTypeOK /\ ScoresKept /\ AdapterFits(adapter)
    BY AdapterFacts DEF AskInv
<1>1. /\ asking.next \in Nat \ {0} /\ asking.n \in Nat /\ adapter.size \in Nat
      /\ BatchTexts = asking.next .. BatchEnd /\ BatchEnd \in Int
      /\ \A t \in BatchTexts : t \in Nat /\ t \in 1 .. asking.n /\ asking.next <= t /\ t < asking.next + adapter.size
    BY <1>0, BatchIs
<1>2. /\ asking'.n = asking.n /\ asking'.next = asking.next + adapter.size /\ asking'.late = asking.late
      /\ asking'.got = Scores(s) /\ asking'.missed = asking.missed \cup (BatchTexts \ AnsweredFor(s))
    BY <1>0, TookFields DEF Collected
<1>3. AnsweredFor(s) \subseteq BatchTexts
    BY <1>0, AnswerIs
<1> DEFINE score(t) == IF t \in AnsweredFor(s) THEN t ELSE asking.got[t]
<1>4. asking'.got = [t \in 1 .. asking.n |-> score(t)]
    <2>1. ASSUME NEW t \in 1 .. asking.n
          PROVE  (IF \E u \in AnsweredFor(s) : ScoreAt(u) = t THEN CHOOSE u \in AnsweredFor(s) : ScoreAt(u) = t ELSE asking.got[t]) = score(t)
        BY DEF ScoreAt
    <2> HIDE DEF score
    <2>2. Scores(s) = [t \in 1 .. asking.n |-> score(t)]
        BY <2>1, Zenon DEF Scores
    <2> QED BY <1>2, <2>2
<1>5. asking.got \in Seq(Nat) /\ Len(asking.got) = asking.n
    BY <1>0 DEF AskTypeOK, AskCalls, ScoresKept
<1>6. asking'.got \in [1 .. asking.n -> Nat]
    <2>1. \A t \in 1 .. asking.n : score(t) \in Nat
        BY <1>1, <1>3, <1>5
    <2> HIDE DEF score
    <2> QED BY <2>1, <1>4
<1>7. asking'.got \in Seq(Nat) /\ Len(asking'.got) = asking.n
    <2> HIDE DEF score
    <2>1. DOMAIN asking'.got = 1 .. asking.n
        BY <1>4
    <2> QED BY <1>6, <2>1, <1>1
<1>8. ASSUME ~asking.late
      PROVE  /\ asking'.missed \subseteq 1 .. asking'.next - 1
             /\ \A t \in 1 .. asking.n : asking'.got[t] = IF t >= asking'.next \/ t \in asking'.missed THEN 0 ELSE t
    <2>1. /\ asking.missed \subseteq 1 .. asking.next - 1
          /\ \A t \in 1 .. asking.n : asking.got[t] = IF t >= asking.next \/ t \in asking.missed THEN 0 ELSE t
        BY <1>0, <1>8 DEF ScoresKept
    <2>2. asking'.missed \subseteq 1 .. asking'.next - 1
        <3>0. asking'.next - 1 = asking.next + adapter.size - 1
            BY <1>1, <1>2
        <3> SUFFICES ASSUME NEW t \in asking'.missed PROVE t \in 1 .. asking.next + adapter.size - 1
            BY <3>0
        <3>1. CASE t \in asking.missed
            BY <3>1, <2>1, <1>1
        <3>2. CASE t \in BatchTexts
            BY <3>2, <1>1
        <3> QED BY <3>1, <3>2, <1>2
    <2>3. ASSUME NEW t \in 1 .. asking.n
          PROVE  asking'.got[t] = IF t >= asking'.next \/ t \in asking'.missed THEN 0 ELSE t
        <3>1. asking'.got[t] = IF t \in AnsweredFor(s) THEN t ELSE asking.got[t]
            BY <1>4
        <3> HIDE DEF score
        <3>2. asking.got[t] = IF t >= asking.next \/ t \in asking.missed THEN 0 ELSE t
            BY <2>1
        <3>3. CASE t \in BatchTexts
            <4>1. asking.next <= t /\ t < asking.next + adapter.size /\ t \notin asking.missed
                BY <3>3, <2>1, <1>1
            <4>2. t \in asking'.missed <=> t \notin AnsweredFor(s)
                BY <4>1, <3>3, <1>2
            <4> QED BY <4>1, <4>2, <3>1, <3>2, <1>1, <1>2
        <3>4. CASE t \notin BatchTexts
            <4>1. asking'.got[t] = asking.got[t] /\ (t \in asking'.missed <=> t \in asking.missed)
                BY <3>1, <3>4, <1>2, <1>3
            <4>2. t < asking.next \/ t >= asking.next + adapter.size
                BY <3>4, <1>1 DEF BatchEnd
            <4> QED BY <4>1, <4>2, <3>2, <2>1, <1>1, <1>2
        <3> QED BY <3>3, <3>4
    <2> QED BY <2>2, <2>3
<1> QED BY <1>2, <1>7, <1>8 DEF ScoresKept

\* A batch is behind.
LEMMA TookInv ==
    ASSUME AskInv, AskMore, NEW s \in AnswerFor(BatchTexts), Took(s), adapter' = adapter,
           adapter.does # "rank" => /\ s # <<>> /\ adapter.indexed => Fits(s)
                                    /\ s = <<>> => ~(adapter.size = 1 /\ ~adapter.once /\ ~Lists)
    PROVE  AskInv'
<1>0. AskTypeOK /\ AskProgress /\ AdapterFits(adapter)
    BY AdapterFacts DEF AskInv
<1>1. /\ asking.next \in Nat \ {0} /\ asking.n \in Nat /\ adapter.size \in Nat /\ BatchTexts \subseteq Nat
    BY <1>0, BatchIs
<1>2. asking'.got \in Seq(Nat) /\ VectorsKept' /\ ScoresKept'
    <2>1. CASE adapter.does # "rank"
        <3>1. ScoresKept'
            BY <2>1 DEF ScoresKept
        <3> QED BY <2>1, <3>1, TookVectors
    <2>2. CASE adapter.does = "rank"
        <3>1. VectorsKept'
            BY <2>2 DEF VectorsKept
        <3> QED BY <2>2, <3>1, TookScores
    <2> QED BY <2>1, <2>2
<1>3. /\ asking'.n = asking.n /\ asking'.next = asking.next + adapter.size /\ asking'.tries = 0 /\ asking'.asked = TRUE
      /\ asking'.late = asking.late /\ asking'.told = asking.told
      /\ asking'.missed = asking.missed \cup (BatchTexts \ AnsweredFor(s))
      /\ asking' = [n |-> asking.n, next |-> asking.next + adapter.size, tries |-> 0, asked |-> TRUE, late |-> asking.late,
                    told |-> asking.told, got |-> asking'.got, missed |-> asking'.missed]
    <2>1. /\ asking'.n = asking.n /\ asking'.next = asking.next + adapter.size /\ asking'.tries = 0 /\ asking'.asked = TRUE
          /\ asking'.late = asking.late /\ asking'.told = asking.told /\ asking'.got = Collected(s)
          /\ asking'.missed = asking.missed \cup (BatchTexts \ AnsweredFor(s))
          /\ asking' = [n |-> asking.n, next |-> asking.next + adapter.size, tries |-> 0, asked |-> TRUE, late |-> asking.late,
                         told |-> asking.told, got |-> Collected(s), missed |-> asking.missed \cup (BatchTexts \ AnsweredFor(s))]
        BY <1>0, TookFields
    <2> QED BY ONLY <2>1
<1>4. AskTypeOK'
    <2>1. /\ asking.n \in Nat /\ asking.next + adapter.size \in Nat \ {0} /\ asking.late \in BOOLEAN
          /\ asking.told \in {"none", "done", "raised"} /\ asking'.missed \subseteq Nat
        BY <1>0, <1>1, <1>3 DEF AskTypeOK, AskCalls
    <2>2. asking' \in AskCalls
        <3>1. asking'.got \in Seq(Nat) /\ asking'.missed \in SUBSET Nat
            BY <1>2, <2>1
        <3>2. asking' = [n |-> asking.n, next |-> asking.next + adapter.size, tries |-> 0, asked |-> TRUE, late |-> asking.late,
                    told |-> asking.told, got |-> asking'.got, missed |-> asking'.missed]
            BY <1>3
        <3>3. asking.next + adapter.size \in Nat \ {0}
            BY <2>1
        <3>4. 0 \in Nat /\ TRUE \in BOOLEAN
            OBVIOUS
        <3> DEFINE n == asking.n  next == asking.next + adapter.size  late == asking.late  told == asking.told
                   got == asking'.got  missed == asking'.missed
        <3>5. n \in Nat /\ next \in Nat \ {0} /\ late \in BOOLEAN /\ told \in {"none", "done", "raised"}
              /\ got \in Seq(Nat) /\ missed \in SUBSET Nat
            BY <2>1, <3>1, <3>3
        <3>6. asking' = [n |-> n, next |-> next, tries |-> 0, asked |-> TRUE, late |-> late, told |-> told, got |-> got,
                         missed |-> missed]
            BY <3>2
        <3> HIDE DEF n, next, late, told, got, missed
        <3>7. asking' \in AskCalls
            BY ONLY <3>4, <3>5, <3>6, AskCallIs
        <3> QED BY ONLY <3>7 DEF AskCalls
    <2> QED BY <1>0, <2>2 DEF AskTypeOK, AskCalls
<1>5. AskProgress'
    <2>1. asking'.next > 1 => asking'.next > adapter.size
        BY <1>1, <1>3
    <2>2. IF adapter.does = "query" THEN asking'.n = 1 /\ asking'.next <= 2 ELSE asking'.n <= MaxTexts
        <3>1. CASE adapter.does = "query"
            <4>1. asking.n = 1 /\ adapter.size = 1 /\ ~adapter.once
                BY <3>1, <1>0 DEF AskProgress, AdapterFits
            <4>2. asking.next <= 1
                BY <4>1, MoreFacts
            <4> QED BY <3>1, <4>1, <4>2, <1>1, <1>3
        <3>2. CASE adapter.does # "query"
            BY <3>2, <1>0, <1>3 DEF AskProgress
        <3> QED BY <3>1, <3>2
    <2>3. asking'.told # "done"
        BY <1>3, MoreFacts
    <2>4. asking'.late => adapter.late
        BY <1>0, <1>3 DEF AskProgress
    <2> QED BY <1>3, <2>1, <2>2, <2>3, <2>4 DEF AskProgress
<1> QED BY <1>2, <1>4, <1>5 DEF AskInv

\* A step that leaves what was collected.
LEMMA RestInv ==
    ASSUME AskInv, adapter' = adapter, NEW told \in {"none", "done", "raised"}, NEW tries \in Nat,
           asking' = [asking EXCEPT !.told = told] \/ asking' = [asking EXCEPT !.tries = tries] \/ asking' = asking,
           asking'.told = "done" => ~asking.late /\ asking.next > asking.n
    PROVE  AskInv'
<1>1. /\ asking'.n = asking.n /\ asking'.next = asking.next /\ asking'.asked = asking.asked
      /\ asking'.late = asking.late /\ asking'.got = asking.got /\ asking'.missed = asking.missed
    BY DEF AskInv, AskTypeOK, AskCalls
<1>2. AskTypeOK'
    BY DEF AskInv, AskTypeOK, AskCalls
<1>3. AskProgress'
    BY <1>1 DEF AskInv, AskProgress
<1>4. VectorsKept'
    BY <1>1 DEF AskInv, VectorsKept, Reached, Lists
<1>5. ScoresKept'
    BY <1>1 DEF AskInv, ScoresKept
<1> QED BY <1>2, <1>3, <1>4, <1>5 DEF AskInv

LEMMA AskRaiseInv == ASSUME AskInv, AskMore, AskRaise, adapter' = adapter PROVE AskInv'
<1>1. asking'.told = "raised" /\ asking' = [asking EXCEPT !.told = "raised"]
    BY DEF AskRaise, AskInv, AskTypeOK, AskCalls
<1>2. 0 \in Nat
    OBVIOUS
<1> QED BY <1>1, <1>2, RestInv

\* An attempt failed: one more, or the error is raised or kept.
LEMMA TriedAgainInv == ASSUME AskInv, AskMore, TriedAgain, adapter' = adapter PROVE AskInv'
<1>0. AskTypeOK /\ AdapterFits(adapter) /\ asking.told = "none"
    BY AdapterFacts, MoreFacts DEF AskInv
<1>1. CASE asking.tries + 1 < ModelAttempts
    <2>1. asking.tries + 1 \in Nat
        BY <1>0 DEF AskTypeOK, AskCalls
    <2>2. asking' = [asking EXCEPT !.tries = asking.tries + 1] /\ asking'.told = "none"
        BY <1>0, <1>1 DEF TriedAgain, AskTypeOK, AskCalls
    <2> QED BY <2>1, <2>2, RestInv
<1>2. CASE ~(asking.tries + 1 < ModelAttempts) /\ ~adapter.late
    <2>1. AskRaise
        BY <1>2 DEF TriedAgain, GivenUp, AskRaise
    <2> QED BY <2>1, AskRaiseInv
<1>3. CASE ~(asking.tries + 1 < ModelAttempts) /\ adapter.late
    <2>1. adapter.does = "rank" /\ ~adapter.once
        BY <1>0, <1>3 DEF AdapterFits
    <2>2. /\ asking.next \in Nat \ {0} /\ asking.n \in Nat /\ adapter.size \in Nat
        BY <1>0, BatchIs
    <2>3. asking' = [asking EXCEPT !.late = TRUE, !.next = asking.next + adapter.size, !.tries = 0]
        BY <1>3 DEF TriedAgain, GivenUp
    <2>4. /\ asking'.n = asking.n /\ asking'.next = asking.next + adapter.size /\ asking'.late = TRUE
          /\ asking'.told = "none" /\ asking'.got = asking.got
        BY <1>0, <2>3 DEF AskTypeOK, AskCalls
    <2>5. AskTypeOK'
        <3>1. asking.next + adapter.size \in Nat \ {0}
            BY <2>2
        <3> QED BY <1>0, <2>3, <3>1 DEF AskTypeOK, AskCalls
    <2>6. AskProgress'
        BY <1>0, <1>3, <2>1, <2>2, <2>4 DEF AskInv, AskProgress
    <2>7. VectorsKept'
        BY <2>1 DEF VectorsKept
    <2>8. ScoresKept'
        BY <2>4 DEF AskInv, ScoresKept
    <2> QED BY <2>5, <2>6, <2>7, <2>8 DEF AskInv
<1> QED BY <1>1, <1>2, <1>3

\* An answer that cannot be used, to a request for all scores: they stay zero.
LEMMA ZeroInv ==
    ASSUME AskInv, AskMore, adapter.malformed # "raise", adapter' = adapter,
           asking' = [asking EXCEPT !.asked = TRUE, !.next = @ + adapter.size, !.missed = BatchTexts]
    PROVE  AskInv'
<1>0. AskTypeOK /\ AdapterFits(adapter) /\ AskProgress /\ asking.told = "none"
    BY AdapterFacts, MoreFacts DEF AskInv
<1>1. adapter.does = "rank" /\ adapter.once /\ adapter.size = MaxTexts /\ asking.n <= adapter.size /\ asking.next = 1
    <2>1. adapter.does = "rank" /\ adapter.once /\ adapter.size = MaxTexts
        BY <1>0 DEF AdapterFits
    <2>2. asking.n <= adapter.size
        BY <2>1, <1>0 DEF AskProgress
    <2> QED BY <2>1, <2>2, MoreFacts
<1>2. /\ asking.n \in Nat /\ adapter.size \in Nat /\ BatchTexts \subseteq Nat /\ BatchTexts = 1 .. BatchEnd
    BY <1>0, <1>1, BatchIs
<1>3. BatchTexts = 1 .. asking.n
    BY <1>1, <1>2 DEF BatchEnd
<1>4. /\ asking'.n = asking.n /\ asking'.next = 1 + adapter.size /\ asking'.late = asking.late /\ asking'.asked = TRUE
      /\ asking'.told = "none" /\ asking'.got = asking.got /\ asking'.missed = BatchTexts
    BY <1>0, <1>1 DEF AskTypeOK, AskCalls
<1>5. AskTypeOK'
    <2>1. asking.next + adapter.size \in Nat \ {0} /\ BatchTexts \in SUBSET Nat
        BY <1>1, <1>2
    <2> QED BY <1>0, <2>1 DEF AskTypeOK, AskCalls
<1>6. AskProgress'
    BY <1>0, <1>1, <1>2, <1>4 DEF AskProgress
<1>7. VectorsKept'
    BY <1>1 DEF VectorsKept
<1>8. ScoresKept'
    <2>1. ~asking.late => \A t \in 1 .. asking.n : asking.got[t] = 0
        BY <1>1, <1>2 DEF AskInv, ScoresKept
    <2>2. Len(asking.got) = asking.n
        BY <1>1 DEF AskInv, ScoresKept
    <2>3. 1 .. asking.n \subseteq 1 .. (1 + adapter.size) - 1
        BY <1>1, <1>2
    <2> QED BY <1>3, <1>4, <2>1, <2>2, <2>3 DEF ScoresKept
<1> QED BY <1>5, <1>6, <1>7, <1>8 DEF AskInv

LEMMA AskStep == AskInv /\ [AskNext]_askVars => AskInv'
<1> SUFFICES ASSUME AskInv, [AskNext]_askVars PROVE AskInv'
    OBVIOUS
<1>0. AskTypeOK /\ AdapterFits(adapter)
    BY AdapterFacts DEF AskInv
<1>1. CASE AskReturn
    <2>1. adapter' = adapter /\ ~AskMore /\ asking.told = "none"
          /\ asking' = [asking EXCEPT !.told = IF asking.late THEN "raised" ELSE "done"]
        BY <1>1 DEF AskReturn
    <2>2. asking.n \in Nat /\ asking.next \in Nat
        BY <1>0 DEF AskTypeOK, AskCalls
    <2>3. asking.next > asking.n
        BY <2>1, <2>2 DEF AskMore
    <2>4. asking'.told = IF asking.late THEN "raised" ELSE "done"
        BY <1>0, <2>1 DEF AskTypeOK, AskCalls
    <2>5. (IF asking.late THEN "raised" ELSE "done") \in {"none", "done", "raised"} /\ 0 \in Nat
        OBVIOUS
    <2> QED BY <2>1, <2>3, <2>4, <2>5, RestInv
<1>2. CASE ServiceAnswers
    <2>1. PICK s \in AnswerFor(BatchTexts) :
              /\ AskMore /\ adapter' = adapter
              /\ IF ~adapter.counts THEN AskRaise
                 ELSE IF s = <<>> THEN NothingCame
                 ELSE IF adapter.indexed /\ adapter.does # "rank" /\ ~Fits(s) THEN AskRaise ELSE Took(s)
        BY <1>2 DEF ServiceAnswers
    <2>2. AskRaise => AskInv'
        BY <2>1, AskRaiseInv
    <2>3. TriedAgain => AskInv'
        BY <2>1, TriedAgainInv
    <2>4. CASE s = <<>> /\ NothingCame
        <3>1. ASSUME Took(<<>>), adapter.none = "again" \/ adapter.none = "kept" \/ adapter.does = "rank" PROVE AskInv'
            <4>1. adapter.does # "rank" => ~(adapter.size = 1 /\ ~adapter.once /\ ~Lists)
                BY <1>0, <3>1 DEF AdapterFits, Lists
            <4> QED BY <2>1, <2>4, <3>1, <4>1, TookInv
        <3>2. \/ AskRaise \/ TriedAgain
              \/ Took(<<>>) /\ (adapter.none = "again" \/ adapter.none = "kept" \/ adapter.does = "rank")
            BY <2>4 DEF NothingCame
        <3> QED BY <2>2, <2>3, <3>1, <3>2
    <2>5. CASE s # <<>> /\ Took(s) /\ (adapter.indexed /\ adapter.does # "rank" => Fits(s))
        BY <2>1, <2>5, TookInv
    <2> QED BY <2>1, <2>2, <2>4, <2>5
<1>3. CASE Malformed
    <2>1. AskMore /\ adapter' = adapter
        BY <1>3 DEF Malformed
    <2>2. \/ TriedAgain \/ AskRaise
          \/ adapter.malformed # "raise" /\ asking' = [asking EXCEPT !.asked = TRUE, !.next = @ + adapter.size, !.missed = BatchTexts]
        BY <1>3 DEF Malformed
    <2> QED BY <2>1, <2>2, TriedAgainInv, AskRaiseInv, ZeroInv
<1>4. CASE ServiceFails
    <2>1. AskMore /\ adapter' = adapter /\ (TriedAgain \/ AskRaise)
        BY <1>4 DEF ServiceFails
    <2> QED BY <2>1, TriedAgainInv, AskRaiseInv
<1>5. CASE UNCHANGED askVars
    <2>1. adapter' = adapter /\ asking' = asking
        BY <1>5 DEF askVars
    <2>2. asking.told = "done" => ~asking.late /\ asking.next > asking.n
        BY DEF AskInv, AskProgress
    <2>3. "none" \in {"none", "done", "raised"} /\ 0 \in Nat
        OBVIOUS
    <2> QED BY <2>1, <2>2, <2>3, RestInv
<1> QED BY <1>1, <1>2, <1>3, <1>4, <1>5 DEF AskNext

\* What is returned is what was collected, but for scores that are moved and
\* for a number of a vector.
Moved ==
    /\ \A t, u \in 1 .. asking.n : asking.got[t] # 0 /\ asking.got[u] # 0 =>
          returned[t] - returned[u] = asking.got[t] - asking.got[u]
    /\ \A t, u \in 1 .. asking.n : asking.got[t] = 0 /\ asking.got[u] = 0 => returned[t] = returned[u]
ReturnedIs ==
    asking.told = "done" =>
        /\ adapter.rescales => Moved
        /\ ~adapter.rescales =>
              returned = IF adapter.does = "query" /\ adapter.query = "number" THEN <<>> ELSE asking.got

LEMMA ReturnMoves == ASSUME AskInv, adapter.does = "rank", Rescaled, asking'.n = asking.n, asking'.got = asking.got PROVE Moved'
<1>1. AskTypeOK /\ Len(asking.got) = asking.n
    BY DEF AskInv, ScoresKept
<1>2. asking.n \in Nat /\ asking.got \in Seq(Nat) /\ MaxTexts \in Nat
    BY <1>1, AskAssumption DEF AskTypeOK, AskCalls
<1>3. PICK low \in 0 .. MaxTexts + 1, first \in 1 .. asking.n :
        returned' = [t \in 1 .. asking.n |-> ScoreFrom(low, t) - ScoreFrom(low, first)]
    BY DEF Rescaled
<1>4. \A t \in 1 .. asking.n : asking.got[t] \in Nat
    BY <1>1, <1>2
<1>5. low \in Int /\ \A t \in 1 .. asking.n : ScoreFrom(low, t) \in Int
    BY <1>2, <1>4 DEF ScoreFrom
<1>6. PICK least \in Int : least = ScoreFrom(low, first)
    BY <1>5
<1>7. \A t \in 1 .. asking.n : returned'[t] = ScoreFrom(low, t) - least
    BY <1>3, <1>6
<1>8. \A t, u \in 1 .. asking.n : asking.got[t] # 0 /\ asking.got[u] # 0 =>
         returned'[t] - returned'[u] = asking.got[t] - asking.got[u]
    BY <1>4, <1>5, <1>7 DEF ScoreFrom
<1>9. \A t, u \in 1 .. asking.n : asking.got[t] = 0 /\ asking.got[u] = 0 => returned'[t] = returned'[u]
    BY <1>7 DEF ScoreFrom
<1> QED BY <1>8, <1>9 DEF Moved

LEMMA ReturnStep == AskInv /\ ReturnedIs /\ [AskNext]_askVars => ReturnedIs'
<1> SUFFICES ASSUME AskInv, ReturnedIs, [AskNext]_askVars PROVE ReturnedIs'
    OBVIOUS
<1>0. AskTypeOK /\ AdapterFits(adapter)
    BY AdapterFacts DEF AskInv
<1>1. CASE AskReturn
    <2>1. adapter' = adapter /\ asking'.n = asking.n /\ asking'.got = asking.got
        BY <1>0, <1>1 DEF AskReturn, AskTypeOK, AskCalls
    <2>2. CASE adapter.rescales /\ Rescaled
        <3>1. adapter.does = "rank"
            BY <1>0, <2>2 DEF AdapterFits
        <3>2. Moved'
            BY <2>1, <2>2, <3>1, ReturnMoves
        <3> QED BY <2>1, <2>2, <3>2 DEF ReturnedIs
    <2>3. CASE ~adapter.rescales
        <3>1. returned' = IF adapter.does = "query" /\ adapter.query = "number" THEN <<>> ELSE asking.got
            BY <1>1, <2>3 DEF AskReturn
        <3> QED BY <2>1, <2>3, <3>1 DEF ReturnedIs
    <2> QED BY <1>1, <2>2, <2>3 DEF AskReturn
<1>2. AskRaise => asking'.told # "done"
    BY <1>0 DEF AskRaise, AskTypeOK, AskCalls
<1>3. AskMore /\ TriedAgain => asking'.told # "done"
    BY <1>0 DEF AskMore, TriedAgain, GivenUp, AskTypeOK, AskCalls
<1>4. \A s : AskMore /\ Took(s) => asking'.told # "done"
    BY <1>0 DEF AskMore, Took, AskTypeOK, AskCalls
<1>5. CASE ServiceAnswers
    <2>1. AskMore /\ (AskRaise \/ TriedAgain \/ \E s : Took(s))
        BY <1>5 DEF ServiceAnswers, NothingCame
    <2> QED BY <2>1, <1>2, <1>3, <1>4 DEF ReturnedIs
<1>6. CASE Malformed
    <2>1. AskMore /\ (TriedAgain \/ AskRaise
             \/ asking' = [asking EXCEPT !.asked = TRUE, !.next = @ + adapter.size, !.missed = BatchTexts])
        BY <1>6 DEF Malformed
    <2>2. AskMore /\ asking' = [asking EXCEPT !.asked = TRUE, !.next = @ + adapter.size, !.missed = BatchTexts] => asking'.told # "done"
        BY <1>0 DEF AskMore, AskTypeOK, AskCalls
    <2> QED BY <2>1, <2>2, <1>2, <1>3 DEF ReturnedIs
<1>7. CASE ServiceFails
    <2>1. AskMore /\ (TriedAgain \/ AskRaise)
        BY <1>7 DEF ServiceFails
    <2> QED BY <2>1, <1>2, <1>3 DEF ReturnedIs
<1>8. CASE UNCHANGED askVars
    BY <1>8 DEF askVars, ReturnedIs, Moved
<1> QED BY <1>1, <1>5, <1>6, <1>7, <1>8 DEF AskNext

LEMMA AskInvSound == AskInv /\ ReturnedIs => AdaptersSound
<1> SUFFICES ASSUME AskInv, ReturnedIs PROVE AdaptersSound
    OBVIOUS
<1>0. AskTypeOK /\ AskProgress /\ VectorsKept /\ ScoresKept /\ AdapterFits(adapter)
    BY AdapterFacts DEF AskInv
<1>1. asking.got \in Seq(Nat) /\ DOMAIN asking.got = 1 .. Len(asking.got) /\ asking.next \in Nat \ {0} /\ asking.n \in Nat
    BY <1>0 DEF AskTypeOK, AskCalls
<1>2. asking.told = "done" => ~asking.late /\ asking.next > asking.n /\ Reached = asking.n
    BY <1>0, <1>1 DEF AskProgress, Reached
<1>3. adapter.does = "encode" /\ asking.told = "done" => returned = asking.got
    BY <1>0 DEF ReturnedIs, AdapterFits
<1>4. VectorsInOrder
    BY <1>0, <1>1, <1>2, <1>3 DEF VectorsInOrder, VectorsKept
<1>5. VectorsPlaced
    BY <1>0, <1>1, <1>2, <1>3 DEF VectorsPlaced, VectorsKept
<1>6. ScoresOwn
    <2> SUFFICES ASSUME adapter.does = "rank", asking.told = "done"
                 PROVE  /\ ~adapter.rescales => \A t \in 1 .. asking.n : returned[t] = IF t \in asking.missed THEN 0 ELSE t
                        /\ \A t, u \in (1 .. asking.n) \ asking.missed : returned[t] - returned[u] = t - u
                        /\ \A t, u \in 1 .. asking.n : t \in asking.missed /\ u \in asking.missed => returned[t] = returned[u]
                        /\ ~asking.late
        BY DEF ScoresOwn
    <2>1. \A t \in 1 .. asking.n : asking.got[t] = IF t \in asking.missed THEN 0 ELSE t
        BY <1>0, <1>1, <1>2 DEF ScoresKept
    <2>2. CASE ~adapter.rescales
        <3>1. returned = asking.got
            BY <2>2 DEF ReturnedIs
        <3> QED BY <1>2, <2>1, <2>2, <3>1
    <2>3. CASE adapter.rescales
        <3>1. Moved
            BY <2>3 DEF ReturnedIs
        <3>2. \A t \in (1 .. asking.n) \ asking.missed : asking.got[t] = t /\ asking.got[t] # 0
            BY <2>1
        <3>3. \A t \in 1 .. asking.n : t \in asking.missed => asking.got[t] = 0
            BY <2>1
        <3>4. \A t, u \in (1 .. asking.n) \ asking.missed : returned[t] - returned[u] = t - u
            <4> SUFFICES ASSUME NEW t \in (1 .. asking.n) \ asking.missed, NEW u \in (1 .. asking.n) \ asking.missed
                         PROVE  returned[t] - returned[u] = t - u
                OBVIOUS
            <4>1. returned[t] - returned[u] = asking.got[t] - asking.got[u]
                BY <3>1, <3>2 DEF Moved
            <4> QED BY <3>2, <4>1
        <3>5. \A t, u \in 1 .. asking.n : t \in asking.missed /\ u \in asking.missed => returned[t] = returned[u]
            BY <3>1, <3>3 DEF Moved
        <3> QED BY <1>2, <2>3, <3>4, <3>5
    <2> QED BY <2>2, <2>3
<1>7. QueryAnswered
    <2> SUFFICES ASSUME adapter.does = "query", asking.told = "done"
                 PROVE  IF adapter.query = "number" THEN returned = <<>>
                        ELSE returned = <<1>> \/ (adapter.query = "list" /\ asking.missed # {} /\ returned = <<>>)
        BY DEF QueryAnswered
    <2>1. adapter.size = 1 /\ ~adapter.once /\ asking.n = 1 /\ adapter.does # "rank" /\ ~adapter.rescales
        BY <1>0 DEF AdapterFits, AskProgress
    <2>2. returned = IF adapter.query = "number" THEN <<>> ELSE asking.got
        BY <2>1 DEF ReturnedIs
    <2>3. CASE adapter.query = "number"
        BY <2>2, <2>3
    <2>4. CASE adapter.query = "list" /\ asking.missed # {}
        <3>1. \A i \in 1 .. Len(asking.got) : asking.got[i] = 1
            BY <2>1, <1>0 DEF VectorsKept
        <3>2. Len(asking.got) \in Nat
            BY <1>1
        <3>3. Len(asking.got) <= 1
            <4> SUFFICES ASSUME Len(asking.got) > 1 PROVE FALSE
                BY <3>2
            <4>1. 1 \in 1 .. Len(asking.got) /\ 2 \in 1 .. Len(asking.got)
                BY <3>2
            <4>2. asking.got[1] < asking.got[2]
                BY <2>1, <4>1, <1>0 DEF VectorsKept
            <4> QED BY <3>1, <4>1, <4>2
        <3>4. asking.got = <<>> \/ (Len(asking.got) = 1 /\ asking.got[1] = 1)
            <4>1. CASE Len(asking.got) = 0
                BY <1>1, <4>1
            <4>2. CASE Len(asking.got) = 1
                <5>1. 1 \in 1 .. Len(asking.got)
                    BY <4>2
                <5> QED BY <4>2, <5>1, <3>1
            <4>3. Len(asking.got) = 0 \/ Len(asking.got) = 1
                <5>1. PICK k \in Nat : k = Len(asking.got)
                    BY <3>2
                <5>2. k <= 1
                    BY <3>3, <5>1
                <5>3. k = 0 \/ k = 1
                    BY ONLY k \in Nat, <5>2
                <5> QED BY ONLY <5>1, <5>3, Zenon
            <4> QED BY ONLY <4>1, <4>2, <4>3
        <3>5. asking.got = <<>> \/ asking.got = <<1>>
            BY <1>1, <3>4
        <3> QED BY <2>2, <2>4, <3>5
    <2>5. CASE adapter.query # "number" /\ ~(adapter.query = "list" /\ asking.missed # {})
        <3>1. Len(asking.got) = 1
            BY <2>1, <2>5, <1>0, <1>2 DEF VectorsKept, Lists
        <3>2. asking.got[1] = 1
            BY <2>1, <3>1, <1>0 DEF VectorsKept
        <3> QED BY <1>1, <2>2, <2>5, <3>1, <3>2
    <2> QED BY <2>3, <2>4, <2>5
<1> QED BY <1>4, <1>5, <1>6, <1>7 DEF AdaptersSound

\* Every class that can be constructed returns the vectors of the texts in their
\* order, and in their places where it looks at the index, and the score of each text
\* for that text, moved by one amount at most; a query is answered by the text's
\* vector, but for two classes; whatever the service leaves out or refuses (encode,
\* encode_queries, similarity).
THEOREM AdaptersAreSound == AskSpec => []AdaptersSound
<1>1. AskInit => AskInv /\ ReturnedIs
    <2>1. AskInit => ReturnedIs
        <3> SUFFICES ASSUME AskInit PROVE asking.told # "done"
            BY DEF ReturnedIs
        <3> QED BY DEF AskInit
    <2> QED BY <2>1, AskInitInv
<1>2. AskInv /\ ReturnedIs /\ [AskNext]_askVars => (AskInv /\ ReturnedIs)'
    BY AskStep, ReturnStep
<1>3. AskInv /\ ReturnedIs => AdaptersSound
    BY AskInvSound
<1> QED BY <1>1, <1>2, <1>3, PTL DEF AskSpec

-----------------------------------------------------------------------------
(*****************************************************************************)
(* The factory of the chat models: which model a caller gets, and how old it *)
(* is.                                                                       *)
(*****************************************************************************)

\* An instance is not younger than the clock, and one that was handed out is
\* the one that is kept, of a model that may be asked for.
FactoryTypeOK ==
    /\ modelClock \in Nat \ {0} /\ modelConfig \in ConfigFiles
    /\ instances \in [Pairs -> Nat] /\ \A p \in Pairs : instances[p] <= modelClock

FactoryInv == FactoryTypeOK /\ FactorySound

\* What is chosen for a provider and a model.
LEMMA ChosenIs ==
    ASSUME FactoryTypeOK, NEW provider \in ProviderNames \cup {NotGiven}, NEW model \in ModelNames \cup {NotGiven}
    PROVE  LET pair == Chosen(provider, model) IN
           /\ pair \in Pairs /\ Supported(pair) /\ model # NotGiven
                  /\ (provider = NotGiven \/ Supported(<<provider, model>>)) => pair[2] = model
           /\ ~(pair \in Pairs /\ Supported(pair)) =>
                  ~Supported(modelConfig.default) \/ (provider = NotGiven /\ model # NotGiven)
<1> DEFINE pair == Chosen(provider, model)
<1>0. modelConfig.default \in Pairs
    BY FactoryAssumption DEF FactoryTypeOK
<1>1. CASE model = NotGiven
    BY <1>0, <1>1 DEF Chosen
<1>2. CASE model # NotGiven /\ provider = NotGiven
    <2> DEFINE lists == {i \in DOMAIN Providers : Supported(<<Providers[i], model>>)}
    <2>1. pair = ByName(model)
        BY <1>2 DEF Chosen
    <2>2. CASE lists = {}
        <3>1. pair = NoPair
            BY <2>1, <2>2 DEF ByName
        <3> QED BY <3>1, <1>2, FactoryAssumption DEF NoPair, Pairs
    <2>3. CASE lists # {}
        <3>1. pair = <<Providers[CHOOSE i \in lists : \A j \in lists : i <= j], model>>
            BY <2>1, <2>3 DEF ByName
        <3>2. \E i \in lists : \A j \in lists : i <= j
            BY <2>3, FactoryAssumption, NatMin
        <3> QED BY <3>1, <3>2, <1>2 DEF Pairs, ProviderNames
    <2> QED BY <2>2, <2>3
<1>3. CASE model # NotGiven /\ provider # NotGiven
    <2>1. pair = IF Supported(<<provider, model>>) THEN <<provider, model>> ELSE modelConfig.default
        BY <1>3 DEF Chosen
    <2>2. <<provider, model>> \in Pairs
        BY <1>3 DEF Pairs
    <2> QED BY <1>0, <1>3, <2>1, <2>2
<1> QED BY <1>1, <1>2, <1>3

LEMMA CreateInv == FactoryInv /\ CreateInstance => FactoryInv'
<1> SUFFICES ASSUME FactoryInv, NEW provider \in ProviderNames \cup {NotGiven}, NEW model \in ModelNames \cup {NotGiven},
        LET pair == Chosen(provider, model)
            known == pair \in Pairs /\ Supported(pair)
            made == instances[pair]
            reused == made # 0 /\ ~Expired(made)
        IN  /\ UNCHANGED <<modelConfig, modelClock>>
            /\ IF ~known
               THEN /\ handed' = [NoInstance EXCEPT !.to = <<provider, model>>, !.told = "error"]
                    /\ UNCHANGED instances
               ELSE \/ /\ instances' = IF reused THEN instances ELSE [instances EXCEPT ![pair] = modelClock]
                       /\ handed' = [made |-> IF reused THEN made ELSE modelClock, pair |-> pair,
                                     to |-> <<provider, model>>, told |-> "instance", earlier |-> made]
                    \/ /\ ~reused
                       /\ instances' = [instances EXCEPT ![pair] = 0]
                       /\ handed' = [NoInstance EXCEPT !.to = <<provider, model>>, !.told = "failed"]
    PROVE FactoryInv'
    BY DEF CreateInstance
<1> DEFINE pair == Chosen(provider, model)
           known == pair \in Pairs /\ Supported(pair)
           made == instances[pair]
           reused == made # 0 /\ ~Expired(made)
<1>0. FactoryTypeOK
    BY DEF FactoryInv
<1>1. /\ known /\ model # NotGiven /\ (provider = NotGiven \/ Supported(<<provider, model>>)) => pair[2] = model
      /\ ~known => ~Supported(modelConfig.default) \/ (provider = NotGiven /\ model # NotGiven)
    BY <1>0, ChosenIs
<1>2. modelConfig' = modelConfig /\ modelClock' = modelClock
    OBVIOUS
<1>3. CASE ~known
    <2>1. handed'.told = "error" /\ handed'.to = <<provider, model>> /\ instances' = instances
        BY <1>3 DEF NoInstance
    <2>2. RightModel'
        BY <1>1, <1>2, <1>3, <2>1 DEF RightModel, Supported
    <2> QED BY <2>1, <2>2, <1>0, <1>2 DEF FactoryInv, FactoryTypeOK, FactorySound, InstanceShared
<1>5. CASE known /\ instances' = [instances EXCEPT ![pair] = 0] /\ handed' = [NoInstance EXCEPT !.to = <<provider, model>>, !.told = "failed"]
    <2>1. handed'.told = "failed"
        BY <1>5 DEF NoInstance
    <2>2. FactoryTypeOK'
        <3>1. pair \in Pairs /\ 0 \in Nat
            BY <1>5
        <3> HIDE DEF pair
        <3> QED BY <1>0, <1>2, <1>5, <3>1 DEF FactoryTypeOK
    <2> QED BY <2>1, <2>2 DEF FactoryInv, FactorySound, RightModel, InstanceShared
<1>4. CASE /\ known
           /\ instances' = IF reused THEN instances ELSE [instances EXCEPT ![pair] = modelClock]
           /\ handed' = [made |-> IF reused THEN made ELSE modelClock, pair |-> pair,
                         to |-> <<provider, model>>, told |-> "instance", earlier |-> made]
    <2>1. /\ handed'.told = "instance" /\ handed'.to = <<provider, model>> /\ handed'.pair = pair
          /\ handed'.earlier = made /\ handed'.made = IF reused THEN made ELSE modelClock
        BY <1>4
    <2>2. RightModel'
        BY <1>1, <1>2, <1>4, <2>1 DEF RightModel, Supported
    <2>3. made \in Nat /\ made <= modelClock /\ modelClock \in Nat
        BY <1>0, <1>4 DEF FactoryTypeOK
    <2>4. InstanceShared'
        BY <1>2, <2>1, <2>3, FactoryAssumption DEF InstanceShared, Expired
    <2>5. FactoryTypeOK'
        BY <1>0, <1>2, <1>4, <2>3 DEF FactoryTypeOK
    <2> QED BY <2>2, <2>4, <2>5 DEF FactoryInv, FactorySound
<1> QED BY <1>3, <1>4, <1>5

\* An instance is handed out for an hour and then made anew, of a model that the
\* configuration allows.
THEOREM FactoryIsSound == FactorySpec => []FactorySound
<1>1. FactoryInit => FactoryInv
    BY DEF FactoryInit, FactoryInv, FactoryTypeOK, FactorySound, RightModel, InstanceShared, NoInstance
<1>2. FactoryInv /\ [FactoryNext]_modelVars => FactoryInv'
    <2>1. CASE CreateInstance
        BY <2>1, CreateInv
    <2>2. ASSUME FactoryInv, TimePasses PROVE FactoryInv'
        BY <2>2 DEF TimePasses, FactoryInv, FactoryTypeOK, FactorySound, RightModel, InstanceShared, NoInstance
    <2>3. ASSUME FactoryInv, UNCHANGED modelVars PROVE FactoryInv'
        BY <2>3 DEF modelVars, FactoryInv, FactoryTypeOK, FactorySound, RightModel, InstanceShared
    <2> QED BY <2>1, <2>2, <2>3 DEF FactoryNext
<1>3. FactoryInv => FactorySound
    BY DEF FactoryInv
<1> QED BY <1>1, <1>2, <1>3, PTL DEF FactorySpec

-----------------------------------------------------------------------------
\* The models together: what a call, an adapter and the factory promise holds
\* beside each other, for any calls, answers, failures and configurations.
THEOREM ModelsAreSound == ModelsSpec => []ModelsSound
<1>1. ClientSound /\ AdaptersSound /\ FactorySound => ModelsSound
    BY DEF ModelsSound
<1> QED BY <1>1, ClientIsSound, AdaptersAreSound, FactoryIsSound, PTL DEF ModelsSpec
=============================================================================
