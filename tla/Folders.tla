------------------------------- MODULE Folders -------------------------------
(***************************************************************************)
(* Shared folders: who may join one, and whose votes count.  The handlers  *)
(* of app/api/social.py over the rules of app/services/social.py.          *)
(*                                                                         *)
(* Every handler that writes reads first: it looks for the row it would    *)
(* insert and inserts it when there is none.  Nothing is locked between,   *)
(* so the unique constraints of app/models/social.py decide the race: the  *)
(* slower insert fails with IntegrityError, which the handler answers with *)
(* a 500.                                                                  *)
(*                                                                         *)
(* Simplifications.  Names, titles and the order of the answers are left   *)
(* out, and so are the requests that are refused before they read a row    *)
(* that can change.  A folder keeps its owner, an event its row, a member  *)
(* the membership: no handler takes them away.                             *)
(***************************************************************************)
EXTENDS Integers, FiniteSets, Sequences

CONSTANTS
    People, FolderIds, EventIds, Invites, Workers,
    Ttl,          \* days an invite lasts; 0 for ever
    MaxDay,       \* bound: days
    MaxAsked      \* bound: requests

NoOne == "no one"

ASSUME FoldersAssumption ==
    /\ "none" \notin FolderIds
    /\ NoOne \notin People
    /\ Ttl \subseteq Nat
    /\ MaxDay \in Nat
    /\ MaxAsked \in Nat

VARIABLES
    day,
    owner,        \* vibe_folders.user_id
    items,        \* folder_items: <<folder, event>>, unique
    invite,       \* folder_invites
    members,      \* folder_members, with when the invite was accepted
    votes,        \* folder_votes, in the order of their ids
    job,          \* what each server thread is doing
    asked

folVars == <<day, owner, items, invite, members, votes, job, asked>>

Free  == [at |-> "free"]
NoInvite == [folder |-> "none", active |-> FALSE, expires |-> 0, revoked |-> 0]

FoldersInit ==
    /\ day = 0
    /\ owner \in [FolderIds -> People \cup {NoOne}]
    /\ items \in SUBSET {item \in FolderIds \X EventIds : owner[item[1]] # NoOne}
    /\ invite = [i \in Invites |-> NoInvite]
    /\ members = {}
    /\ votes = <<>>
    /\ job = [w \in Workers |-> Free]
    /\ asked = 0

IsOwner(p, f)  == owner[f] = p
IsMember(p, f) == \E m \in members : m.folder = f /\ m.person = p

\* is_invite_expired
Expired(i) == invite[i].expires # 0 /\ invite[i].expires <= day

Ask(w) ==
    /\ job[w] = Free
    /\ asked < MaxAsked
    /\ asked' = asked + 1

Do(w, j)  == job' = [job EXCEPT ![w] = j]
Answer(w) == Do(w, Free)

-----------------------------------------------------------------------------
CreateFolder(w) ==
    /\ Ask(w)
    /\ \E f \in FolderIds, p \in People :
          owner[f] = NoOne /\ owner' = [owner EXCEPT ![f] = p]
    /\ UNCHANGED <<day, items, invite, members, votes, job>>

\* add_folder_item: the owner, and an event not there yet
AddItemCheck(w) ==
    /\ Ask(w)
    /\ \E f \in FolderIds, e \in EventIds :
          /\ owner[f] # NoOne
          /\ <<f, e>> \notin items
          /\ Do(w, [at |-> "add", item |-> <<f, e>>])
    /\ UNCHANGED <<day, owner, items, invite, members, votes>>

\* The insert; a second one fails on uq_folder_event.
AddItemInsert(w) ==
    /\ job[w].at = "add"
    /\ items' = items \cup {job[w].item}
    /\ Answer(w)
    /\ UNCHANGED <<day, owner, invite, members, votes, asked>>

\* create_folder_invite, with compute_invite_expiry
CreateInvite(w) ==
    /\ Ask(w)
    /\ \E i \in Invites, f \in FolderIds, d \in Ttl :
          /\ invite[i] = NoInvite
          /\ owner[f] # NoOne
          /\ invite' = [invite EXCEPT ![i] =
                [folder |-> f, active |-> TRUE,
                 expires |-> IF d = 0 THEN 0 ELSE day + d, revoked |-> 0]]
    /\ UNCHANGED <<day, owner, items, members, votes, job>>

\* revoke_folder_invite; the day is kept for the properties only
RevokeInvite(w) ==
    /\ Ask(w)
    /\ \E i \in Invites :
          /\ invite[i].active
          /\ invite' = [invite EXCEPT ![i].active = FALSE, ![i].revoked = day]
    /\ UNCHANGED <<day, owner, items, members, votes, job>>

\* Fault: a revoked invite is still looked up.
AcceptCheck_Inactive(w) ==
    /\ Ask(w)
    /\ \E i \in Invites, p \in People :
          /\ invite[i] # NoInvite
          /\ ~Expired(i)
          /\ ~IsOwner(p, invite[i].folder)
          /\ Do(w, [at |-> "accept", invite |-> i, person |-> p, asked |-> day])
    /\ UNCHANGED <<day, owner, items, invite, members, votes>>

\* accept_folder_invite reads the invite once, and not again.
AcceptCheck(w) ==
    /\ Ask(w)
    /\ \E i \in Invites, p \in People :
          /\ invite[i].active
          /\ ~Expired(i)
          /\ ~IsOwner(p, invite[i].folder)
          /\ Do(w, [at |-> "accept", invite |-> i, person |-> p, asked |-> day])
    /\ UNCHANGED <<day, owner, items, invite, members, votes>>

\* Already a member?
AcceptKnown(w) ==
    /\ job[w].at = "accept"
    /\ IF IsMember(job[w].person, invite[job[w].invite].folder)
       THEN Answer(w)
       ELSE Do(w, [job[w] EXCEPT !.at = "join"])
    /\ UNCHANGED <<day, owner, items, invite, members, votes, asked>>

\* The insert; of two by one person the slower fails on uq_folder_member.
AcceptJoin(w) ==
    LET f == invite[job[w].invite].folder IN
    /\ job[w].at = "join"
    /\ members' = IF IsMember(job[w].person, f) THEN members
                  ELSE members \cup {[folder |-> f, person |-> job[w].person,
                                      invite |-> job[w].invite, asked |-> job[w].asked]}
    /\ Answer(w)
    /\ UNCHANGED <<day, owner, items, invite, votes, asked>>

VoteOf(p, item) == {n \in DOMAIN votes : votes[n].person = p /\ votes[n].item = item}

\* Fault: an item of any folder may be voted on.
VoteRead_AnyItem(w) ==
    /\ Ask(w)
    /\ \E f \in FolderIds, item \in items, p \in People, v \in {-1, 1} :
          /\ IsOwner(p, f) \/ IsMember(p, f)
          /\ Do(w, [at |-> "vote", person |-> p, item |-> item, value |-> v,
                    row |-> VoteOf(p, item)])
    /\ UNCHANGED <<day, owner, items, invite, members, votes>>

\* vote_on_folder_item: the access check, the item, which must be of this folder,
\* and the vote there is.  One of the same value is left as it is.
VoteRead(w) ==
    /\ Ask(w)
    /\ \E f \in FolderIds, item \in items, p \in People, v \in {-1, 1} :
          /\ IsOwner(p, f) \/ IsMember(p, f)
          /\ item[1] = f
          /\ IF \E n \in VoteOf(p, item) : votes[n].value = v
             THEN Answer(w)
             ELSE Do(w, [at |-> "vote", person |-> p, item |-> item, value |-> v,
                         row |-> VoteOf(p, item)])
    /\ UNCHANGED <<day, owner, items, invite, members, votes>>

\* Fault: no uq_folder_item_user_vote.
VoteWrite_NoConstraint(w) ==
    LET j == job[w] IN
    /\ j.at = "vote"
    /\ votes' = IF j.row = {}
                THEN Append(votes, [person |-> j.person, item |-> j.item, value |-> j.value])
                ELSE [n \in DOMAIN votes |->
                        IF n \in j.row THEN [votes[n] EXCEPT !.value = j.value] ELSE votes[n]]
    /\ Answer(w)
    /\ UNCHANGED <<day, owner, items, invite, members, asked>>

\* The vote found is changed; when none was found one is inserted, which fails
\* on uq_folder_item_user_vote when there is one by now.
VoteWrite(w) ==
    LET j == job[w] IN
    /\ j.at = "vote"
    /\ votes' = IF j.row # {}
                THEN [n \in DOMAIN votes |->
                        IF n \in j.row THEN [votes[n] EXCEPT !.value = j.value] ELSE votes[n]]
                ELSE IF VoteOf(j.person, j.item) # {} THEN votes
                ELSE Append(votes, [person |-> j.person, item |-> j.item, value |-> j.value])
    /\ Answer(w)
    /\ UNCHANGED <<day, owner, items, invite, members, asked>>

NextDay ==
    /\ day < MaxDay
    /\ day' = day + 1
    /\ UNCHANGED <<owner, items, invite, members, votes, job, asked>>

\* Not a deadlock: the bounds are reached and every request is answered.
FoldersRest ==
    /\ day = MaxDay
    /\ \A w \in Workers : job[w] = Free
    /\ UNCHANGED folVars

FoldersNext ==
    \/ \E w \in Workers :
          \/ CreateFolder(w) \/ AddItemCheck(w) \/ AddItemInsert(w)
          \/ CreateInvite(w) \/ RevokeInvite(w)
          \/ AcceptCheck(w) \/ AcceptKnown(w) \/ AcceptJoin(w)
          \/ VoteRead(w) \/ VoteWrite(w)
    \/ NextDay
    \/ FoldersRest

FoldersSpec == FoldersInit /\ [][FoldersNext]_folVars

-----------------------------------------------------------------------------
\* _folder_items_with_votes: what an answer shows for an item, the sum of its
\* votes, each of which normalize_vote_value has made 1 or -1.
Ballots(item, v) == {n \in DOMAIN votes : votes[n].item = item /\ votes[n].value = v}

Score(item) == Cardinality(Ballots(item, 1)) - Cardinality(Ballots(item, -1))

\* Nobody is a member of a folder without an invite to it that was neither
\* revoked nor expired when the acceptance began, however long that took and
\* whatever happened to the invite meanwhile.
JoinedInTime ==
    \A m \in members :
        LET i == invite[m.invite] IN
        /\ i.folder = m.folder
        /\ i.active \/ m.asked <= i.revoked
        /\ i.expires = 0 \/ m.asked < i.expires

\* The score of an item never exceeds one vote each of the owner and the members
\* of its folder: no overlap of first votes counts a person twice, and nobody
\* votes in a folder through another one.
OneVoteEach ==
    \A item \in items :
        LET people == 1 + Cardinality({m \in members : m.folder = item[1]})
        IN  Score(item) \in (-people)..people
=============================================================================
