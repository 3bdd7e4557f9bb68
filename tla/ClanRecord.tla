------------------------------ MODULE ClanRecord ------------------------------
(***************************************************************************)
(* The record of one clan: its profile, written by its admins, its         *)
(* suspension, written by the operators of the platform, and its founder   *)
(* (is_founder of clan_memberships), written by admins.                    *)
(*                                                                         *)
(* The clans row has no version.  A request loads it, copies it into the   *)
(* aggregate, changes the copy and writes the copy onto the row it loaded; *)
(* the session then updates the columns whose value differs from the       *)
(* loaded one, and no others.                                              *)
(*                                                                         *)
(* A founder is replaced by two statements, CLEAR and SET, under a partial *)
(* unique index that admits one founder.  A statement that meets a row, or *)
(* an index entry, of an open transaction waits for it to end; an UPDATE   *)
(* then looks again at the rows it had found, and at no others.            *)
(***************************************************************************)
CONSTANTS
    Persons,
    NoPerson,
    Names,     \* values of the profile
    Admins     \* requests, of clan admins and of operators

VARIABLES
    profile,   \* clans.name and the other columns of the profile
    active,    \* clans.is_active
    members,   \* persons of the clan
    founders,  \* those flagged as founder
    at,        \* the statement each request runs next
    work,      \* what it has read and is to write
    told       \* the last FounderDesignated of the audit log

vars == <<profile, active, members, founders, at, work, told>>

-----------------------------------------------------------------------------
(* Types *)

\* name and flag are the columns as loaded, set is the changed copy of them;
\* read is the founder before the swap, found the one the CLEAR has found.
Work == [name  : Names,
         flag  : BOOLEAN,
         set   : [name : Names, flag : BOOLEAN],
         person : Persons \cup {NoPerson},
         read  : SUBSET Persons,
         found : SUBSET Persons]

TypeOK ==
    /\ profile \in Names
    /\ active \in BOOLEAN
    /\ members \subseteq Persons
    /\ founders \subseteq members
    /\ at \in [Admins -> {"idle", "save", "look", "clear", "wait", "set", "commit", "note"}]
    /\ work \in [Admins -> Work]
    /\ told \in [person : Persons \cup {NoPerson}, displaced : SUBSET Persons]

-----------------------------------------------------------------------------
(* Locks *)

\* Rows of founders that r has cleared, and the row it has set.
Held(r) ==
    (IF at[r] \in {"set", "commit"} THEN work[r].found ELSE {})
      \cup (IF at[r] = "commit" THEN {work[r].person} ELSE {})

Unlocked(r, rows) == \A s \in Admins \ {r} : Held(s) \cap rows = {}

-----------------------------------------------------------------------------
(* Requests *)

AnyWork == [name |-> profile, flag |-> active, set |-> [name |-> profile, flag |-> active],
            person |-> NoPerson, read |-> {}, found |-> {}]

Init ==
    /\ profile \in Names
    /\ active = TRUE
    /\ members \in SUBSET Persons
    /\ founders \in {{}} \cup {{p} : p \in members}
    /\ at = [r \in Admins |-> "idle"]
    /\ work = [r \in Admins |-> AnyWork]
    /\ told = [person |-> NoPerson, displaced |-> {}]

Begin(r, statement, w) ==
    /\ at[r] = "idle"
    /\ at' = [at EXCEPT ![r] = statement]
    /\ work' = [work EXCEPT ![r] = w]
    /\ UNCHANGED <<profile, active, members, founders, told>>

\* update_clan: the aggregate refuses a column that is not of the profile.
BeginProfile(r, name) == Begin(r, "save", [AnyWork EXCEPT !.set.name = name])

\* suspend_clan and reactivate_clan.
BeginFlag(r, flag) == Begin(r, "save", [AnyWork EXCEPT !.set.flag = flag])

\* designate_founder: get_membership_with_person.
BeginFounder(r, p) ==
    /\ p \in members
    /\ Begin(r, "look", [AnyWork EXCEPT !.person = p])

Goto(r, statement) == at' = [at EXCEPT ![r] = statement]

\* The columns of a finished request are not read again.
End(r) ==
    /\ Goto(r, "idle")
    /\ work' = [work EXCEPT ![r] = [@ EXCEPT !.person = NoPerson, !.read = {}, !.found = {}]]

\* Mutant of Save: the UPDATE writes the whole copy.
SaveWhole(r) ==
    /\ at[r] = "save"
    /\ profile' = work[r].set.name
    /\ active' = work[r].set.flag
    /\ End(r)
    /\ UNCHANGED <<members, founders, told>>

\* save_clan, flush and COMMIT: an UPDATE of what the copy has changed.
Save(r) ==
    /\ at[r] = "save"
    /\ profile' = IF work[r].set.name # work[r].name THEN work[r].set.name ELSE profile
    /\ active' = IF work[r].set.flag # work[r].flag THEN work[r].set.flag ELSE active
    /\ End(r)
    /\ UNCHANGED <<members, founders, told>>

\* get_founder_membership decides between a swap and nothing to write.
Look(r) ==
    /\ at[r] = "look"
    /\ Goto(r, IF founders = {work[r].person} THEN "note" ELSE "clear")
    /\ work' = [work EXCEPT ![r].read = founders]
    /\ UNCHANGED <<profile, active, members, founders, told>>

\* The CLEAR begins: it finds the committed founder.
Clear(r) ==
    /\ at[r] = "clear"
    /\ Goto(r, "wait")
    /\ work' = [work EXCEPT ![r].found = founders]
    /\ UNCHANGED <<profile, active, members, founders, told>>

\* The CLEAR ends: RETURNING gives the founder it has cleared.
Cleared(r) ==
    /\ at[r] = "wait"
    /\ Unlocked(r, work[r].found)
    /\ Goto(r, "set")
    /\ work' = [work EXCEPT ![r].found = @ \cap founders]
    /\ UNCHANGED <<profile, active, members, founders, told>>

\* The SET: the index admits no founder beside the one it clears, and waits
\* for whoever is about to decide.
Set(r) ==
    /\ at[r] = "set"
    /\ \A s \in Admins \ {r} : at[s] # "commit"
    /\ Unlocked(r, {work[r].person} \cup founders)
    /\ founders \subseteq work[r].found \cup {work[r].person}
    /\ Goto(r, "commit")
    /\ UNCHANGED <<profile, active, members, founders, work, told>>

\* Mutant of Displaced: the founder read before the swap is reported.
DisplacedAsRead(r) == work[r].read

Displaced(r) == work[r].found

Designated(r, previous) == told' = [person |-> work[r].person, displaced |-> previous]

\* COMMIT of a swap, with its audit row.
Commit(r) ==
    /\ at[r] = "commit"
    /\ founders' = (founders \ work[r].found) \cup {work[r].person}
    /\ Designated(r, Displaced(r))
    /\ End(r)
    /\ UNCHANGED <<profile, active, members>>

\* The founder was read to be the one asked for: only the audit row is written.
Note(r) ==
    /\ at[r] = "note"
    /\ Designated(r, work[r].read)
    /\ End(r)
    /\ UNCHANGED <<profile, active, members, founders>>

\* POST /persons: a new person, flagged as founder or not, joins the clan.
CreatePerson(p, founder) ==
    /\ p \notin members
    /\ founder => founders = {} /\ \A r \in Admins : Held(r) = {}
    /\ members' = members \cup {p}
    /\ founders' = IF founder THEN founders \cup {p} ELSE founders
    /\ UNCHANGED <<profile, active, at, work, told>>

\* The index refuses, the clan has no such member, or the request dies.
Abort(r) ==
    /\ at[r] # "idle"
    /\ End(r)
    /\ UNCHANGED <<profile, active, members, founders, told>>

Next ==
    \/ \E r \in Admins :
         \/ \E n \in Names : BeginProfile(r, n)
         \/ \E f \in BOOLEAN : BeginFlag(r, f)
         \/ \E p \in Persons : BeginFounder(r, p)
         \/ Save(r) \/ Look(r) \/ Clear(r) \/ Cleared(r) \/ Set(r) \/ Commit(r) \/ Note(r)
         \/ Abort(r)
    \/ \E p \in Persons, f \in BOOLEAN : CreatePerson(p, f)

Spec == Init /\ [][Next]_vars

-----------------------------------------------------------------------------
(* Properties *)

\* A suspension ends only by a request that has read the clan as suspended: no
\* PATCH of the profile that read it before writes the clan active again.
\* (save_clan copies the whole row back onto the loaded one.)
SuspensionSticks ==
    [][~active /\ active' => \E r \in Admins : at[r] = "save" /\ ~work[r].flag]_vars

\* The audit row of a swap names the founder that the swap has displaced, also
\* when another swap came between the read of the founder and the CLEAR.
FounderIsTold ==
    [][\A r \in Admins : at[r] = "commit" /\ at'[r] = "idle" /\ founders' # founders =>
         told' = [person |-> work[r].person, displaced |-> founders]]_vars
=============================================================================
