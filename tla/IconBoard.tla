----------------------------- MODULE IconBoard ------------------------------
(***************************************************************************)
(* What users of an organization see of its projects or clients, with no   *)
(* transactions, locks, storage or tasks: a board with an entry for each.  *)
(* A user adds, edits or removes one entry at a time, under a name no      *)
(* other entry has; an edit is one version on from the entry as it was.    *)
(* An upload is a new file, shown as PENDING; processing alone moves it to *)
(* READY or FAILED, READY only when the file has been converted (section 5 *)
(* of the icon processing design).                                         *)
(***************************************************************************)
EXTENDS Naturals

CONSTANTS Entries,    \* where an entry can be
          Names,
          Files,
          Blank       \* no entry, or no icon

VARIABLES board,
          image       \* of each file: "new", "uploaded" or "converted"

view == <<board, image>>

BoardInit ==
    /\ board = [e \in Entries |-> Blank]
    /\ image = [f \in Files |-> "new"]

NameFree(e, name) == \A d \in Entries \ {e} : board[d] = Blank \/ board[d].name # name

\* Entry e, and no other, is written with this version and a name that is free.
Write(e, version) ==
    LET new == board'[e] IN
    /\ new # Blank /\ new.version = version
    /\ new.name \in Names /\ NameFree(e, new.name)
    /\ board' = [board EXCEPT ![e] = [name |-> new.name, version |-> version,
                                     icon |-> new.icon, status |-> new.status]]

\* With a new file as its icon, with none, or with the icon it had.
NewIcon(e) ==
    \E f \in Files :
       /\ image[f] = "new" /\ image' = [image EXCEPT ![f] = "uploaded"]
       /\ board'[e].icon = f /\ board'[e].status = "PENDING"

NoIcon(e) ==
    /\ board'[e].icon = Blank /\ board'[e].status = "READY"
    /\ UNCHANGED image

SameIcon(e) ==
    /\ board'[e].icon = board[e].icon /\ board'[e].status = board[e].status
    /\ UNCHANGED image

Add(e) == board[e] = Blank /\ Write(e, 1) /\ (NewIcon(e) \/ NoIcon(e))

Edit(e) ==
    /\ board[e] # Blank
    /\ Write(e, board[e].version + 1)
    /\ NewIcon(e) \/ NoIcon(e) \/ SameIcon(e)

Remove(e) ==
    /\ board[e] # Blank
    /\ board' = [board EXCEPT ![e] = Blank]
    /\ UNCHANGED image

\* Processing reaches the entry that shows the file, if there is one, and changes
\* its status only.
Mark(e, status) == board' = [board EXCEPT ![e].status = status]

Shows(e, f) == board[e] # Blank /\ board[e].icon = f

Convert(f) ==
    /\ image[f] # "new"
    /\ image' = [image EXCEPT ![f] = "converted"]
    /\ IF \E e \in Entries : Shows(e, f)
       THEN \E e \in Entries : Shows(e, f) /\ Mark(e, "READY")
       ELSE UNCHANGED board

Fail(e) ==
    /\ board[e] # Blank /\ board[e].icon # Blank
    /\ Mark(e, "FAILED")
    /\ UNCHANGED image

BoardNext ==
    \/ \E e \in Entries : Add(e) \/ Edit(e) \/ Remove(e) \/ Fail(e)
    \/ \E f \in Files : Convert(f)

BoardSpec == BoardInit /\ [][BoardNext]_view
=============================================================================
