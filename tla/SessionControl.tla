--------------------------- MODULE SessionControl ---------------------------
(* Collaborative sessions: who takes part in a session on one device, with    *)
(* which role, and who controls it. The id of a session is made of device and *)
(* creator, so a session is named by the user who creates it.                 *)
EXTENDS Naturals, SequencesExt

CONSTANTS
    Users,
    MaxSessions   \* _MAX_COLLAB_SESSIONS

ASSUME SessionAssumption == MaxSessions \in Nat

VARIABLE sessions   \* sessions: id -> participants in the order they came, active_controller

Roles == {"admin", "viewer"}
SessionInit == sessions = <<>>

Part(u, r) == [user |-> u, role |-> r]
Who(s) == {s.parts[i].user : i \in DOMAIN s.parts}
Admins(s) == {s.parts[i].user : i \in {j \in DOMAIN s.parts : s.parts[j].role = "admin"}}
Put(id, s) == sessions' = [i \in DOMAIN sessions \union {id} |-> IF i = id THEN s ELSE sessions[i]]
Drop(id) == sessions' = [i \in DOMAIN sessions \ {id} |-> sessions[i]]

\* create_session: a session that exists is handed back as it is.
MayCreate == Cardinality(DOMAIN sessions) < MaxSessions
Create(u) ==
    /\ u \notin DOMAIN sessions /\ MayCreate
    /\ Put(u, [parts |-> <<Part(u, "admin")>>, controller |-> u])

\* join_session: a participant who joins again keeps the place and takes the new role.
Seats(s, u, r) == IF \E i \in DOMAIN s : s[i].user = u
                  THEN [i \in DOMAIN s |-> IF s[i].user = u THEN Part(u, r) ELSE s[i]]
                  ELSE Append(s, Part(u, r))
JoinSession(id, u, r) ==
    /\ id \in DOMAIN sessions
    /\ Put(id, [sessions[id] EXCEPT !.parts = Seats(@, u, r)])

\* faulty variant: the admins are not looked at
SuccessorFirst(parts) == parts[1].user

\* leave_session: the first admin succeeds a controller who leaves, else the first who is left.
Successor(parts) ==
    LET i == SelectInSeq(parts, LAMBDA p : p.role = "admin")
    IN  parts[IF i # 0 THEN i ELSE 1].user

Remains(s, parts, u) == IF s.controller = u THEN Successor(parts) ELSE s.controller
Others(parts, u) == RemoveFirstMatch(parts, LAMBDA p : p.user = u)
LeaveSession(id, u) ==
    /\ id \in DOMAIN sessions
    /\ LET s == sessions[id]
           parts == Others(s.parts, u)
       IN  IF parts = <<>> THEN Drop(id)
           ELSE Put(id, [parts |-> parts, controller |-> Remains(s, parts, u)])

\* transfer_control: an admin hands the control to a participant.
MayTransfer(s, a, b) == a \in Admins(s) /\ b \in Who(s)
Transfer(id, a, b) ==
    /\ id \in DOMAIN sessions /\ MayTransfer(sessions[id], a, b)
    /\ Put(id, [sessions[id] EXCEPT !.controller = b])

SessionNext ==
    \/ \E u \in Users : Create(u)
    \/ \E id, u \in Users, r \in Roles : JoinSession(id, u, r)
    \/ \E id, u \in Users : LeaveSession(id, u)
    \/ \E id, a, b \in Users : Transfer(id, a, b)

SessionSpec == SessionInit /\ [][SessionNext]_sessions

-----------------------------------------------------------------------------
(* No session is empty or counts anyone twice, and there are no more of them  *)
(* than the limit (session_service.py:86-98, 138-141).                        *)
SessionTypeOK ==
    /\ DOMAIN sessions \subseteq Users /\ Cardinality(DOMAIN sessions) <= MaxSessions
    /\ \A id \in DOMAIN sessions :
          /\ sessions[id].parts \in Seq([user : Users, role : Roles])
          /\ Len(sessions[id].parts) \in 1..Cardinality(Who(sessions[id]))

(* Whoever controls a session takes part in it, through any order of joins,   *)
(* leaves and transfers (session_service.py:138-148, 175-179).                *)
ControllerTakesPart == \A id \in DOMAIN sessions : sessions[id].controller \in Who(sessions[id])

(* Control that its holder did not give up by leaving is moved only while an  *)
(* admin is there to say so; when the holder leaves, it falls to an admin as  *)
(* long as one stays (session_service.py:142-148, 175-179).                   *)
ControlFallsToAdmins ==
    [][\A id \in DOMAIN sessions \intersect DOMAIN sessions' :
          LET s == sessions[id]
              t == sessions'[id]
          IN  t.controller # s.controller =>
                 IF s.controller \in Who(t) THEN Admins(s) # {}
                 ELSE Admins(t) # {} => t.controller \in Admins(t)]_sessions

(* Control stays with somebody who takes part, and passes as the roles allow  *)
(* (session_service.py:86-179).                                               *)
ControlHolds == [](SessionTypeOK /\ ControllerTakesPart) /\ ControlFallsToAdmins
=============================================================================
