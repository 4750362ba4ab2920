--------------------------- MODULE AccountsProofs ---------------------------
(***************************************************************************)
(* Theorems about Accounts, for any clients, nicknames and passwords.      *)
(***************************************************************************)
EXTENDS Accounts, TLAPS

LEMMA AuthInit == Init => AuthInv
  BY NicksAssumption
  DEF Init, AuthInv, TypeOK, AuthHasAccount, Checked

LEMMA AuthStep == AuthInv /\ [Next]_vars => AuthInv'
<1> SUFFICES ASSUME AuthInv, [Next]_vars PROVE AuthInv'
  OBVIOUS
<1> USE AbsentAssumption, NicksAssumption
        DEF AuthInv, TypeOK, AuthHasAccount, Checked, Goto, Forget, Refuse,
            Accept, Request, history
<1>1. ASSUME NEW c \in Conns, Connect(c) PROVE AuthInv'
  BY <1>1 DEF Connect
<1>2. ASSUME NEW c \in Conns, client_list_remove(c) PROVE AuthInv'
  BY <1>2 DEF client_list_remove
<1>3. ASSUME NEW c \in Conns, NEW r \in Request, LoginGet(c, r) PROVE AuthInv'
  <2>1. CASE store[r.nick] = r.pass /\ Accept(c, r, "check_nick")
    BY <1>3, <2>1 DEF LoginGet
  <2>2. CASE Refuse(c)
    BY <1>3, <2>2 DEF LoginGet
  <2> QED BY <1>3, <2>1, <2>2 DEF LoginGet
<1>4. ASSUME NEW c \in Conns, NEW r \in Request, RegisterExists(c, r) PROVE AuthInv'
  <2>1. CASE Accept(c, r, "reg_set")
    BY <1>4, <2>1 DEF RegisterExists
  <2>2. CASE Refuse(c)
    BY <1>4, <2>2 DEF RegisterExists
  <2> QED BY <1>4, <2>1, <2>2 DEF RegisterExists
<1>5. ASSUME NEW c \in Conns, RegisterSet(c) PROVE AuthInv'
  <2>1. CASE store' = [store EXCEPT ![request[c].nick] = request[c].pass]
    BY <1>5, <2>1 DEF RegisterSet
  <2>2. CASE lost' = lost \cup {request[c].nick} /\ UNCHANGED store
    BY <1>5, <2>2 DEF RegisterSet
  <2> QED BY <1>5, <2>1, <2>2 DEF RegisterSet
<1>6. ASSUME NEW c \in Conns, CheckNick(c) PROVE AuthInv'
  BY <1>6 DEF CheckNick
<1>7. ASSUME NEW c \in Conns, SetNick(c) PROVE AuthInv'
  <2>1. /\ request[c].nick \in Nicks
        /\ nickname' = [nickname EXCEPT ![c] = request[c].nick]
        /\ logged_in' = [logged_in EXCEPT ![c] = TRUE]
        /\ pc' = [pc EXCEPT ![c] = "idle"]
        /\ request' = [request EXCEPT ![c] = NoRequest]
        /\ UNCHANGED <<store, lost, outrun>>
    BY <1>7 DEF SetNick
  <2>2. met' \subseteq Conns \X Conns \X Nicks
    BY <1>7, <2>1 DEF SetNick, Elsewhere
  <2>3. /\ nickname' \in [Conns -> Nicks \cup Conns]
        /\ logged_in' \in [Conns -> BOOLEAN]
        /\ \A d \in Conns : logged_in'[d] <=> nickname'[d] \in Nicks
    BY <2>1
  <2>4. AuthHasAccount'
    BY <1>7, <2>1 DEF SetNick
  <2> QED BY <1>7, <2>1, <2>2, <2>3, <2>4 DEF SetNick
<1>8. CASE UNCHANGED vars
  BY <1>8 DEF vars
<1> QED BY <1>1, <1>2, <1>3, <1>4, <1>5, <1>6, <1>7, <1>8 DEF Next

(* What the thread of a client knows of its account on the way to the      *)
(* nickname stays true, whatever the other threads store meanwhile.        *)
THEOREM AuthAlways == Spec => []AuthInv
  BY AuthInit, AuthStep, PTL DEF Spec

(* Type correctness; in particular a client is logged in exactly if it has *)
(* a nickname that is not a guest's.                                       *)
THEOREM AccountsTyped == Spec => []TypeOK
<1>1. AuthInv => TypeOK
  BY DEF AuthInv
<1> QED BY <1>1, AuthAlways, PTL

(* An authenticated client has an account unless a SET of its nickname was *)
(* lost, however LOGIN and REGISTER of any clients interleave.             *)
THEOREM AuthenticatedHaveAccounts == Spec => []AuthHasAccount
<1>1. AuthInv => AuthHasAccount
  BY DEF AuthInv
<1> QED BY <1>1, AuthAlways, PTL

-----------------------------------------------------------------------------
(* A step that gives no nickname and lets nobody pass the test.            *)
LEMMA NickQuiet ==
    ASSUME NickInv, UNCHANGED <<nickname, logged_in, met>>,
           \A c \in Conns :
               /\ pc'[c] = "set_nick" => pc[c] = "set_nick" /\ request'[c] = request[c]
               /\ pc'[c] = "none" => pc[c] = "none"
    PROVE  NickInv'
  BY DEF NickInv, NickShared

LEMMA NickStep == ASSUME AuthInv, NickInv, [Next]_vars PROVE NickInv'
<1> USE DEF Goto, Forget, Refuse, Accept, history
<1>0. /\ nickname \in [Conns -> Nicks \cup Conns] /\ logged_in \in [Conns -> BOOLEAN]
      /\ \A c \in Conns : logged_in[c] <=> nickname[c] \in Nicks
      /\ \A c \in Conns : pc[c] \in Checked => request[c].nick \in Nicks
      /\ DOMAIN pc = Conns /\ DOMAIN request = Conns
  BY DEF AuthInv, TypeOK, Request
<1>1. ASSUME NEW c \in Conns, Connect(c) PROVE NickInv'
  BY <1>0, <1>1, NickQuiet DEF Connect
<1>2. ASSUME NEW c \in Conns, client_list_remove(c) PROVE NickInv'
  <2>1. /\ nickname'[c] = c /\ ~logged_in'[c] /\ pc'[c] = "none"
        /\ \A d \in Conns \ {c} : /\ nickname'[d] = nickname[d]
                                  /\ logged_in'[d] = logged_in[d] /\ pc'[d] = pc[d]
        /\ request' = request
        /\ \A m \in met : m[1] # c /\ m[2] # c => m \in met'
        /\ c \notin Nicks
    BY <1>0, <1>2, NicksAssumption DEF client_list_remove
  <2>2. NickShared'
    BY <1>0, <2>1 DEF NickInv, NickShared
  <2> QED BY <1>0, <2>1, <2>2 DEF NickInv, Checked
<1>3. ASSUME NEW c \in Conns, NEW r \in Request, LoginGet(c, r) \/ RegisterExists(c, r)
      PROVE  NickInv'
  <2>1. /\ UNCHANGED <<nickname, logged_in, met>>
        /\ pc'[c] \in {"idle", "check_nick", "reg_set"}
        /\ \A d \in Conns \ {c} : pc'[d] = pc[d] /\ request'[d] = request[d]
    BY <1>0, <1>3 DEF LoginGet, RegisterExists
  <2> QED BY <2>1, NickQuiet
<1>4. ASSUME NEW c \in Conns, RegisterSet(c) PROVE NickInv'
  BY <1>0, <1>4, NickQuiet DEF RegisterSet
<1>5. ASSUME NEW c \in Conns, CheckNick(c) PROVE NickInv'
  <2>1. CASE Refuse(c)
    BY <1>0, <1>5, <2>1, NickQuiet DEF CheckNick
  <2>2. CASE ~is_nickname_taken(request[c].nick, c) /\ Goto(c, "set_nick") /\ UNCHANGED request
    <3>1. /\ UNCHANGED <<nickname, logged_in, met, request>>
          /\ \A d \in Conns \ {c} : pc'[d] = pc[d]
          /\ pc'[c] = "set_nick" /\ request[c].nick \in Nicks
      BY <1>0, <1>5, <2>2 DEF CheckNick, Checked
    <3>2. \A d \in Conns \ {c} : nickname[d] # request[c].nick
      BY <1>0, <2>2, <3>1 DEF is_nickname_taken, Connected, NickInv
    <3> QED BY <3>1, <3>2 DEF NickInv, NickShared
  <2> QED BY <1>5, <2>1, <2>2 DEF CheckNick
<1>6. ASSUME NEW c \in Conns, SetNick(c) PROVE NickInv'
  <2> DEFINE n == request[c].nick
  <2>1. /\ pc[c] = "set_nick" /\ n \in Nicks
        /\ nickname'[c] = n /\ pc'[c] = "idle" /\ logged_in'[c]
        /\ \A d \in Conns \ {c} : /\ nickname'[d] = nickname[d] /\ pc'[d] = pc[d]
                                  /\ logged_in'[d] = logged_in[d]
                                  /\ request'[d] = request[d]
    BY <1>0, <1>6 DEF SetNick, Checked
  <2>2. ASSUME NEW d \in Conns, NEW e \in Conns, NEW k, <<d, e, k>> \in met,
               k # nickname[c] \/ k = n \/ (d # c /\ e # c)
        PROVE  <<d, e, k>> \in met'
    BY <1>6, <2>2 DEF SetNick, Elsewhere
  <2>3. ASSUME NEW d \in Conns \ {c}, pc[d] = "set_nick", request[d].nick = n
        PROVE  <<d, c, n>> \in met'
    BY <1>6, <2>3 DEF SetNick
  <2> HIDE DEF n
  <2>4. \A d \in Conns \ {c} : nickname[d] = n => <<c, d, n>> \in met
    BY <2>1 DEF NickInv, n
  <2>5. NickShared'
    <3> SUFFICES ASSUME NEW d \in Conns, NEW e \in Conns, d # e, logged_in'[d],
                        nickname'[d] = nickname'[e]
                 PROVE  <<d, e, nickname'[d]>> \in met' \/ <<e, d, nickname'[d]>> \in met'
      BY DEF NickShared
    <3>1. CASE d = c
      BY <2>1, <2>2, <2>4, <3>1
    <3>2. CASE e = c
      BY <2>1, <2>2, <2>4, <3>2
    <3>3. CASE d # c /\ e # c
      BY <2>1, <2>2, <3>3 DEF NickInv, NickShared
    <3> QED BY <3>1, <3>2, <3>3
  <2>6. ASSUME NEW d \in Conns, NEW e \in Conns, pc'[d] = "set_nick", d # e,
               nickname'[e] = request'[d].nick
        PROVE  <<d, e, request'[d].nick>> \in met'
    <3>1. d # c /\ pc[d] = "set_nick" /\ request'[d] = request[d]
      BY <2>1, <2>6
    <3>2. CASE e = c
      BY <2>1, <2>3, <2>6, <3>1, <3>2 DEF n
    <3>3. CASE e # c
      BY <2>1, <2>2, <2>6, <3>1, <3>3 DEF NickInv
    <3> QED BY <3>2, <3>3
  <2>7. \A d \in Conns : pc'[d] = "none" => ~logged_in'[d]
    BY <2>1 DEF NickInv
  <2> QED BY <2>5, <2>6, <2>7 DEF NickInv
<1>7. CASE UNCHANGED vars
  BY <1>7, NickQuiet DEF vars
<1> QED BY <1>1, <1>2, <1>3, <1>4, <1>5, <1>6, <1>7 DEF Next

(* Clients that share a nickname have overlapped: one of them looked for   *)
(* it among the clients before the other had taken it.                     *)
THEOREM SharedOnlyIfMet == Spec => []NickShared
<1>1. Init => NickInv
  BY NicksAssumption DEF Init, NickInv, NickShared
<1>2. NickInv => NickShared
  BY DEF NickInv
<1> QED BY <1>1, <1>2, AuthAlways, NickStep, PTL DEF Spec

-----------------------------------------------------------------------------
LEMMA OutrunStep == ASSUME AuthInv, OutrunInv, [Next]_vars PROVE OutrunInv'
<1> USE DEF OutrunInv, Goto, Forget, Refuse, Accept, history
<1>0. DOMAIN pc = Conns /\ DOMAIN request = Conns /\ store \in [Nicks -> Passwords \cup {Absent}]
      /\ \A c \in Conns : pc[c] = "reg_set" => request[c] \in Request
  BY DEF AuthInv, TypeOK
<1>1. ASSUME NEW c \in Conns, Connect(c) \/ client_list_remove(c) \/ CheckNick(c) \/ SetNick(c)
      PROVE  OutrunInv'
  <2>1. /\ UNCHANGED <<store, outrun>> /\ pc'[c] # "reg_set"
        /\ \A d \in Conns \ {c} : pc'[d] = pc[d] /\ request'[d] = request[d]
    BY <1>0, <1>1 DEF Connect, client_list_remove, CheckNick, SetNick
  <2> QED BY <2>1
<1>2. ASSUME NEW c \in Conns, NEW r \in Request, LoginGet(c, r) PROVE OutrunInv'
  <2>1. /\ UNCHANGED <<store, outrun>> /\ pc'[c] # "reg_set"
        /\ \A d \in Conns \ {c} : pc'[d] = pc[d] /\ request'[d] = request[d]
    BY <1>0, <1>2 DEF LoginGet
  <2> QED BY <2>1
<1>3. ASSUME NEW c \in Conns, NEW r \in Request, RegisterExists(c, r) PROVE OutrunInv'
  <2>1. /\ store' = store /\ outrun \subseteq outrun'
        /\ \A d \in Conns \ {c} : pc'[d] = pc[d] /\ request'[d] = request[d]
    BY <1>0, <1>3 DEF RegisterExists
  <2>2. pc'[c] = "reg_set" /\ c \notin outrun' =>
            request'[c] = r /\ store[r.nick] = Absent
    BY <1>0, <1>3 DEF RegisterExists
  <2> QED BY <2>1, <2>2
<1>4. ASSUME NEW c \in Conns, RegisterSet(c) PROVE OutrunInv'
  <2>1. /\ request' = request /\ pc'[c] = "check_nick"
        /\ \A d \in Conns \ {c} : pc'[d] = pc[d]
    BY <1>0, <1>4 DEF RegisterSet
  <2>2. ASSUME NEW d \in Conns \ {c}, pc[d] = "reg_set", d \notin outrun'
        PROVE  store'[request[d].nick] = Absent
    <3>1. request[d].nick \in Nicks /\ request[c].nick \in Nicks
      BY <1>0, <1>4, <2>2 DEF RegisterSet, Request
    <3>2. d \notin outrun /\ store[request[d].nick] = Absent
      BY <1>4, <2>2 DEF RegisterSet
    <3>3. store' = store \/ request[d].nick # request[c].nick
      BY <1>4, <2>2 DEF RegisterSet
    <3> QED BY <1>0, <1>4, <3>1, <3>2, <3>3 DEF RegisterSet
  <2> QED BY <2>1, <2>2
<1>5. CASE UNCHANGED vars
  BY <1>5 DEF vars
<1> QED BY <1>1, <1>2, <1>3, <1>4, <1>5 DEF Next

(* The password of an account changes only under a REGISTER whose EXISTS   *)
(* was answered before the account was there, or not answered.             *)
THEOREM ReplacedOnlyIfOutrun == Spec => PasswordReplaced
<1>1. Init => OutrunInv
  BY DEF Init, OutrunInv
<1>2. AuthInv /\ OutrunInv /\ [Next]_vars =>
        [\A n \in Nicks :
            store[n] # Absent /\ store'[n] # store[n] =>
                \E c \in outrun : pc[c] = "reg_set" /\ request[c].nick = n]_vars
  <2> SUFFICES ASSUME AuthInv, OutrunInv, Next, NEW n \in Nicks,
                      store[n] # Absent, store'[n] # store[n]
               PROVE  \E c \in outrun : pc[c] = "reg_set" /\ request[c].nick = n
    OBVIOUS
  <2>1. PICK c \in Conns : RegisterSet(c)
    BY DEF Next, Connect, client_list_remove, LoginGet, RegisterExists, CheckNick, SetNick
  <2>2. pc[c] = "reg_set" /\ request[c].nick = n
    BY <2>1 DEF RegisterSet, AuthInv, TypeOK
  <2> QED BY <2>2 DEF OutrunInv
<1> QED BY <1>1, <1>2, AuthAlways, OutrunStep, PTL DEF Spec, PasswordReplaced
=============================================================================
