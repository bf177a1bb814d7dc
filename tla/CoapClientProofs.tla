-------------------------- MODULE CoapClientProofs --------------------------
(***************************************************************************)
(* Proofs about CoapClient, for any finite set of connections, any         *)
(* accounts and any bounds: the use of libcoap, and that the connections   *)
(* implement the contract of send.                                         *)
(***************************************************************************)
EXTENDS CoapClient, FiniteSetTheorems, SequenceTheorems, TLAPS

(* Connections that are counted in coap_init_count. *)
Users == {c \in Connections : ctx[c] \/ pc[c] \in {"startup", "setup"}}

LinkTypes ==
    /\ pc \in [Connections -> PCs] /\ ctx \in [Connections -> BOOLEAN]
    /\ count \in Nat /\ leaks \in Nat /\ up \in BOOLEAN

(* mtx_: one connection at a time is being made or closed. *)
Exclusive == \A c, d \in Connections : c # d /\ pc[c] # "idle" => pc[d] = "idle"

Counted == count = Cardinality(Users) + leaks

Phases ==
    \A c \in Connections :
        /\ pc[c] = "cleanup" => up /\ count = 0
        /\ pc[c] = "startup" => ~up /\ \A d \in Connections : ~ctx[d]
        /\ pc[c] \in {"cleanup", "init", "startup", "setup"} => ~ctx[c]
        /\ pc[c] \in {"resolve", "undo"} => ctx[c]

Settled ==
    (\A c \in Connections : pc[c] \notin {"cleanup", "startup"}) => (up <=> count > 0)

LinkInv == LinkTypes /\ Exclusive /\ Counted /\ Phases /\ Settled

-----------------------------------------------------------------------------
(* The users are a finite set, so their number is a natural number that is *)
(* zero only if there are none.                                            *)
LEMMA UsersFinite ==
    /\ IsFiniteSet(Users) /\ Cardinality(Users) \in Nat
    /\ Cardinality(Users) = 0 => Users = {}
<1>1. Users \subseteq Connections  BY DEF Users
<1>2. IsFiniteSet(Users)  BY <1>1, CoapAssumption, FS_Subset
<1> QED  BY <1>2, FS_CardinalityType, FS_EmptySet

(* Closing a connection takes it from the users: disconnect() counts down  *)
(* exactly when the connection had a context.                              *)
LEMMA ReleaseKeeps ==
    ASSUME LinkInv, NEW c \in Connections, NEW after \in {"idle", "init"},
           Release(c, after), pc[c] \in {"idle", "resolve", "undo"},
           \A d \in Connections : d # c => pc[d] = "idle",
           leaks' = leaks, up' = up
    PROVE  LinkInv'
<1> USE DEF LinkInv, LinkTypes, PCs
<1>1. LinkTypes'
  <2>1. ctx[c] => count \in Nat \ {0}
    <3>1. ctx[c] => c \in Users  BY DEF Users
    <3> QED  BY <3>1, UsersFinite, FS_EmptySet DEF Counted
  <2> QED  BY <2>1 DEF Release
<1>2. Users' = Users \ {c}
  BY DEF Release, Users
<1>3. Counted'
  <2>1. c \in Users <=> ctx[c]  BY DEF Users
  <2>2. Cardinality(Users') = IF ctx[c] THEN Cardinality(Users) - 1 ELSE Cardinality(Users)
    BY <1>2, <2>1, UsersFinite, FS_RemoveElement
  <2> QED  BY <2>2, UsersFinite DEF Counted, Release
<1>4. Exclusive'  BY DEF Exclusive, Release
<1>5. up <=> count > 0
  BY DEF Settled
<1>6. Phases'  BY <1>5 DEF Phases, Release
<1>7. Settled'  BY <1>5, <1>1 DEF Settled, Release
<1> QED  BY <1>1, <1>3, <1>4, <1>6, <1>7

(* A connection is the only one that is being made or closed. *)
LEMMA Others ==
    ASSUME LinkInv, NEW c \in Connections, pc[c] # "idle"
    PROVE  \A d \in Connections : d # c => pc[d] = "idle"
BY DEF LinkInv, Exclusive

(* Only the count, the contexts, the program counters, the history of      *)
(* leaks and the state of libcoap matter to the invariant.                 *)
LEMMA LinkUnchanged ==
    ASSUME LinkInv, UNCHANGED <<pc, ctx, count, leaks, up>>
    PROVE  LinkInv'
<1>1. Users' = Users  BY DEF Users
<1> QED
  BY <1>1 DEF LinkInv, LinkTypes, Exclusive, Counted, Phases, Settled

(* Each step of connect() and disconnect() keeps the invariant. *)
LEMMA LinkStep ==
    ASSUME LinkInv, [Next]_vars
    PROVE  LinkInv'
<1> USE DEF LinkInv, LinkTypes, PCs
<1>1. CASE UNCHANGED vars  BY <1>1, LinkUnchanged DEF vars, linkVars
<1>2. ASSUME NEW c \in Connections, NEW account \in Accounts, BeginConnect(c, account)
      PROVE  LinkInv'
  BY <1>2, ReleaseKeeps DEF BeginConnect, Alone
<1>3. ASSUME NEW c \in Connections, BeginDisconnect(c)
      PROVE  LinkInv'
  BY <1>3, ReleaseKeeps DEF BeginDisconnect, Alone
<1>4. ASSUME NEW c \in Connections, CoapCleanup(c)
      PROVE  LinkInv'
  <2>1. pc[c] # "idle"  BY <1>4 DEF CoapCleanup
  <2>2. \A d \in Connections : d # c => pc[d] = "idle"  BY <2>1, Others
  <2>3. After(conf[c]) \in {"idle", "init"}  BY DEF After
  <2>4. Users' = Users  BY <1>4, <2>3 DEF CoapCleanup, Users
  <2>5. count = 0  BY <1>4 DEF CoapCleanup, Phases
  <2>6. LinkTypes'  BY <1>4, <2>3, Zenon DEF CoapCleanup
  <2>7. Exclusive' /\ Phases'  BY <1>4, <2>2, <2>3 DEF CoapCleanup, Exclusive, Phases
  <2>8. Counted' /\ Settled'  BY <1>4, <2>4, <2>5 DEF CoapCleanup, Counted, Settled
  <2> QED  BY <2>6, <2>7, <2>8
<1>5. ASSUME NEW c \in Connections, FetchAdd(c)
      PROVE  LinkInv'
  <2>1. \A d \in Connections : d # c => pc[d] = "idle"  BY <1>5, Others DEF FetchAdd
  <2>2. c \notin Users  BY <1>5 DEF FetchAdd, Users, Phases
  <2>3. Users' = Users \cup {c}  BY <1>5 DEF FetchAdd, Users
  <2>4. Counted'
    <3>1. Cardinality(Users') = Cardinality(Users) + 1
      BY <2>2, <2>3, UsersFinite, FS_AddElement
    <3> QED  BY <1>5, <3>1, UsersFinite DEF FetchAdd, Counted
  <2>5. up <=> count > 0  BY <1>5, <2>1 DEF FetchAdd, Settled
  <2>6. count = 0 => \A d \in Connections : ~ctx[d]
    BY UsersFinite DEF Counted, Users
  <2>7. LinkTypes' /\ Exclusive'  BY <1>5, <2>1 DEF FetchAdd, Exclusive
  <2>8. Phases'  BY <1>5, <2>1, <2>5, <2>6 DEF FetchAdd, Phases
  <2>9. Settled'  BY <1>5, <2>5 DEF FetchAdd, Settled
  <2> QED  BY <2>4, <2>7, <2>8, <2>9
<1>6. ASSUME NEW c \in Connections, CoapStartup(c)
      PROVE  LinkInv'
  <2>1. \A d \in Connections : d # c => pc[d] = "idle"  BY <1>6, Others DEF CoapStartup
  <2>2. Users' = Users  BY <1>6 DEF CoapStartup, Users
  <2>3. c \in Users  BY <1>6 DEF CoapStartup, Users
  <2>4. count > 0  BY <2>3, UsersFinite, FS_EmptySet DEF Counted
  <2>5. LinkTypes'  BY <1>6, Zenon DEF CoapStartup
  <2>6. Exclusive' /\ Phases'  BY <1>6, <2>1 DEF CoapStartup, Exclusive, Phases
  <2>7. Counted' /\ Settled'  BY <1>6, <2>2, <2>4 DEF CoapStartup, Counted, Settled
  <2> QED  BY <2>5, <2>6, <2>7
<1>7. ASSUME NEW c \in Connections, NoContext(c)
      PROVE  LinkInv'
  <2>1. \A d \in Connections : d # c => pc[d] = "idle"  BY <1>7, Others DEF NoContext
  <2>2. c \in Users /\ ~ctx[c]  BY <1>7 DEF NoContext, Users, Phases
  <2>3. Users' = Users \ {c}  BY <1>7, <2>2 DEF NoContext, Users
  <2>4. Counted'
    <3>1. Cardinality(Users') = Cardinality(Users) - 1
      BY <2>2, <2>3, UsersFinite, FS_RemoveElement
    <3>2. count' = count /\ leaks' = leaks + 1  BY <1>7 DEF NoContext
    <3> QED  BY <3>1, <3>2, UsersFinite DEF Counted
  <2>5. LinkTypes' /\ Exclusive' /\ Phases'  BY <1>7, <2>1 DEF NoContext, Exclusive, Phases
  <2>6. Settled'  BY <1>7, <2>1 DEF NoContext, Settled
  <2> QED  BY <2>4, <2>5, <2>6
<1>8. ASSUME NEW c \in Connections, NewContext(c)
      PROVE  LinkInv'
  <2>1. \A d \in Connections : d # c => pc[d] = "idle"  BY <1>8, Others DEF NewContext
  <2>2. Users' = Users  BY <1>8 DEF NewContext, Users
  <2>3. LinkTypes'  BY <1>8 DEF NewContext
  <2>4. Exclusive' /\ Phases'  BY <1>8, <2>1 DEF NewContext, Exclusive, Phases
  <2>5. Counted' /\ Settled'  BY <1>8, <2>1, <2>2 DEF NewContext, Counted, Settled
  <2> QED  BY <2>3, <2>4, <2>5
<1>9. ASSUME NEW c \in Connections, Connected(c)
      PROVE  LinkInv'
  <2>1. \A d \in Connections : d # c => pc[d] = "idle"  BY <1>9, Others DEF Connected
  <2>2. Users' = Users  BY <1>9 DEF Connected, Users
  <2>3. LinkTypes' /\ Exclusive' /\ Phases'  BY <1>9, <2>1 DEF Connected, Exclusive, Phases
  <2>4. Counted' /\ Settled'  BY <1>9, <2>1, <2>2 DEF Connected, Counted, Settled
  <2> QED  BY <2>3, <2>4
<1>10. ASSUME NEW c \in Connections, ConnectFails(c)
       PROVE  LinkInv'
  <2>1. pc[c] # "idle"  BY <1>10 DEF ConnectFails
  <2> QED  BY <1>10, <2>1, Others, ReleaseKeeps DEF ConnectFails
<1>11. ASSUME NEW c \in Connections, NEW isUp \in BOOLEAN, SessionEvent(c, isUp)
       PROVE  LinkInv'
  BY <1>11, LinkUnchanged DEF SessionEvent
<1>12. ASSUME NEW c \in Connections,
              \/ Send(c) \/ SendReturns(c)
              \/ \E fits \in BOOLEAN : SendFails(c, fits)
              \/ \E t \in Tokens : ServerAnswers(c, t) \/ response_handler(c, t)
       PROVE  LinkInv'
  BY <1>12, LinkUnchanged
     DEF Send, SendReturns, SendFails, TakeToken, ServerAnswers, response_handler, linkVars
<1> QED
  BY <1>1, <1>2, <1>3, <1>4, <1>5, <1>6, <1>7, <1>8, <1>9, <1>10, <1>11, <1>12 DEF Next

(* Before the first connect() nobody uses libcoap. *)
LEMMA LinkInit ==
    ASSUME Init
    PROVE  LinkInv
<1>1. Users = {}  BY DEF Init, Users
<1>2. Cardinality(Users) = 0  BY <1>1, FS_EmptySet
<1>3. up \in BOOLEAN  BY Zenon DEF Init
<1>4. LinkTypes  BY <1>3 DEF Init, LinkTypes, PCs
<1>5. Exclusive /\ Phases /\ Settled  BY DEF Init, Exclusive, Phases, Settled
<1>6. Counted  BY <1>2 DEF Init, Counted
<1> QED  BY <1>4, <1>5, <1>6 DEF LinkInv

(* LibcoapInUse of every reachable state: no connection has a context      *)
(* while libcoap is not started, and the last one to go cleans up, unless  *)
(* a context could not be made (coap_client.cpp:118).                      *)
THEOREM LibcoapCorrect == Spec => []LibcoapInUse
<1>1. LinkInv => LibcoapInUse
  <2> SUFFICES ASSUME LinkInv PROVE LibcoapInUse  OBVIOUS
  <2> USE DEF LinkInv, LinkTypes
  <2>1. ASSUME NEW c \in Connections, ctx[c] \/ pc[c] = "setup"
        PROVE  up
    <3>1. c \in Users  BY <2>1 DEF Users
    <3>2. count > 0  BY <3>1, UsersFinite, FS_EmptySet DEF Counted
    <3>3. \A d \in Connections : pc[d] # "cleanup"  BY <3>2 DEF Phases
    <3>4. \A d \in Connections : pc[d] # "startup"  BY <2>1 DEF Phases, Exclusive
    <3> QED  BY <3>2, <3>3, <3>4 DEF Settled
  <2>2. ASSUME leaks = 0, \A c \in Connections : ~ctx[c] /\ pc[c] = "idle"
        PROVE  ~up /\ count = 0
    <3>1. Users = {}  BY <2>2 DEF Users
    <3> QED  BY <2>2, <3>1, FS_EmptySet DEF Counted, Settled
  <2> QED  BY <2>1, <2>2 DEF LibcoapInUse
<1> QED  BY <1>1, LinkInit, LinkStep, PTL DEF Spec

-----------------------------------------------------------------------------
(* send: the types of its variables. *)
SendTypes ==
    /\ next_token \in [Connections -> 0 .. MaxSends]
    /\ stack \in [Connections -> Seq(Pending)]
    /\ current \in [Connections -> Nat]
    /\ net \in [Connections -> [Tokens -> {"none", "sent", "answered"}]]
    /\ ended \in [Connections -> [Tokens -> {No, Failed} \cup Tokens]]

(* Tokens that were not taken yet have left no trace. *)
Untaken ==
    \A c \in Connections : \A t \in Tokens :
        t > next_token[c] => net[c][t] = "none" /\ ended[c][t] = No

(* A call under way has taken its token and has not returned. *)
UnderWay ==
    \A c \in Connections : \A i \in 1 .. Len(stack[c]) :
        stack[c][i].token <= next_token[c] /\ ended[c][stack[c][i].token] = No

(* Its token is its own. *)
Distinct ==
    \A c \in Connections : \A i, j \in 1 .. Len(stack[c]) :
        stack[c][i].token = stack[c][j].token => i = j

(* It holds nothing but the server's answer to that token. *)
RightAnswer ==
    \A c \in Connections : \A i \in 1 .. Len(stack[c]) :
        stack[c][i].got # No =>
            /\ stack[c][i].got = stack[c][i].token
            /\ net[c][stack[c][i].token] = "answered"

(* A request that was sent belongs to a call under way or one that ended.  *)
Owned ==
    \A c \in Connections : \A t \in Tokens :
        net[c][t] # "none" =>
            \/ ended[c][t] # No
            \/ \E i \in 1 .. Len(stack[c]) : stack[c][i].token = t

(* A call returns an error or the answer to its own token. *)
Own == \A c \in Connections : \A t \in Tokens : ended[c][t] \in {No, Failed, t}

SendInv ==
    /\ SendTypes /\ NoDangling /\ Untaken /\ UnderWay /\ Distinct /\ RightAnswer
    /\ Owned /\ Own

-----------------------------------------------------------------------------
(* What pushing a frame on a stack does. *)
LEMMA PushFacts ==
    ASSUME NEW S, NEW s \in Seq(S), NEW e \in S
    PROVE  /\ Append(s, e) \in Seq(S) /\ Len(Append(s, e)) = Len(s) + 1
           /\ Len(s) \in Nat
           /\ \A i \in 1 .. Len(s) : Append(s, e)[i] = s[i]
           /\ Append(s, e)[Len(s) + 1] = e
OBVIOUS

(* What replacing a frame does. *)
LEMMA UpdateFacts ==
    ASSUME NEW S, NEW s \in Seq(S), NEW k \in 1 .. Len(s), NEW e \in S
    PROVE  /\ [s EXCEPT ![k] = e] \in Seq(S) /\ Len([s EXCEPT ![k] = e]) = Len(s)
           /\ \A i \in 1 .. Len(s) : [s EXCEPT ![k] = e][i] = IF i = k THEN e ELSE s[i]
BY ExceptSeq

(* What a call leaves on the stack when it returns is what lay under it.   *)
LEMMA PopFacts ==
    ASSUME NEW S, NEW s \in Seq(S), s # <<>>
    PROVE  /\ SubSeq(s, 1, Len(s) - 1) \in Seq(S)
           /\ Len(SubSeq(s, 1, Len(s) - 1)) = Len(s) - 1
           /\ \A i \in 1 .. Len(s) - 1 : SubSeq(s, 1, Len(s) - 1)[i] = s[i]
           /\ Len(s) \in Nat \ {0}
<1>1. Len(s) \in Nat \ {0}  BY EmptySeq
<1>2. \A i \in 1 .. Len(s) - 1 : s[i] \in S  BY <1>1, ElementOfSeq
<1>3. /\ SubSeq(s, 1, Len(s) - 1) \in Seq(S)
      /\ Len(SubSeq(s, 1, Len(s) - 1)) = IF 1 <= Len(s) - 1 THEN Len(s) - 1 - 1 + 1 ELSE 0
      /\ \A i \in 1 .. Len(s) - 1 - 1 + 1 : SubSeq(s, 1, Len(s) - 1)[i] = s[1 + i - 1]
  BY <1>1, <1>2, SubSeqProperties
<1>4. Len(SubSeq(s, 1, Len(s) - 1)) = Len(s) - 1
  <2>1. \A n \in Nat \ {0} : (IF 1 <= n - 1 THEN n - 1 - 1 + 1 ELSE 0) = n - 1  OBVIOUS
  <2> QED  BY <1>1, <1>3, <2>1, Zenon
<1>5. ASSUME NEW i \in 1 .. Len(s) - 1
      PROVE  SubSeq(s, 1, Len(s) - 1)[i] = s[i]
  <2>1. i \in 1 .. Len(s) - 1 - 1 + 1 /\ 1 + i - 1 = i  BY <1>1
  <2>2. SubSeq(s, 1, Len(s) - 1)[i] = s[1 + i - 1]  BY <1>3, <2>1
  <2> QED  BY <2>1, <2>2
<1> QED  BY <1>1, <1>3, <1>4, <1>5

(* The frames of a stack. *)
LEMMA Frames ==
    ASSUME SendTypes, NEW c \in Connections
    PROVE  /\ stack[c] \in Seq(Pending) /\ Len(stack[c]) \in Nat
           /\ \A i \in 1 .. Len(stack[c]) :
                /\ stack[c][i] \in Pending
                /\ stack[c][i].token \in Tokens
                /\ stack[c][i].got \in {No} \cup Tokens
<1>1. stack[c] \in Seq(Pending) /\ Len(stack[c]) \in Nat  BY DEF SendTypes
<1>2. \A i \in 1 .. Len(stack[c]) : stack[c][i] \in Pending  BY <1>1, ElementOfSeq
<1>3. \A p \in Pending : p.token \in Tokens /\ p.got \in {No} \cup Tokens
  BY DEF Pending
<1> QED  BY <1>1, <1>2, <1>3

(* Tokens are positive numbers, so neither No nor Failed is one. *)
LEMMA TokenFacts ==
    /\ \A t \in Tokens : t \in Nat /\ t # No /\ t # Failed
    /\ No # Failed
    /\ \A n \in 0 .. MaxSends : n < MaxSends => n + 1 \in Tokens /\ n + 1 \in 0 .. MaxSends
BY CoapAssumption DEF Tokens, No, Failed

(* The steps that leave the variables of send alone. *)
LEMMA SendUnchanged ==
    ASSUME SendInv, UNCHANGED sendVars
    PROVE  SendInv'
<1> USE DEF SendInv, sendVars
<1>1. SendTypes'  BY DEF SendTypes
<1>2. NoDangling'  BY DEF NoDangling, Top
<1>3. Untaken'  BY DEF Untaken
<1>4. UnderWay'  BY DEF UnderWay
<1>5. Distinct'  BY DEF Distinct
<1>6. RightAnswer'  BY DEF RightAnswer
<1>7. Owned'  BY DEF Owned
<1>8. Own'  BY DEF Own
<1> QED  BY <1>1, <1>2, <1>3, <1>4, <1>5, <1>6, <1>7, <1>8

(* A call of send that sends its request pushes a frame with a new token.  *)
LEMMA SendKeeps ==
    ASSUME SendInv, NEW c \in Connections, Send(c)
    PROVE  SendInv'
<1> DEFINE n == next_token[c] + 1
           e == [token |-> n, got |-> No]
           k == Len(stack[c])
<1> USE DEF SendInv
<1>1. /\ next_token[c] \in 0 .. MaxSends /\ n \in Tokens /\ n \in 0 .. MaxSends
      /\ next_token' = [next_token EXCEPT ![c] = n] /\ next_token'[c] = n
  BY TokenFacts DEF Send, TakeToken, SendTypes
<1>2. e \in Pending  BY <1>1 DEF Pending
<1>3. stack' = [stack EXCEPT ![c] = Append(stack[c], e)]  BY <1>1 DEF Send
<1>4. stack'[c] = Append(stack[c], e)  BY <1>3 DEF SendTypes
<1>5. \A d \in Connections : d # c => stack'[d] = stack[d]  BY <1>3 DEF SendTypes
<1>6. stack[c] \in Seq(Pending)  BY Frames
<1>7. /\ stack'[c] \in Seq(Pending) /\ Len(stack'[c]) = k + 1 /\ k \in Nat
      /\ \A i \in 1 .. k : stack'[c][i] = stack[c][i]
      /\ stack'[c][k + 1] = e
  BY <1>2, <1>4, <1>6, PushFacts
<1>8. net' = [net EXCEPT ![c] = [net[c] EXCEPT ![n] = "sent"]] /\ ended' = ended
      /\ current' = [current EXCEPT ![c] = k + 1]
  BY <1>1 DEF Send
<1>9. SendTypes'
  <2>1. stack' \in [Connections -> Seq(Pending)]  BY <1>3, <1>4, <1>7 DEF SendTypes
  <2>2. net' \in [Connections -> [Tokens -> {"none", "sent", "answered"}]]
    BY <1>1, <1>8 DEF SendTypes
  <2>3. /\ next_token' \in [Connections -> 0 .. MaxSends]
        /\ current' \in [Connections -> Nat]
    BY <1>1, <1>7, <1>8 DEF SendTypes
  <2> QED  BY <2>1, <2>2, <2>3, <1>8 DEF SendTypes
<1>10. /\ \A d \in Connections : d # c => next_token'[d] = next_token[d] /\ net'[d] = net[d]
       /\ \A t \in Tokens : net'[c][t] = IF t = n THEN "sent" ELSE net[c][t]
  BY <1>1, <1>8 DEF SendTypes
<1>11. NoDangling'  BY <1>5, <1>7, <1>8 DEF NoDangling, Top, SendTypes
<1>12. Untaken'  BY <1>1, <1>8, <1>10, TokenFacts DEF Untaken
<1>13. Own'  BY <1>8 DEF Own
<1>14. n > next_token[c] /\ ended[c][n] = No  BY <1>1 DEF Untaken
<1>15. \A i \in 1 .. k : stack[c][i].token \in Tokens /\ stack[c][i].token # n
                         /\ stack[c][i].token <= n
  BY <1>1, Frames, TokenFacts DEF UnderWay
<1>16. \A i \in 1 .. Len(stack'[c]) : i \in 1 .. k \/ i = k + 1  BY <1>7
<1>17. e.token = n /\ e.got = No  OBVIOUS
<1>18. UnderWay'
  <2> SUFFICES ASSUME NEW d \in Connections, NEW i \in 1 .. Len(stack'[d])
               PROVE  stack'[d][i].token <= next_token'[d] /\ ended'[d][stack'[d][i].token] = No
    BY DEF UnderWay
  <2>1. CASE d # c  BY <2>1, <1>5, <1>8, <1>10 DEF UnderWay
  <2>2. CASE d = c /\ i \in 1 .. k
    <3>1. stack'[d][i] = stack[c][i]  BY <2>2, <1>7
    <3>2. ended[c][stack[c][i].token] = No  BY <2>2 DEF UnderWay
    <3> QED  BY <2>2, <3>1, <3>2, <1>1, <1>8, <1>15
  <2>3. CASE d = c /\ i = k + 1  BY <2>3, <1>1, <1>7, <1>8, <1>14, <1>17
  <2> QED  BY <2>1, <2>2, <2>3, <1>16
<1>19. Distinct'
  <2> SUFFICES ASSUME NEW d \in Connections,
                      NEW i \in 1 .. Len(stack'[d]), NEW j \in 1 .. Len(stack'[d]),
                      stack'[d][i].token = stack'[d][j].token
               PROVE  i = j
    BY DEF Distinct
  <2>1. CASE d # c  BY <2>1, <1>5 DEF Distinct
  <2>2. CASE d = c /\ i \in 1 .. k /\ j \in 1 .. k  BY <2>2, <1>7 DEF Distinct
  <2>3. CASE d = c /\ i \in 1 .. k /\ j = k + 1  BY <2>3, <1>7, <1>15, <1>17
  <2>4. CASE d = c /\ i = k + 1 /\ j \in 1 .. k  BY <2>4, <1>7, <1>15, <1>17
  <2>5. CASE d = c /\ i = k + 1 /\ j = k + 1  BY <2>5
  <2> QED  BY <2>1, <2>2, <2>3, <2>4, <2>5, <1>16
<1>20. RightAnswer'
  <2> SUFFICES ASSUME NEW d \in Connections, NEW i \in 1 .. Len(stack'[d]),
                      stack'[d][i].got # No
               PROVE  /\ stack'[d][i].got = stack'[d][i].token
                      /\ net'[d][stack'[d][i].token] = "answered"
    BY DEF RightAnswer
  <2>1. CASE d # c  BY <2>1, <1>5, <1>10 DEF RightAnswer
  <2>2. CASE d = c /\ i \in 1 .. k
    <3>1. stack'[d][i] = stack[c][i]  BY <2>2, <1>7
    <3>2. stack[c][i].got = stack[c][i].token /\ net[c][stack[c][i].token] = "answered"
      BY <2>2, <3>1 DEF RightAnswer
    <3>3. net'[c][stack[c][i].token] = net[c][stack[c][i].token]  BY <2>2, <1>10, <1>15
    <3> QED  BY <2>2, <3>1, <3>2, <3>3
  <2>3. CASE d = c /\ i = k + 1  BY <2>3, <1>7, <1>17
  <2> QED  BY <2>1, <2>2, <2>3, <1>16
<1>21. Owned'
  <2> SUFFICES ASSUME NEW d \in Connections, NEW t \in Tokens, net'[d][t] # "none"
               PROVE  \/ ended'[d][t] # No
                      \/ \E i \in 1 .. Len(stack'[d]) : stack'[d][i].token = t
    BY DEF Owned
  <2>1. CASE d # c  BY <2>1, <1>5, <1>8, <1>10 DEF Owned
  <2>2. CASE d = c /\ t = n
    <3>1. k + 1 \in 1 .. Len(stack'[c])  BY <1>7
    <3> QED  BY <2>2, <3>1, <1>7, <1>17
  <2>3. CASE d = c /\ t # n  BY <2>3, <1>7, <1>8, <1>10 DEF Owned
  <2> QED  BY <2>1, <2>2, <2>3
<1> QED  BY <1>9, <1>11, <1>12, <1>13, <1>18, <1>19, <1>20, <1>21

(* A call that fails before it waits leaves the stack alone. *)
LEMMA SendFailsKeeps ==
    ASSUME SendInv, NEW c \in Connections, NEW fits \in BOOLEAN, SendFails(c, fits)
    PROVE  SendInv'
<1> DEFINE n == next_token[c] + 1
<1> USE DEF SendInv
<1>1. /\ next_token[c] \in 0 .. MaxSends /\ n \in Tokens /\ n \in 0 .. MaxSends
      /\ next_token' = [next_token EXCEPT ![c] = n] /\ next_token'[c] = n
  BY TokenFacts DEF SendFails, TakeToken, SendTypes
<1>2. ended' = [ended EXCEPT ![c] = [ended[c] EXCEPT ![n] = Failed]] /\ stack' = stack /\ net' = net
  BY <1>1 DEF SendFails
<1>3. /\ \A d \in Connections : d # c => next_token'[d] = next_token[d] /\ ended'[d] = ended[d]
      /\ \A t \in Tokens : ended'[c][t] = IF t = n THEN Failed ELSE ended[c][t]
  BY <1>1, <1>2 DEF SendTypes
<1>4. current' \in [Connections -> Nat] /\ \A d \in Connections : current'[d] \in {0, current[d]}
  BY DEF SendFails, SendTypes
<1>5. SendTypes'  BY <1>1, <1>2, <1>4 DEF SendTypes
<1>6. NoDangling'  BY <1>2, <1>4 DEF NoDangling, Top
<1>7. Untaken'  BY <1>1, <1>2, <1>3, TokenFacts DEF Untaken
<1>8. Own'  BY <1>3 DEF Own
<1>9. Distinct' /\ RightAnswer'  BY <1>2 DEF Distinct, RightAnswer
<1>10. \A i \in 1 .. Len(stack[c]) : stack[c][i].token \in Tokens /\ stack[c][i].token # n
                                     /\ stack[c][i].token <= n
  BY <1>1, Frames, TokenFacts DEF UnderWay
<1>11. UnderWay'
  <2> SUFFICES ASSUME NEW d \in Connections, NEW i \in 1 .. Len(stack[d])
               PROVE  stack[d][i].token <= next_token'[d] /\ ended'[d][stack[d][i].token] = No
    BY <1>2 DEF UnderWay
  <2>1. CASE d # c  BY <2>1, <1>3 DEF UnderWay
  <2>2. CASE d = c  BY <2>2, <1>1, <1>3, <1>10 DEF UnderWay
  <2> QED  BY <2>1, <2>2
<1>12. Owned'
  <2>1. \A d \in Connections : \A t \in Tokens : ended[d][t] # No => ended'[d][t] # No
    BY <1>3, TokenFacts
  <2> QED  BY <2>1, <1>2 DEF Owned
<1> QED  BY <1>5, <1>6, <1>7, <1>8, <1>9, <1>11, <1>12

(* The server's answer belongs to a request that was sent. *)
LEMMA ServerAnswersKeeps ==
    ASSUME SendInv, NEW c \in Connections, NEW t \in Tokens, ServerAnswers(c, t)
    PROVE  SendInv'
<1> USE DEF SendInv
<1>1. /\ net' = [net EXCEPT ![c] = [net[c] EXCEPT ![t] = "answered"]] /\ net[c][t] = "sent"
      /\ UNCHANGED <<next_token, stack, current, ended>>
  BY DEF ServerAnswers
<1>2. \A d \in Connections : \A u \in Tokens :
        net'[d][u] = IF d = c /\ u = t THEN "answered" ELSE net[d][u]
  BY <1>1 DEF SendTypes
<1>3. SendTypes'  BY <1>1 DEF SendTypes
<1>4. NoDangling'  BY <1>1 DEF NoDangling, Top
<1>5. Untaken'  BY <1>1, <1>2 DEF Untaken
<1>6. UnderWay' /\ Distinct' /\ Own'  BY <1>1 DEF UnderWay, Distinct, Own
<1>7. RightAnswer'
  <2> SUFFICES ASSUME NEW d \in Connections, NEW i \in 1 .. Len(stack[d]), stack[d][i].got # No
               PROVE  /\ stack[d][i].got = stack[d][i].token
                      /\ net'[d][stack[d][i].token] = "answered"
    BY <1>1 DEF RightAnswer
  <2>1. stack[d][i].token \in Tokens  BY Frames
  <2> QED  BY <2>1, <1>2 DEF RightAnswer
<1>8. Owned'  BY <1>1, <1>2 DEF Owned
<1> QED  BY <1>3, <1>4, <1>5, <1>6, <1>7, <1>8

(* response_handler fills in the running call, if the token is its own.    *)
LEMMA ResponseKeeps ==
    ASSUME SendInv, NEW c \in Connections, NEW t \in Tokens, response_handler(c, t)
    PROVE  SendInv'
<1> DEFINE k == current[c]
           e == [stack[c][k] EXCEPT !.got = t]
<1> USE DEF SendInv
<1>1. stack[c] \in Seq(Pending) /\ Len(stack[c]) \in Nat  BY Frames
<1>2. /\ k \in 1 .. Len(stack[c]) /\ stack[c][k].token = t /\ net[c][t] = "answered"
      /\ UNCHANGED <<next_token, current, net, ended>>
  BY <1>1 DEF response_handler, Expected, NoDangling, Top
<1>3. stack' = [stack EXCEPT ![c] = [stack[c] EXCEPT ![k] = e]]  BY DEF response_handler
<1>4. stack[c][k] \in Pending  BY <1>2, Frames
<1>5. e \in Pending /\ e.token = t /\ e.got = t  BY <1>2, <1>4 DEF Pending
<1>6. stack'[c] = [stack[c] EXCEPT ![k] = e]  BY <1>3 DEF SendTypes
<1>7. \A d \in Connections : d # c => stack'[d] = stack[d]  BY <1>3 DEF SendTypes
<1>8. /\ stack'[c] \in Seq(Pending) /\ Len(stack'[c]) = Len(stack[c])
      /\ \A i \in 1 .. Len(stack[c]) : stack'[c][i] = IF i = k THEN e ELSE stack[c][i]
  BY <1>1, <1>2, <1>5, <1>6, UpdateFacts
<1>9. \A d \in Connections :
        /\ Len(stack'[d]) = Len(stack[d])
        /\ \A i \in 1 .. Len(stack[d]) : stack'[d][i].token = stack[d][i].token
  <2> SUFFICES ASSUME NEW d \in Connections
               PROVE  /\ Len(stack'[d]) = Len(stack[d])
                      /\ \A i \in 1 .. Len(stack[d]) : stack'[d][i].token = stack[d][i].token
    OBVIOUS
  <2>1. CASE d # c  BY <2>1, <1>7
  <2>2. CASE d = c  BY <2>2, <1>2, <1>5, <1>8
  <2> QED  BY <2>1, <2>2
<1>10. SendTypes'
  <2>1. stack' \in [Connections -> Seq(Pending)]  BY <1>3, <1>6, <1>8 DEF SendTypes
  <2> QED  BY <2>1, <1>2 DEF SendTypes
<1>11. NoDangling'  BY <1>2, <1>9 DEF NoDangling, Top
<1>12. Untaken' /\ Own'  BY <1>2 DEF Untaken, Own
<1>13. UnderWay'  BY <1>2, <1>9 DEF UnderWay
<1>14. Distinct'  BY <1>9 DEF Distinct
<1>15. Owned'
  <2> SUFFICES ASSUME NEW d \in Connections, NEW u \in Tokens, net[d][u] # "none", ended[d][u] = No
               PROVE  \E i \in 1 .. Len(stack'[d]) : stack'[d][i].token = u
    BY <1>2 DEF Owned
  <2>1. PICK i \in 1 .. Len(stack[d]) : stack[d][i].token = u  BY DEF Owned
  <2> QED  BY <2>1, <1>9
<1>16. RightAnswer'
  <2> SUFFICES ASSUME NEW d \in Connections, NEW i \in 1 .. Len(stack'[d]),
                      stack'[d][i].got # No
               PROVE  /\ stack'[d][i].got = stack'[d][i].token
                      /\ net[d][stack'[d][i].token] = "answered"
    BY <1>2 DEF RightAnswer
  <2>1. CASE d # c  BY <2>1, <1>7 DEF RightAnswer
  <2>2. CASE d = c /\ i = k
    <3>1. stack'[c][k] = e  BY <1>2, <1>8
    <3> QED  BY <2>2, <3>1, <1>2, <1>5
  <2>3. CASE d = c /\ i # k
    <3>1. i \in 1 .. Len(stack[c]) /\ stack'[c][i] = stack[c][i]  BY <2>3, <1>8
    <3> QED  BY <2>3, <3>1 DEF RightAnswer
  <2> QED  BY <2>1, <2>2, <2>3
<1> QED  BY <1>10, <1>11, <1>12, <1>13, <1>14, <1>15, <1>16

(* A call that returns leaves the calls under it as they were. *)
LEMMA ReturnKeeps ==
    ASSUME SendInv, NEW c \in Connections, SendReturns(c)
    PROVE  SendInv'
<1> DEFINE k == Len(stack[c])
           p == stack[c][k]
           v == IF p.got = No THEN Failed ELSE p.got
<1> USE DEF SendInv
<1>1. /\ stack[c] # <<>> /\ stack' = [stack EXCEPT ![c] = SubSeq(stack[c], 1, k - 1)]
      /\ current' = [current EXCEPT ![c] = 0]
      /\ ended' = [ended EXCEPT ![c] = [ended[c] EXCEPT ![p.token] = v]]
      /\ UNCHANGED <<next_token, net>>
  BY DEF SendReturns, Forget, Top
<1>2. stack[c] \in Seq(Pending)  BY Frames
<1>3. stack'[c] = SubSeq(stack[c], 1, k - 1)  BY <1>1 DEF SendTypes
<1>4. \A d \in Connections : d # c => stack'[d] = stack[d]  BY <1>1 DEF SendTypes
<1>5. /\ stack'[c] \in Seq(Pending) /\ Len(stack'[c]) = k - 1 /\ k \in Nat \ {0}
      /\ \A i \in 1 .. k - 1 : stack'[c][i] = stack[c][i]
  BY <1>1, <1>2, <1>3, PopFacts
<1>6. k \in 1 .. k  BY <1>5
<1>7. p.token \in Tokens /\ p.got \in {No} \cup Tokens  BY <1>6, Frames
<1>8. p.token <= next_token[c] /\ v \in {Failed, p.token} /\ v # No
  BY <1>6, <1>7, TokenFacts DEF UnderWay, RightAnswer
<1>9. \A d \in Connections : \A t \in Tokens :
        ended'[d][t] = IF d = c /\ t = p.token THEN v ELSE ended[d][t]
  BY <1>1, <1>7 DEF SendTypes
<1>10. SendTypes'
  <2>1. stack' \in [Connections -> Seq(Pending)]  BY <1>1, <1>3, <1>5 DEF SendTypes
  <2>2. v \in {No, Failed} \cup Tokens  BY <1>7, <1>8
  <2>3. ended' \in [Connections -> [Tokens -> {No, Failed} \cup Tokens]]
    BY <1>1, <1>7, <2>2 DEF SendTypes
  <2>4. current' \in [Connections -> Nat]  BY <1>1 DEF SendTypes
  <2> QED  BY <2>1, <2>3, <2>4, <1>1 DEF SendTypes
<1>11. NoDangling'  BY <1>1, <1>4 DEF NoDangling, Top, SendTypes
<1>12. Own'  BY <1>8, <1>9 DEF Own
<1>13. next_token[c] \in Nat  BY DEF SendTypes
<1>14. Untaken'  BY <1>1, <1>7, <1>8, <1>9, <1>13, TokenFacts DEF Untaken
<1>15. \A i \in 1 .. k - 1 : i \in 1 .. k /\ i # k  BY <1>5
<1>16. \A i \in 1 .. k - 1 : stack[c][i].token # p.token
  BY <1>6, <1>15 DEF Distinct
<1>17. UnderWay'
  <2> SUFFICES ASSUME NEW d \in Connections, NEW i \in 1 .. Len(stack'[d])
               PROVE  stack'[d][i].token <= next_token[d] /\ ended'[d][stack'[d][i].token] = No
    BY <1>1 DEF UnderWay
  <2>1. CASE d # c
    <3>1. i \in 1 .. Len(stack[d]) /\ stack[d][i].token \in Tokens  BY <2>1, <1>4, Frames
    <3> QED  BY <2>1, <3>1, <1>4, <1>9 DEF UnderWay
  <2>2. CASE d = c
    <3>1. /\ i \in 1 .. k - 1 /\ i \in 1 .. k /\ stack'[c][i] = stack[c][i]
          /\ stack[c][i].token \in Tokens
      BY <2>2, <1>5, <1>15, Frames
    <3> QED  BY <2>2, <3>1, <1>9, <1>16 DEF UnderWay
  <2> QED  BY <2>1, <2>2
<1>18. Distinct'
  <2> SUFFICES ASSUME NEW d \in Connections,
                      NEW i \in 1 .. Len(stack'[d]), NEW j \in 1 .. Len(stack'[d]),
                      stack'[d][i].token = stack'[d][j].token
               PROVE  i = j
    BY DEF Distinct
  <2>1. CASE d # c  BY <2>1, <1>4 DEF Distinct
  <2>2. CASE d = c
    <3>1. /\ i \in 1 .. k /\ stack'[c][i] = stack[c][i]
          /\ j \in 1 .. k /\ stack'[c][j] = stack[c][j]
      BY <2>2, <1>5, <1>15
    <3> QED  BY <2>2, <3>1 DEF Distinct
  <2> QED  BY <2>1, <2>2
<1>19. RightAnswer'
  <2> SUFFICES ASSUME NEW d \in Connections, NEW i \in 1 .. Len(stack'[d]),
                      stack'[d][i].got # No
               PROVE  /\ stack'[d][i].got = stack'[d][i].token
                      /\ net[d][stack'[d][i].token] = "answered"
    BY <1>1 DEF RightAnswer
  <2>1. CASE d # c  BY <2>1, <1>4 DEF RightAnswer
  <2>2. CASE d = c
    <3>1. i \in 1 .. k /\ stack'[c][i] = stack[c][i]  BY <2>2, <1>5, <1>15
    <3> QED  BY <2>2, <3>1 DEF RightAnswer
  <2> QED  BY <2>1, <2>2
<1>20. Owned'
  <2> SUFFICES ASSUME NEW d \in Connections, NEW t \in Tokens,
                      net[d][t] # "none", ended'[d][t] = No
               PROVE  \E i \in 1 .. Len(stack'[d]) : stack'[d][i].token = t
    BY <1>1 DEF Owned
  <2>1. ended[d][t] = No /\ ~(d = c /\ t = p.token)  BY <1>8, <1>9
  <2>2. PICK i \in 1 .. Len(stack[d]) : stack[d][i].token = t  BY <2>1 DEF Owned
  <2>3. CASE d # c  BY <2>2, <2>3, <1>4
  <2>4. CASE d = c
    <3>1. i # k  BY <2>1, <2>2, <2>4
    <3>2. i \in 1 .. k - 1  BY <3>1, <2>2, <2>4, <1>5
    <3> QED  BY <2>2, <2>4, <3>2, <1>5
  <2> QED  BY <2>3, <2>4
<1> QED  BY <1>10, <1>11, <1>12, <1>14, <1>17, <1>18, <1>19, <1>20

(* The steps of connect(), disconnect() and the events leave send alone.   *)
LEMMA LinkLeavesSend ==
    ASSUME NEW c \in Connections,
           \/ \E account \in Accounts : BeginConnect(c, account)
           \/ BeginDisconnect(c) \/ CoapCleanup(c) \/ FetchAdd(c) \/ CoapStartup(c)
           \/ NoContext(c) \/ NewContext(c) \/ Connected(c) \/ ConnectFails(c)
           \/ \E isUp \in BOOLEAN : SessionEvent(c, isUp)
    PROVE  UNCHANGED sendVars
BY DEF BeginConnect, BeginDisconnect, CoapCleanup, FetchAdd, CoapStartup,
       NoContext, NewContext, Connected, ConnectFails, SessionEvent

(* Every step keeps the invariant of send. *)
LEMMA SendStep ==
    ASSUME SendInv, [Next]_vars
    PROVE  SendInv'
<1>1. CASE UNCHANGED vars  BY <1>1, SendUnchanged DEF vars
<1>2. ASSUME NEW c \in Connections,
             \/ \E account \in Accounts : BeginConnect(c, account)
             \/ BeginDisconnect(c) \/ CoapCleanup(c) \/ FetchAdd(c) \/ CoapStartup(c)
             \/ NoContext(c) \/ NewContext(c) \/ Connected(c) \/ ConnectFails(c)
             \/ \E isUp \in BOOLEAN : SessionEvent(c, isUp)
      PROVE  SendInv'
  BY <1>2, LinkLeavesSend, SendUnchanged
<1> QED
  BY <1>1, <1>2, SendKeeps, SendFailsKeeps, ServerAnswersKeeps, ResponseKeeps, ReturnKeeps DEF Next

(* The invariant of send holds when nothing has been sent. *)
LEMMA SendInit ==
    ASSUME Init
    PROVE  SendInv
<1>1. SendTypes  BY CoapAssumption, EmptySeq DEF Init, SendTypes
<1>2. \A c \in Connections : Len(stack[c]) = 0  BY EmptySeq DEF Init
<1>3. NoDangling  BY DEF Init, NoDangling
<1>4. Untaken /\ Own /\ Owned  BY DEF Init, Untaken, Own, Owned
<1>5. UnderWay /\ Distinct /\ RightAnswer  BY <1>2 DEF UnderWay, Distinct, RightAnswer
<1> QED  BY <1>1, <1>3, <1>4, <1>5 DEF SendInv

(* NoDangling of every reachable state: however calls of send nest, no     *)
(* response is written to a PendingResponse that is gone or is not the one *)
(* of the running call (coap_client.cpp:437-458).                          *)
THEOREM NoDanglingCorrect == Spec => []NoDangling
<1>1. SendInv => NoDangling  BY DEF SendInv
<1> QED  BY <1>1, SendInit, SendStep, PTL DEF Spec

-----------------------------------------------------------------------------
(* The contract of send, seen from the connections. *)

(* The tokens on a stack are those of its frames. *)
TokensOf(s) == {s[i].token : i \in DOMAIN s}

LEMMA TokensOfFrames ==
    ASSUME NEW s \in Seq(Pending)
    PROVE  /\ TokensOf(s) \subseteq Tokens
           /\ \A t : t \in TokensOf(s) <=> \E i \in 1 .. Len(s) : s[i].token = t
<1>1. DOMAIN s = 1 .. Len(s)  BY LenProperties
<1>2. \A i \in 1 .. Len(s) : s[i] \in Pending  BY ElementOfSeq
<1>3. \A p \in Pending : p.token \in Tokens  BY DEF Pending
<1> QED  BY <1>1, <1>2, <1>3 DEF TokensOf

(* A push adds a token, and replacing a frame by one with its token none.  *)
LEMMA PushTokens ==
    ASSUME NEW s \in Seq(Pending), NEW e \in Pending
    PROVE  TokensOf(Append(s, e)) = TokensOf(s) \cup {e.token}
<1> DEFINE r == Append(s, e)
<1>1. /\ r \in Seq(Pending) /\ Len(r) = Len(s) + 1 /\ Len(s) \in Nat
      /\ \A i \in 1 .. Len(s) : r[i] = s[i]
      /\ r[Len(s) + 1] = e
  BY PushFacts
<1> HIDE DEF r
<1>2. \A t : t \in TokensOf(r) <=> \E i \in 1 .. Len(r) : r[i].token = t  BY <1>1, TokensOfFrames
<1>3. \A t : t \in TokensOf(s) <=> \E i \in 1 .. Len(s) : s[i].token = t  BY TokensOfFrames
<1>4. \A i : i \in 1 .. Len(r) <=> i \in 1 .. Len(s) \/ i = Len(s) + 1  BY <1>1
<1>5. ASSUME NEW t \in TokensOf(r)
      PROVE  t \in TokensOf(s) \cup {e.token}
  <2>1. PICK i \in 1 .. Len(r) : r[i].token = t  BY <1>2
  <2>2. CASE i \in 1 .. Len(s)  BY <1>1, <1>3, <2>1, <2>2
  <2>3. CASE i = Len(s) + 1  BY <1>1, <2>1, <2>3
  <2> QED  BY <1>4, <2>2, <2>3
<1>6. ASSUME NEW t \in TokensOf(s) \cup {e.token}
      PROVE  t \in TokensOf(r)
  <2>1. CASE t \in TokensOf(s)
    <3>1. PICK i \in 1 .. Len(s) : s[i].token = t  BY <1>3, <2>1
    <3> QED  BY <1>1, <1>2, <1>4, <3>1
  <2>2. CASE t = e.token
    <3>1. Len(s) + 1 \in 1 .. Len(r) /\ r[Len(s) + 1].token = t  BY <1>1, <2>2
    <3> QED  BY <1>2, <3>1
  <2> QED  BY <2>1, <2>2
<1> QED  BY <1>5, <1>6 DEF r

LEMMA UpdateTokens ==
    ASSUME NEW s \in Seq(Pending), NEW k \in 1 .. Len(s), NEW e \in Pending,
           e.token = s[k].token
    PROVE  TokensOf([s EXCEPT ![k] = e]) = TokensOf(s)
<1> DEFINE r == [s EXCEPT ![k] = e]
<1>1. /\ r \in Seq(Pending) /\ Len(r) = Len(s)
      /\ \A i \in 1 .. Len(s) : r[i] = IF i = k THEN e ELSE s[i]
  BY UpdateFacts
<1> HIDE DEF r
<1>2. \A t : t \in TokensOf(r) <=> \E i \in 1 .. Len(r) : r[i].token = t  BY <1>1, TokensOfFrames
<1>3. \A t : t \in TokensOf(s) <=> \E i \in 1 .. Len(s) : s[i].token = t  BY TokensOfFrames
<1>4. \A i \in 1 .. Len(s) : r[i].token = s[i].token  BY <1>1
<1>5. \A t : t \in TokensOf(r) <=> t \in TokensOf(s)  BY <1>1, <1>2, <1>3, <1>4
<1> QED  BY <1>5 DEF r

(* A pop takes the token of the top, if no other frame has it. *)
LEMMA PopTokens ==
    ASSUME NEW s \in Seq(Pending), s # <<>>,
           \A i \in 1 .. Len(s) - 1 : s[i].token # s[Len(s)].token
    PROVE  TokensOf(SubSeq(s, 1, Len(s) - 1)) = TokensOf(s) \ {s[Len(s)].token}
<1> DEFINE r == SubSeq(s, 1, Len(s) - 1)
<1>1. /\ r \in Seq(Pending) /\ Len(r) = Len(s) - 1 /\ Len(s) \in Nat \ {0}
      /\ \A i \in 1 .. Len(s) - 1 : r[i] = s[i]
  BY PopFacts
<1> HIDE DEF r
<1>2. \A t : t \in TokensOf(r) <=> \E i \in 1 .. Len(r) : r[i].token = t  BY <1>1, TokensOfFrames
<1>3. \A t : t \in TokensOf(s) <=> \E i \in 1 .. Len(s) : s[i].token = t  BY TokensOfFrames
<1>4. /\ \A i : i \in 1 .. Len(s) <=> i \in 1 .. Len(s) - 1 \/ i = Len(s)
      /\ Len(r) = Len(s) - 1
  BY <1>1
<1>5. ASSUME NEW t \in TokensOf(r)
      PROVE  t \in TokensOf(s) \ {s[Len(s)].token}
  <2>1. PICK i \in 1 .. Len(r) : r[i].token = t  BY <1>2
  <2>2. i \in 1 .. Len(s) - 1 /\ i \in 1 .. Len(s) /\ s[i].token = t  BY <1>1, <1>4, <2>1
  <2>3. t \in TokensOf(s)  BY <1>3, <2>2
  <2> QED  BY <2>2, <2>3
<1>6. ASSUME NEW t \in TokensOf(s) \ {s[Len(s)].token}
      PROVE  t \in TokensOf(r)
  <2>1. PICK i \in 1 .. Len(s) : s[i].token = t  BY <1>3
  <2>2. i \in 1 .. Len(r) /\ r[i].token = t  BY <1>1, <1>4, <2>1
  <2> QED  BY <1>2, <2>2
<1> QED  BY <1>5, <1>6 DEF r

(* What a call is in the contract. *)
LEMMA ContractView ==
    ASSUME NEW c \in Connections, NEW t \in Tokens
    PROVE  /\ OpenCalls[c] = TokensOf(stack[c])
           /\ t \in HeardCalls[c] <=> net[c][t] = "answered"
           /\ ended[c][t] = No => EndedCalls[c][t] = "no"
           /\ ended[c][t] = Failed => EndedCalls[c][t] = "failed"
           /\ ended[c][t] = t => EndedCalls[c][t] = "answered"
<1>1. OpenCalls[c] = TokensOf(stack[c])  BY DEF OpenCalls, TokensOf
<1>2. t \in HeardCalls[c] <=> net[c][t] = "answered"  BY DEF HeardCalls
<1>3. /\ ended[c][t] = No => EndedCalls[c][t] = "no"
      /\ ended[c][t] = Failed => EndedCalls[c][t] = "failed"
      /\ ended[c][t] = t => EndedCalls[c][t] = "answered"
  BY TokenFacts DEF EndedCalls, Outcome
<1> QED  BY <1>1, <1>2, <1>3

(* A token that is taken next is fresh in the contract. *)
LEMMA NextIsFresh ==
    ASSUME SendInv, NEW c \in Connections, NEW n \in Tokens, n = next_token[c] + 1
    PROVE  Contract!Fresh(c, n)
<1>1. next_token[c] \in Nat /\ n > next_token[c]  BY DEF SendInv, SendTypes
<1>2. ended[c][n] = No  BY <1>1 DEF SendInv, Untaken
<1>3. EndedCalls[c][n] = "no"  BY <1>2, ContractView
<1>4. n \notin OpenCalls[c]
  <2>1. \A i \in 1 .. Len(stack[c]) : stack[c][i].token \in Nat /\ stack[c][i].token <= next_token[c]
    BY Frames, TokenFacts DEF SendInv, UnderWay
  <2>2. stack[c] \in Seq(Pending)  BY Frames DEF SendInv
  <2> QED  BY <1>1, <2>1, <2>2, TokensOfFrames, ContractView
<1> QED  BY <1>3, <1>4 DEF Contract!Fresh

(* The maps of the contract when the variables they come from are unchanged. *)
LEMMA SameMaps ==
    /\ stack' = stack => OpenCalls' = OpenCalls
    /\ net' = net => HeardCalls' = HeardCalls
    /\ ended' = ended => EndedCalls' = EndedCalls
BY DEF OpenCalls, HeardCalls, EndedCalls

(* The open calls of the contract, now and in the next state. *)
LEMMA OpenIsTokens ==
    /\ OpenCalls = [c \in Connections |-> TokensOf(stack[c])]
    /\ OpenCalls' = [c \in Connections |-> TokensOf(stack'[c])]
BY DEF OpenCalls, TokensOf

(* A frame pushed is a call asked. *)
LEMMA SendIsAsk ==
    ASSUME SendInv, SendInv', NEW c \in Connections, Send(c)
    PROVE  Contract!Next
<1> DEFINE n == next_token[c] + 1
           e == [token |-> n, got |-> No]
<1>1. n \in Tokens /\ next_token'[c] = n
  BY TokenFacts DEF SendInv, Send, TakeToken, SendTypes
<1>2. e \in Pending /\ e.token = n  BY <1>1 DEF Pending
<1>3. stack[c] \in Seq(Pending) /\ Len(stack[c]) \in Nat  BY Frames DEF SendInv
<1>4. /\ stack' = [stack EXCEPT ![c] = Append(stack[c], e)] /\ ended' = ended
      /\ net' = [net EXCEPT ![c] = [net[c] EXCEPT ![n] = "sent"]]
  BY <1>1 DEF Send
<1>5. TokensOf(Append(stack[c], e)) = TokensOf(stack[c]) \cup {n}
  BY <1>2, <1>3, PushTokens
<1>6. OpenCalls' = [OpenCalls EXCEPT ![c] = OpenCalls[c] \cup {n}]
  <2>1. \A d \in Connections : TokensOf(stack'[d]) =
          IF d = c THEN TokensOf(stack[c]) \cup {n} ELSE TokensOf(stack[d])
    BY <1>4, <1>5 DEF SendInv, SendTypes
  <2> QED  BY <2>1, OpenIsTokens
<1>7. HeardCalls' = HeardCalls
  <2>1. net[c][n] = "none"  BY <1>1 DEF SendInv, SendTypes, Untaken
  <2>2. \A d \in Connections : \A t \in Tokens : net'[d][t] = "answered" <=> net[d][t] = "answered"
    BY <1>1, <1>4, <2>1 DEF SendInv, SendTypes
  <2> QED  BY <2>2 DEF HeardCalls
<1>8. EndedCalls' = EndedCalls  BY <1>4, SameMaps
<1>9. Contract!Ask(c, n)
  BY <1>1, <1>6, <1>7, <1>8, NextIsFresh DEF Contract!Ask
<1> QED  BY <1>1, <1>9 DEF Contract!Next

(* A call that fails before it waits is a call refused. *)
LEMMA SendFailsIsRefuse ==
    ASSUME SendInv, NEW c \in Connections, NEW fits \in BOOLEAN, SendFails(c, fits)
    PROVE  Contract!Next
<1> DEFINE n == next_token[c] + 1
<1>1. n \in Tokens /\ next_token'[c] = n
  BY TokenFacts DEF SendInv, SendFails, TakeToken, SendTypes
<1>2. /\ ended' = [ended EXCEPT ![c] = [ended[c] EXCEPT ![n] = Failed]]
      /\ stack' = stack /\ net' = net
  BY <1>1 DEF SendFails
<1>3. Outcome(n, Failed) = "failed"  BY <1>1, TokenFacts DEF Outcome
<1>4. EndedCalls' = [EndedCalls EXCEPT ![c] = [EndedCalls[c] EXCEPT ![n] = "failed"]]
  BY <1>1, <1>2, <1>3 DEF SendInv, SendTypes, EndedCalls
<1>5. Contract!Refuse(c, n)
  BY <1>1, <1>2, <1>4, SameMaps, NextIsFresh DEF Contract!Refuse
<1> QED  BY <1>1, <1>5 DEF Contract!Next

(* An answer of the server is an answer heard. *)
LEMMA AnswerIsHear ==
    ASSUME SendInv, NEW c \in Connections, NEW t \in Tokens, ServerAnswers(c, t)
    PROVE  Contract!Next
<1>1. /\ net' = [net EXCEPT ![c] = [net[c] EXCEPT ![t] = "answered"]] /\ net[c][t] = "sent"
      /\ stack' = stack /\ ended' = ended
  BY DEF ServerAnswers
<1>2. HeardCalls' = [HeardCalls EXCEPT ![c] = HeardCalls[c] \cup {t}]
  <2>1. \A d \in Connections : \A u \in Tokens :
          net'[d][u] = "answered" <=> net[d][u] = "answered" \/ (d = c /\ u = t)
    BY <1>1 DEF SendInv, SendTypes
  <2>2. \A d \in Connections :
          {u \in Tokens : net'[d][u] = "answered"} =
          IF d = c THEN {u \in Tokens : net[c][u] = "answered"} \cup {t}
          ELSE {u \in Tokens : net[d][u] = "answered"}
    BY <2>1
  <2> QED  BY <2>2 DEF HeardCalls
<1>3. ~Contract!Fresh(c, t)
  <2>1. CASE ended[c][t] # No
    <3>1. ended[c][t] \in {Failed, t}  BY <2>1 DEF SendInv, Own
    <3> QED  BY <3>1, ContractView DEF Contract!Fresh
  <2>2. CASE ended[c][t] = No
    <3>1. \E i \in 1 .. Len(stack[c]) : stack[c][i].token = t
      BY <1>1, <2>2 DEF SendInv, Owned
    <3>2. stack[c] \in Seq(Pending)  BY Frames DEF SendInv
    <3>3. t \in OpenCalls[c]  BY <3>1, <3>2, TokensOfFrames, ContractView
    <3> QED  BY <3>3 DEF Contract!Fresh
  <2> QED  BY <2>1, <2>2
<1>4. Contract!Hear(c, t)
  BY <1>1, <1>2, <1>3, SameMaps DEF Contract!Hear
<1> QED  BY <1>4 DEF Contract!Next

(* response_handler changes nothing the contract can see. *)
LEMMA ResponseIsStutter ==
    ASSUME SendInv, NEW c \in Connections, NEW t \in Tokens, response_handler(c, t)
    PROVE  UNCHANGED <<OpenCalls, HeardCalls, EndedCalls>>
<1> DEFINE k == current[c]
           e == [stack[c][k] EXCEPT !.got = t]
<1>1. stack[c] \in Seq(Pending) /\ Len(stack[c]) \in Nat  BY Frames DEF SendInv
<1>2. k \in 1 .. Len(stack[c]) /\ UNCHANGED <<net, ended>>
  BY <1>1 DEF SendInv, SendTypes, response_handler, Expected, NoDangling, Top
<1>3. stack' = [stack EXCEPT ![c] = [stack[c] EXCEPT ![k] = e]]  BY DEF response_handler
<1>4. stack[c][k] \in Pending  BY <1>2, Frames DEF SendInv
<1>5. e \in Pending /\ e.token = stack[c][k].token  BY <1>4 DEF Pending
<1>6. TokensOf([stack[c] EXCEPT ![k] = e]) = TokensOf(stack[c])
  BY <1>1, <1>2, <1>5, UpdateTokens
<1>7. OpenCalls' = OpenCalls
  <2>1. \A d \in Connections : TokensOf(stack'[d]) = TokensOf(stack[d])
    BY <1>3, <1>6 DEF SendInv, SendTypes
  <2> QED  BY <2>1, OpenIsTokens
<1> QED  BY <1>2, <1>7, SameMaps

(* A frame popped is a call that returns. *)
LEMMA ReturnIsReturn ==
    ASSUME SendInv, NEW c \in Connections, SendReturns(c)
    PROVE  Contract!Next
<1> DEFINE k == Len(stack[c])
           p == stack[c][k]
           v == IF p.got = No THEN Failed ELSE p.got
           result == IF p.got = No THEN "failed" ELSE "answered"
<1>1. /\ stack[c] # <<>> /\ stack' = [stack EXCEPT ![c] = SubSeq(stack[c], 1, k - 1)]
      /\ ended' = [ended EXCEPT ![c] = [ended[c] EXCEPT ![p.token] = v]]
      /\ net' = net
  BY DEF SendReturns, Top
<1>2. stack[c] \in Seq(Pending)  BY Frames DEF SendInv
<1>3. k \in Nat \ {0} /\ k \in 1 .. k /\ \A i \in 1 .. k - 1 : i \in 1 .. k /\ i # k
  BY <1>1, <1>2, PopFacts
<1>4. p.token \in Tokens /\ p.got \in {No} \cup Tokens  BY <1>3, Frames DEF SendInv
<1>5. \A i \in 1 .. k - 1 : stack[c][i].token # p.token  BY <1>3 DEF SendInv, Distinct
<1>6. TokensOf(SubSeq(stack[c], 1, k - 1)) = TokensOf(stack[c]) \ {p.token}
  BY <1>1, <1>2, <1>5, PopTokens
<1>7. OpenCalls' = [OpenCalls EXCEPT ![c] = OpenCalls[c] \ {p.token}]
  <2>1. \A d \in Connections : TokensOf(stack'[d]) =
          IF d = c THEN TokensOf(stack[c]) \ {p.token} ELSE TokensOf(stack[d])
    BY <1>1, <1>6 DEF SendInv, SendTypes
  <2> QED  BY <2>1, OpenIsTokens
<1>8. p.got # No => p.got = p.token /\ net[c][p.token] = "answered"
  BY <1>3 DEF SendInv, RightAnswer
<1>9. Outcome(p.token, v) = result  BY <1>4, <1>8, TokenFacts DEF Outcome
<1>10. EndedCalls' = [EndedCalls EXCEPT ![c] = [EndedCalls[c] EXCEPT ![p.token] = result]]
  <2> HIDE DEF result, v, p
  <2> QED  BY <1>1, <1>4, <1>9 DEF SendInv, SendTypes, EndedCalls
<1>11. p.token \in OpenCalls[c]
  <2>1. p.token \in TokensOf(stack[c])  BY <1>2, <1>3, TokensOfFrames
  <2> QED  BY <2>1, <1>4, ContractView
<1>12. result = "answered" => p.token \in HeardCalls[c]  BY <1>4, <1>8, ContractView
<1>13. Contract!Return(c, p.token, result)
  BY <1>1, <1>7, <1>10, <1>11, <1>12, SameMaps DEF Contract!Return
<1> QED  BY <1>4, <1>13 DEF Contract!Next

(* The connections implement the contract of send: each call ends at most  *)
(* once, with an error or with the server's answer to its own token, in    *)
(* whatever order answers arrive and calls nest (coap_client.cpp:300-460,  *)
(* 477-529).                                                               *)
THEOREM ContractCorrect == Spec => ContractKept
<1>1. Init => Contract!Init
  <2> SUFFICES ASSUME Init PROVE Contract!Init  OBVIOUS
  <2>1. \A c \in Connections : TokensOf(stack[c]) = {}  BY DEF Init, TokensOf
  <2>2. OpenCalls = [c \in Connections |-> {}]  BY <2>1, OpenIsTokens
  <2>3. HeardCalls = [c \in Connections |-> {}]  BY DEF Init, HeardCalls
  <2>4. \A t \in Tokens : Outcome(t, No) = "no"  BY TokenFacts DEF Outcome
  <2>5. EndedCalls = [c \in Connections |-> [t \in Tokens |-> "no"]]
    BY <2>4 DEF Init, EndedCalls
  <2> QED  BY <2>2, <2>3, <2>5 DEF Contract!Init
<1>2. SendInv /\ [Next]_vars => [Contract!Next]_<<OpenCalls, HeardCalls, EndedCalls>>
  <2> SUFFICES ASSUME SendInv, [Next]_vars
               PROVE  [Contract!Next]_<<OpenCalls, HeardCalls, EndedCalls>>
    OBVIOUS
  <2>1. CASE UNCHANGED sendVars  BY <2>1, SameMaps DEF sendVars
  <2>2. CASE UNCHANGED vars  BY <2>1, <2>2 DEF vars
  <2>3. SendInv'  BY SendStep
  <2> QED
    BY <2>1, <2>2, <2>3, LinkLeavesSend, SendIsAsk, SendFailsIsRefuse, AnswerIsHear,
       ResponseIsStutter, ReturnIsReturn DEF Next
<1> QED
  BY <1>1, <1>2, SendInit, SendStep, PTL DEF Spec, ContractKept, Contract!Spec, Contract!vars

-----------------------------------------------------------------------------
(* Sessions and credentials. *)

SessionDomains ==
    /\ DOMAIN session = Connections /\ DOMAIN psk = Connections /\ DOMAIN conf = Connections
    /\ connected \in [Connections -> BOOLEAN]

(* A session has a context, and is connected or not; connect() starts      *)
(* without one.                                                            *)
SessionHeld ==
    \A c \in Connections :
        /\ session[c] # NoSession => ctx[c]
        /\ connected[c] => session[c] # NoSession
        /\ pc[c] # "idle" => session[c] = NoSession

(* The credentials stored are those connect() was given, and fit to use.   *)
Stored ==
    \A c \in Connections :
        /\ pc[c] \in {"cleanup", "init", "startup", "setup", "undo"} => psk[c] = NoPsk
        /\ pc[c] = "resolve" =>
             /\ Acceptable(conf[c])
             /\ psk[c] = IF UseDtls(conf[c]) THEN conf[c].psk ELSE NoPsk

SessionInv == LinkInv /\ SessionDomains /\ SessionHeld /\ Stored /\ CredentialsMatch

(* disconnect() clears the session and what it was made with. *)
LEMMA ReleaseSession ==
    ASSUME SessionInv, NEW c \in Connections, NEW after \in {"idle", "init"},
           Release(c, after), NEW config, conf' = [conf EXCEPT ![c] = config]
    PROVE  SessionDomains' /\ SessionHeld' /\ Stored' /\ CredentialsMatch'
<1> USE DEF SessionInv, SessionDomains, LinkInv, LinkTypes
<1>1. /\ ctx'[c] = FALSE /\ session'[c] = NoSession /\ psk'[c] = NoPsk /\ connected'[c] = FALSE
      /\ pc'[c] \in {"idle", "init", "cleanup"}
  BY DEF Release
<1>2. \A d \in Connections : d # c =>
        /\ ctx'[d] = ctx[d] /\ session'[d] = session[d] /\ psk'[d] = psk[d]
        /\ connected'[d] = connected[d] /\ pc'[d] = pc[d] /\ conf'[d] = conf[d]
  BY DEF Release
<1>3. SessionDomains'
  <2>1. connected' \in [Connections -> BOOLEAN]  BY Zenon DEF Release
  <2> QED  BY <2>1 DEF Release
<1>4. SessionHeld'  BY <1>1, <1>2 DEF SessionHeld
<1>5. Stored'  BY <1>1, <1>2 DEF Stored
<1>6. NoSession.proto # "dtls"  BY DEF NoSession
<1>7. CredentialsMatch'  BY <1>1, <1>2, <1>6 DEF CredentialsMatch
<1> QED  BY <1>3, <1>4, <1>5, <1>7

(* The session connect() makes is a session, with the credentials stored.  *)
LEMMA NewSessionFacts ==
    ASSUME NEW config, NEW stored,
           Acceptable(config), stored = IF UseDtls(config) THEN config.psk ELSE NoPsk
    PROVE  LET made == NewSession(config, stored) IN
           /\ made # NoSession
           /\ made.proto = "dtls" =>
                /\ made.psk = config.psk /\ made.psk = stored
                /\ stored.identity # <<>> /\ stored.key # <<>>
<1>1. CASE UseDtls(config)
  <2>1. config.psk.identity # <<>> /\ config.psk.key # <<>>
    BY <1>1 DEF Acceptable, setup_dtls
  <2>2. NewSession(config, stored) = [proto |-> "dtls", psk |-> stored]
    BY <1>1, <2>1 DEF NewSession
  <2> QED  BY <1>1, <2>1, <2>2 DEF NoSession
<1>2. CASE ~UseDtls(config)
  <2>1. NewSession(config, stored) = [proto |-> "udp", psk |-> NoPsk]
    BY <1>2 DEF NewSession
  <2> QED  BY <2>1 DEF NoSession
<1> QED  BY <1>1, <1>2

(* Each step of connect() and disconnect() keeps sessions and credentials. *)
LEMMA SessionStep ==
    ASSUME SessionInv, [Next]_vars
    PROVE  SessionInv'
<1> USE DEF SessionInv
<1>1. LinkInv'  BY LinkStep
<1> SUFFICES SessionDomains' /\ SessionHeld' /\ Stored' /\ CredentialsMatch'
  BY <1>1
<1>2. ASSUME UNCHANGED <<pc, conf, ctx, session, psk, connected>>
      PROVE  SessionDomains' /\ SessionHeld' /\ Stored' /\ CredentialsMatch'
  BY <1>2 DEF SessionDomains, SessionHeld, Stored, CredentialsMatch
<1>3. ASSUME NEW c \in Connections, NEW account \in Accounts, BeginConnect(c, account)
      PROVE  SessionDomains' /\ SessionHeld' /\ Stored' /\ CredentialsMatch'
  BY <1>3, ReleaseSession DEF BeginConnect
<1>4. ASSUME NEW c \in Connections, BeginDisconnect(c) \/ ConnectFails(c)
      PROVE  SessionDomains' /\ SessionHeld' /\ Stored' /\ CredentialsMatch'
  BY <1>4, ReleaseSession DEF BeginDisconnect, ConnectFails
<1>5. ASSUME NEW c \in Connections, CoapCleanup(c) \/ FetchAdd(c) \/ CoapStartup(c)
      PROVE  SessionDomains' /\ SessionHeld' /\ Stored' /\ CredentialsMatch'
  <2>1. /\ pc[c] \in {"cleanup", "init", "startup"}
        /\ pc'[c] \in {"idle", "init", "startup", "setup"}
        /\ \A d \in Connections : d # c => pc'[d] = pc[d]
        /\ UNCHANGED <<conf, ctx, session, psk, connected>>
    BY <1>5 DEF CoapCleanup, FetchAdd, CoapStartup, After, LinkInv, LinkTypes
  <2>2. psk[c] = NoPsk /\ session[c] = NoSession  BY <2>1 DEF Stored, SessionHeld
  <2> QED  BY <2>1, <2>2 DEF SessionDomains, SessionHeld, Stored, CredentialsMatch
<1>6. ASSUME NEW c \in Connections, NoContext(c)
      PROVE  SessionDomains' /\ SessionHeld' /\ Stored' /\ CredentialsMatch'
  <2>1. /\ pc[c] = "setup" /\ pc'[c] = "idle"
        /\ \A d \in Connections : d # c => pc'[d] = pc[d] /\ conf'[d] = conf[d]
        /\ UNCHANGED <<ctx, session, psk, connected>> /\ DOMAIN conf' = Connections
    BY <1>6 DEF NoContext, LinkInv, LinkTypes, SessionDomains
  <2>2. psk[c] = NoPsk /\ session[c] = NoSession  BY <2>1 DEF Stored, SessionHeld
  <2>3. NoSession.proto # "dtls"  BY DEF NoSession
  <2> QED  BY <2>1, <2>2, <2>3 DEF SessionDomains, SessionHeld, Stored, CredentialsMatch
<1>7. ASSUME NEW c \in Connections, NewContext(c)
      PROVE  SessionDomains' /\ SessionHeld' /\ Stored' /\ CredentialsMatch'
  <2>1. /\ pc[c] = "setup" /\ ctx'[c] = TRUE
        /\ psk'[c] = IF Acceptable(conf[c]) /\ UseDtls(conf[c]) THEN conf[c].psk ELSE NoPsk
        /\ pc'[c] = IF Acceptable(conf[c]) THEN "resolve" ELSE "undo"
        /\ \A d \in Connections : d # c => pc'[d] = pc[d] /\ psk'[d] = psk[d] /\ ctx'[d] = ctx[d]
        /\ UNCHANGED <<conf, session, connected>> /\ DOMAIN psk' = Connections
    BY <1>7 DEF NewContext, LinkInv, LinkTypes, SessionDomains
  <2>2. session[c] = NoSession  BY <2>1 DEF SessionHeld
  <2>3. NoSession.proto # "dtls"  BY DEF NoSession
  <2>4. SessionDomains' /\ SessionHeld'  BY <2>1, <2>2 DEF SessionDomains, SessionHeld
  <2>5. Stored'  BY <2>1 DEF Stored
  <2>6. CredentialsMatch'  BY <2>1, <2>2, <2>3 DEF CredentialsMatch
  <2> QED  BY <2>4, <2>5, <2>6
<1>8. ASSUME NEW c \in Connections, Connected(c)
      PROVE  SessionDomains' /\ SessionHeld' /\ Stored' /\ CredentialsMatch'
  <2>1. /\ pc[c] = "resolve" /\ pc'[c] = "idle" /\ connected'[c] = TRUE
        /\ session'[c] = NewSession(conf[c], psk[c])
        /\ \A d \in Connections : d # c => pc'[d] = pc[d] /\ session'[d] = session[d]
                                           /\ connected'[d] = connected[d]
        /\ UNCHANGED <<conf, ctx, psk>> /\ DOMAIN session' = Connections
    BY <1>8 DEF Connected, LinkInv, LinkTypes, SessionDomains
  <2>2. connected' \in [Connections -> BOOLEAN]  BY <1>8, Zenon DEF Connected, SessionDomains
  <2>3. Acceptable(conf[c]) /\ psk[c] = IF UseDtls(conf[c]) THEN conf[c].psk ELSE NoPsk
    BY <2>1 DEF Stored
  <2>4. /\ session'[c] # NoSession
        /\ session'[c].proto = "dtls" =>
             /\ session'[c].psk = conf[c].psk /\ session'[c].psk = psk[c]
             /\ psk[c].identity # <<>> /\ psk[c].key # <<>>
    BY <2>1, <2>3, NewSessionFacts
  <2>5. ctx[c]  BY <2>1 DEF LinkInv, Phases
  <2>6. SessionDomains' /\ SessionHeld'  BY <2>1, <2>2, <2>4, <2>5 DEF SessionDomains, SessionHeld
  <2>7. Stored' /\ CredentialsMatch'  BY <2>1, <2>4 DEF Stored, CredentialsMatch
  <2> QED  BY <2>6, <2>7
<1>9. ASSUME NEW c \in Connections, NEW isUp \in BOOLEAN, SessionEvent(c, isUp)
      PROVE  SessionDomains' /\ SessionHeld' /\ Stored' /\ CredentialsMatch'
  <2>1. /\ session[c] # NoSession /\ UNCHANGED <<pc, conf, ctx, session, psk>>
        /\ \A d \in Connections : d # c => connected'[d] = connected[d]
        /\ connected' \in [Connections -> BOOLEAN]
    BY <1>9 DEF SessionEvent, SessionDomains
  <2> QED  BY <2>1 DEF SessionDomains, SessionHeld, Stored, CredentialsMatch
<1>10. ASSUME NEW c \in Connections,
              \/ Send(c) \/ SendReturns(c)
              \/ \E fits \in BOOLEAN : SendFails(c, fits)
              \/ \E t \in Tokens : ServerAnswers(c, t) \/ response_handler(c, t)
       PROVE  UNCHANGED <<pc, conf, ctx, session, psk, connected>>
  BY <1>10 DEF Send, SendReturns, SendFails, TakeToken, ServerAnswers, response_handler, linkVars
<1>11. CASE UNCHANGED vars  BY <1>2, <1>11 DEF vars, linkVars
<1> QED
  BY <1>2, <1>3, <1>4, <1>5, <1>6, <1>7, <1>8, <1>9, <1>10, <1>11 DEF Next

(* Before the first connect() there are neither sessions nor credentials.  *)
LEMMA SessionInit ==
    ASSUME Init
    PROVE  SessionInv
<1>1. connected \in [Connections -> BOOLEAN]  BY Zenon DEF Init
<1>2. SessionDomains  BY <1>1 DEF Init, SessionDomains
<1>3. SessionHeld /\ Stored  BY DEF Init, SessionHeld, Stored
<1>4. NoSession.proto # "dtls"  BY DEF NoSession
<1>5. CredentialsMatch  BY <1>4 DEF Init, CredentialsMatch
<1> QED  BY <1>2, <1>3, <1>5, LinkInit DEF SessionInv

(* ConnectedHasSession of every reachable state: connected_ never outlives *)
(* the session it speaks of (coap_client.cpp:263-294, 531-556).            *)
THEOREM ConnectedCorrect == Spec => []ConnectedHasSession
<1>1. SessionInv => ConnectedHasSession  BY DEF SessionInv, SessionHeld, ConnectedHasSession
<1> QED  BY <1>1, SessionInit, SessionStep, PTL DEF Spec

(* CredentialsMatch of every reachable state: a DTLS session is made with  *)
(* the complete credentials of the connect() that made it, whatever        *)
(* connect() did before, and none are left behind (coap_client.cpp:168-    *)
(* 294).                                                                   *)
THEOREM CredentialsCorrect == Spec => []CredentialsMatch
<1>1. SessionInv => CredentialsMatch  BY DEF SessionInv
<1> QED  BY <1>1, SessionInit, SessionStep, PTL DEF Spec

(* TypeOK of every reachable state; in particular the count of users never *)
(* goes below zero.                                                        *)
THEOREM TypesCorrect == Spec => []TypeOK
<1>1. SessionInv /\ SendInv => TypeOK
  BY DEF SessionInv, LinkInv, LinkTypes, SessionDomains, SendInv, SendTypes, TypeOK
<1> QED  BY <1>1, SessionInit, SessionStep, SendInit, SendStep, PTL DEF Spec
=============================================================================
