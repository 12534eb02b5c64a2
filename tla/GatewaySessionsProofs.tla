------------------------ MODULE GatewaySessionsProofs ------------------------
(***************************************************************************)
(* Proofs about GatewaySessions, for any players, services, connections,   *)
(* channels, limits and logins, reauthentication included.                 *)
(***************************************************************************)
EXTENDS GatewaySessions, FiniteSetTheorems, SequenceTheorems, TLAPS

\* The constants, and the values that stand for "none".
LEMMA ConstantFacts ==
    /\ \A s \in Sessions : s \in Nat /\ s # 0
    /\ \A p \in Players : p \in Nat /\ p # 0
    /\ \A c \in Channels : c \in Nat /\ c # 0
    /\ MaxSession \in Nat /\ EpochLimit \in Nat /\ EpochLimit >= 1 /\ MaxSeq \in Nat /\ MaxSeq >= 1
    /\ Scene \in Services
    /\ \A s \in Sessions : Logins[s] \subseteq Players
    /\ NoSession \in SessionType /\ Idle \in Jobs
    /\ IsFiniteSet(Sessions)
<1>1. MaxSession \in Nat /\ EpochLimit \in Nat /\ EpochLimit >= 1 /\ MaxSeq \in Nat /\ MaxSeq >= 1
  BY SetsAssumption, BoundsAssumption
<1>2. NoSession \in SessionType
  BY <1>1, SetsAssumption DEF NoSession, SessionType
<1>3. Idle \in Jobs
  BY <1>1, <1>2, SetsAssumption DEF Idle, Jobs
<1>4. IsFiniteSet(Sessions)
  BY <1>1, FS_Interval DEF Sessions
<1> QED
  BY <1>1, <1>2, <1>3, <1>4, SetsAssumption DEF Sessions

\* The updates of a session's fields stay within its type.
LEMMA SessionFields ==
    ASSUME NEW r \in SessionType
    PROVE  /\ [r EXCEPT !.authed = FALSE, !.player = 0] \in SessionType
           /\ \A p \in Players, e \in 0..EpochLimit :
                [r EXCEPT !.player = p, !.authed = TRUE, !.epoch = e, !.online = FALSE] \in SessionType
           /\ \A d \in Services, e \in 0..EpochLimit :
                [r EXCEPT !.dst = d, !.chan = 0, !.online = FALSE, !.epoch = e] \in SessionType
           /\ r.epoch \in 0..EpochLimit /\ r.player \in Players \cup {0} /\ r.dst \in Services
           /\ r.chan \in Channels \cup {0}
<1>1. /\ r.epoch \in 0..EpochLimit /\ r.player \in Players \cup {0} /\ r.dst \in Services
      /\ r.chan \in Channels \cup {0} /\ r.live \in BOOLEAN /\ r.authed \in BOOLEAN /\ r.online \in BOOLEAN
  BY DEF SessionType
<1>2. [r EXCEPT !.authed = FALSE, !.player = 0] \in SessionType
  BY Zenon DEF SessionType
<1>3. ASSUME NEW p \in Players, NEW e \in 0..EpochLimit
      PROVE  [r EXCEPT !.player = p, !.authed = TRUE, !.epoch = e, !.online = FALSE] \in SessionType
  BY Zenon DEF SessionType
<1>4. ASSUME NEW d \in Services, NEW e \in 0..EpochLimit
      PROVE  [r EXCEPT !.dst = d, !.chan = 0, !.online = FALSE, !.epoch = e] \in SessionType
  BY Zenon DEF SessionType
<1> QED
  BY <1>1, <1>2, <1>3, <1>4

-----------------------------------------------------------------------------
(* What the calls on the session table do.                                 *)

\* Bind: s has the player with its next epoch, and the session the index had
\* is not authenticated any more.
LEMMA BindFacts ==
    ASSUME TypeOK, NEW s \in Sessions, NEW p \in Players, playerEpoch[p] < EpochLimit, Bind(s, p)
    PROVE  /\ sess' \in [Sessions -> SessionType] /\ index' \in [Players -> Sessions \cup {0}]
           /\ playerEpoch' \in [Players -> 0..EpochLimit]
           /\ sess'[s].player = p /\ sess'[s].authed /\ sess'[s].epoch = playerEpoch[p] + 1
           /\ \A t \in Sessions :
                /\ sess'[t].live <=> sess[t].live
                /\ sess'[t].chan = sess[t].chan /\ sess'[t].dst = sess[t].dst
                /\ t # s => /\ sess'[t].epoch = sess[t].epoch
                            /\ sess'[t].authed =>
                                 /\ sess[t].authed /\ sess'[t].player = sess[t].player
                                 /\ t = index[p] => ~sess[t].live
<1>1. /\ sess \in [Sessions -> SessionType] /\ index \in [Players -> Sessions \cup {0}]
      /\ playerEpoch \in [Players -> 0..EpochLimit]
  BY DEF TypeOK
<1>2. PICK e : e = playerEpoch[p] + 1
  OBVIOUS
<1>3. e \in 0..EpochLimit /\ EpochLimit \in Nat
  BY <1>1, <1>2, ConstantFacts
<1>4. PICK old : old = index[p]
  OBVIOUS
<1>5. PICK demoted : demoted = IF old \in Sessions \ {s} /\ sess[old].live
                               THEN [sess EXCEPT ![old].authed = FALSE, ![old].player = 0] ELSE sess
  OBVIOUS
<1>6. demoted \in [Sessions -> SessionType]
  <2>1. CASE old \in Sessions \ {s} /\ sess[old].live
    <3>1. [sess[old] EXCEPT !.authed = FALSE, !.player = 0] \in SessionType
      BY <1>1, <2>1, SessionFields
    <3>2. demoted = [sess EXCEPT ![old] = [sess[old] EXCEPT !.authed = FALSE, !.player = 0]]
      BY <1>1, <1>5, <2>1, SessionFields
    <3> QED
      BY <1>1, <2>1, <3>1, <3>2
  <2> QED
    BY <1>1, <1>5, <2>1
<1>7. \A t \in Sessions :
        /\ demoted[t].live <=> sess[t].live
        /\ demoted[t].chan = sess[t].chan /\ demoted[t].dst = sess[t].dst
        /\ demoted[t].epoch = sess[t].epoch
        /\ t # s /\ demoted[t].authed =>
             /\ sess[t].authed /\ demoted[t].player = sess[t].player /\ (t = old => ~sess[t].live)
  BY <1>1, <1>5 DEF SessionType
<1>8. /\ sess' = [demoted EXCEPT ![s].player = p, ![s].authed = TRUE, ![s].epoch = e, ![s].online = FALSE]
      /\ playerEpoch' = [playerEpoch EXCEPT ![p] = e]
      /\ index' = [index EXCEPT ![p] = s]
  BY <1>1, <1>2, <1>4, <1>5 DEF Bind
<1>9. sess' \in [Sessions -> SessionType]
  <2>1. [demoted[s] EXCEPT !.player = p, !.authed = TRUE, !.epoch = e, !.online = FALSE] \in SessionType
    BY <1>3, <1>6, SessionFields
  <2>2. sess' = [demoted EXCEPT ![s] = [demoted[s] EXCEPT !.player = p, !.authed = TRUE, !.epoch = e, !.online = FALSE]]
    BY <1>6, <1>8, SessionFields
  <2> QED
    BY <1>6, <2>1, <2>2
<1>10. sess'[s].player = p /\ sess'[s].authed /\ sess'[s].epoch = e
  BY <1>6, <1>8 DEF SessionType
<1>11. \A t \in Sessions :
        /\ sess'[t].live <=> demoted[t].live
        /\ sess'[t].chan = demoted[t].chan /\ sess'[t].dst = demoted[t].dst
        /\ t # s => sess'[t] = demoted[t]
  BY <1>6, <1>8 DEF SessionType
<1>12. index' \in [Players -> Sessions \cup {0}] /\ playerEpoch' \in [Players -> 0..EpochLimit]
  BY <1>1, <1>3, <1>8
<1> QED
  BY <1>2, <1>4, <1>7, <1>9, <1>10, <1>11, <1>12

\* Erase: s is gone, the other sessions are as before, and the index loses
\* at most s.
LEMMA EraseFacts ==
    ASSUME TypeOK, NEW s \in Sessions, Erase(s)
    PROVE  /\ sess' \in [Sessions -> SessionType] /\ index' \in [Players -> Sessions \cup {0}]
           /\ sess'[s] = NoSession
           /\ \A t \in Sessions \ {s} : sess'[t] = sess[t]
           /\ \A p \in Players : index[p] # s => index'[p] = index[p]
           /\ playerEpoch' = playerEpoch /\ nextSession' = nextSession
<1>1. /\ sess \in [Sessions -> SessionType] /\ index \in [Players -> Sessions \cup {0}]
  BY DEF TypeOK
<1>2. sess' = [sess EXCEPT ![s] = NoSession]
  BY DEF Erase
<1>3. index' = [p \in Players |-> IF p = sess[s].player /\ index[p] = s THEN 0 ELSE index[p]]
  BY DEF Erase
<1>4. /\ sess' \in [Sessions -> SessionType] /\ sess'[s] = NoSession
      /\ \A t \in Sessions \ {s} : sess'[t] = sess[t]
  BY <1>1, <1>2, ConstantFacts
<1>5. index' \in [Players -> Sessions \cup {0}] /\ \A p \in Players : index[p] # s => index'[p] = index[p]
  BY <1>1, <1>3
<1> QED
  BY <1>4, <1>5 DEF Erase


\* SetDstService: only the session's epoch, service and channel change, and
\* an authenticated session that moves takes its player's next epoch.
LEMMA SetDstFacts ==
    ASSUME TypeOK, EpochIsNewest, NEW s \in Sessions, NEW service \in Services,
           ~EpochsUsedUp(s, service), SetDstService(s, service)
    PROVE  /\ sess' \in [Sessions -> SessionType] /\ playerEpoch' \in [Players -> 0..EpochLimit]
           /\ index' = index /\ nextSession' = nextSession
           /\ \A t \in Sessions \ {s} : sess'[t] = sess[t]
           /\ sess'[s].live <=> sess[s].live
           /\ sess'[s].authed <=> sess[s].authed
           /\ sess'[s].player = sess[s].player
           /\ sess[s].authed => sess'[s].epoch = playerEpoch'[sess[s].player] /\ sess'[s].epoch >= 1
           /\ \A p \in Players : ~(sess[s].authed /\ p = sess[s].player) => playerEpoch'[p] = playerEpoch[p]
<1>1. /\ sess \in [Sessions -> SessionType] /\ playerEpoch \in [Players -> 0..EpochLimit]
  BY DEF TypeOK
<1>2. index' = index /\ nextSession' = nextSession
  BY DEF SetDstService
<1>3. CASE sess[s].dst = service
  <2>1. sess' = sess /\ playerEpoch' = playerEpoch
    BY <1>3 DEF SetDstService
  <2> QED
    BY <1>1, <1>2, <2>1 DEF EpochIsNewest
<1>4. CASE sess[s].dst # service /\ ~sess[s].authed
  <2>1. /\ sess' = [sess EXCEPT ![s].dst = service, ![s].chan = 0, ![s].online = FALSE,
                                ![s].epoch = sess[s].epoch]
        /\ playerEpoch' = playerEpoch
    BY <1>4 DEF SetDstService
  <2>2. sess' \in [Sessions -> SessionType]
    <3>1. [sess[s] EXCEPT !.dst = service, !.chan = 0, !.online = FALSE, !.epoch = sess[s].epoch] \in SessionType
      BY <1>1, SessionFields
    <3>2. sess' = [sess EXCEPT ![s] = [sess[s] EXCEPT !.dst = service, !.chan = 0, !.online = FALSE,
                                                      !.epoch = sess[s].epoch]]
      BY <1>1, <2>1, SessionFields
    <3> QED
      BY <1>1, <3>1, <3>2
  <2>3. /\ \A t \in Sessions \ {s} : sess'[t] = sess[t]
        /\ sess'[s].live <=> sess[s].live
        /\ sess'[s].authed <=> sess[s].authed
        /\ sess'[s].player = sess[s].player
    BY <1>1, <2>1 DEF SessionType
  <2> QED
    BY <1>1, <1>2, <1>4, <2>1, <2>2, <2>3
<1>5. CASE sess[s].dst # service /\ sess[s].authed
  <2>1. PICK p : p = sess[s].player
    OBVIOUS
  <2>2. p \in Players /\ playerEpoch[p] # EpochLimit
    BY <1>5, <2>1 DEF EpochIsNewest, EpochsUsedUp
  <2>3. PICK e : e = playerEpoch[p] + 1
    OBVIOUS
  <2>4. e \in 0..EpochLimit /\ e >= 1
    BY <1>1, <2>2, <2>3, ConstantFacts
  <2>5. /\ sess' = [sess EXCEPT ![s].dst = service, ![s].chan = 0, ![s].online = FALSE, ![s].epoch = e]
        /\ playerEpoch' = [playerEpoch EXCEPT ![p] = e]
    BY <1>1, <1>5, <2>1, <2>2, <2>3 DEF SetDstService
  <2>6. sess' \in [Sessions -> SessionType]
    <3>1. [sess[s] EXCEPT !.dst = service, !.chan = 0, !.online = FALSE, !.epoch = e] \in SessionType
      BY <1>1, <2>4, SessionFields
    <3>2. sess' = [sess EXCEPT ![s] = [sess[s] EXCEPT !.dst = service, !.chan = 0, !.online = FALSE, !.epoch = e]]
      BY <1>1, <2>5, SessionFields
    <3> QED
      BY <1>1, <3>1, <3>2
  <2>7. /\ \A t \in Sessions \ {s} : sess'[t] = sess[t]
        /\ sess'[s].live <=> sess[s].live
        /\ sess'[s].authed <=> sess[s].authed
        /\ sess'[s].player = sess[s].player
        /\ sess'[s].epoch = e
    BY <1>1, <2>5 DEF SessionType
  <2>8. playerEpoch' \in [Players -> 0..EpochLimit] /\ playerEpoch'[p] = e
    BY <1>1, <2>2, <2>4, <2>5
  <2>9. \A q \in Players : q # p => playerEpoch'[q] = playerEpoch[q]
    BY <1>1, <2>5
  <2> QED
    BY <1>2, <1>5, <2>1, <2>4, <2>6, <2>7, <2>8, <2>9
<1> QED
  BY <1>3, <1>4, <1>5

\* SetSceneBinding: at most the channel of an authenticated session changes.
LEMMA SetSceneFacts ==
    ASSUME TypeOK, NEW s \in Sessions, NEW c \in Channels, SetSceneBinding(s, c)
    PROVE  /\ sess' \in [Sessions -> SessionType]
           /\ index' = index /\ playerEpoch' = playerEpoch /\ nextSession' = nextSession
           /\ \A t \in Sessions \ {s} : sess'[t] = sess[t]
           /\ sess'[s].live <=> sess[s].live
           /\ sess'[s].authed <=> sess[s].authed
           /\ sess'[s].player = sess[s].player /\ sess'[s].epoch = sess[s].epoch
           /\ ~sess[s].authed => sess'[s].chan = sess[s].chan
<1>1. sess \in [Sessions -> SessionType]
  BY DEF TypeOK
<1>2. index' = index /\ playerEpoch' = playerEpoch /\ nextSession' = nextSession
  BY DEF SetSceneBinding
<1>3. sess' = [sess EXCEPT ![s].chan = c] \/ sess' = sess
  BY DEF SetSceneBinding
<1>4. sess' \in [Sessions -> SessionType]
  BY <1>1, <1>3 DEF SessionType
<1>5. /\ \A t \in Sessions \ {s} : sess'[t] = sess[t]
      /\ sess'[s].live <=> sess[s].live
      /\ sess'[s].authed <=> sess[s].authed
      /\ sess'[s].player = sess[s].player /\ sess'[s].epoch = sess[s].epoch
  BY <1>1, <1>3 DEF SessionType
<1>6. ~sess[s].authed => sess' = sess
  BY DEF SetSceneBinding
<1> QED
  BY <1>2, <1>4, <1>5, <1>6

\* The channel SelectByScene gave a thread is one of the scene's.
LEMMA ChosenFacts ==
    ASSUME GatewayInv, NEW s \in Sessions, job[s].at = "bind"
    PROVE  job[s].copy.chan \in Channels /\ chan[job[s].copy.chan] # "new"
<1>1. job[s].copy \in SessionType
  BY DEF GatewayInv, TypeOK, Jobs
<1> QED
  BY <1>1 DEF GatewayInv, ChosenChannels, SessionType

\* SubmitScene's only effect on the table: a session may become declared.
LEMMA SubmitFacts ==
    ASSUME TypeOK, NEW c \in Channels, Submit(c)
    PROVE  /\ loop[c] # <<>> /\ Head(loop[c]) \in Submissions
           /\ Head(loop[c]).data.clientSession \in Sessions
           /\ sess' \in [Sessions -> SessionType]
           /\ \A t \in Sessions :
                /\ sess'[t].live <=> sess[t].live
                /\ sess'[t].authed <=> sess[t].authed
                /\ sess'[t].player = sess[t].player /\ sess'[t].epoch = sess[t].epoch
                /\ sess'[t].chan = sess[t].chan
<1>1. loop[c] \in Seq(Submissions) /\ loop[c] # <<>>
  BY DEF TypeOK, Submit
<1>2. PICK item : item = Head(loop[c])
  OBVIOUS
<1>3. item \in Submissions
  BY <1>1, <1>2
<1>4. item.data \in Datas
  BY <1>3 DEF Submissions
<1>5. PICK s : s = item.data.clientSession
  OBVIOUS
<1>6. s \in Sessions
  BY <1>4, <1>5 DEF Datas
<1>7. sess' = [sess EXCEPT ![s].online = TRUE] \/ sess' = sess
  BY <1>2, <1>5 DEF Submit
<1>8. sess \in [Sessions -> SessionType]
  BY DEF TypeOK
<1>9. sess' \in [Sessions -> SessionType]
  <2>1. [sess[s] EXCEPT !.online = TRUE] \in SessionType
    BY <1>6, <1>8, Zenon DEF SessionType
  <2>2. sess' = [sess EXCEPT ![s] = [sess[s] EXCEPT !.online = TRUE]] \/ sess' = sess
    BY <1>7
  <2> QED
    BY <1>6, <1>8, <2>1, <2>2
<1>10. \A t \in Sessions :
         /\ sess'[t].live <=> sess[t].live
         /\ sess'[t].authed <=> sess[t].authed
         /\ sess'[t].player = sess[t].player /\ sess'[t].epoch = sess[t].epoch
         /\ sess'[t].chan = sess[t].chan
  BY <1>6, <1>7, <1>8 DEF SessionType
<1> QED
  BY <1>1, <1>2, <1>3, <1>5, <1>6, <1>9, <1>10

-----------------------------------------------------------------------------
(* The session table keeps at most one authenticated session of a player,  *)
(* with the player's newest epoch.                                         *)

TableInv ==
    /\ sess \in [Sessions -> SessionType]
    /\ index \in [Players -> Sessions \cup {0}]
    /\ playerEpoch \in [Players -> 0..EpochLimit]
    /\ nextSession \in 1..(MaxSession + 1)
    /\ OneSessionPerPlayer
    /\ EpochIsNewest

LEMMA ConnectTable == ASSUME GatewayInv, Connect PROVE TableInv'
<1>1. /\ sess \in [Sessions -> SessionType] /\ index \in [Players -> Sessions \cup {0}]
      /\ playerEpoch \in [Players -> 0..EpochLimit] /\ nextSession \in 1..(MaxSession + 1)
      /\ OneSessionPerPlayer /\ EpochIsNewest
  BY DEF GatewayInv, TypeOK
<1>2. /\ nextSession \in Sessions /\ index' = index /\ playerEpoch' = playerEpoch
      /\ nextSession' = nextSession + 1
      /\ sess' = [sess EXCEPT ![nextSession] = [NoSession EXCEPT !.live = TRUE]]
  BY DEF Connect
<1>3. [NoSession EXCEPT !.live = TRUE] \in SessionType
  BY ConstantFacts, Zenon DEF SessionType
<1>4. [NoSession EXCEPT !.live = TRUE].authed = FALSE
  BY Zenon DEF NoSession
<1>5. sess' \in [Sessions -> SessionType]
  BY <1>1, <1>2, <1>3
<1>6. \A s \in Sessions : sess'[s].authed => sess'[s] = sess[s]
  BY <1>1, <1>2, <1>4
<1>7. nextSession' \in 1..(MaxSession + 1)
  BY <1>1, <1>2, ConstantFacts DEF Sessions
<1>8. OneSessionPerPlayer'
  BY <1>1, <1>2, <1>6 DEF OneSessionPerPlayer
<1>9. EpochIsNewest'
  BY <1>1, <1>2, <1>6 DEF EpochIsNewest
<1> QED
  BY <1>1, <1>2, <1>5, <1>7, <1>8, <1>9 DEF TableInv

\* A login: the only other session that could have the player is the one the
\* index knew, and Bind has taken the player from it.
LEMMA AuthTable == ASSUME GatewayInv, NEW s \in Sessions, NEW p \in Players, Auth(s, p) PROVE TableInv'
<1>1. /\ sess \in [Sessions -> SessionType] /\ index \in [Players -> Sessions \cup {0}]
      /\ playerEpoch \in [Players -> 0..EpochLimit] /\ nextSession \in 1..(MaxSession + 1)
      /\ OneSessionPerPlayer /\ EpochIsNewest /\ TypeOK
  BY DEF GatewayInv, TypeOK
<1>2. Bind(s, p) /\ playerEpoch[p] < EpochLimit /\ sess[s].live
  BY DEF Auth, Ready
<1>3. /\ sess' \in [Sessions -> SessionType] /\ index' \in [Players -> Sessions \cup {0}]
      /\ playerEpoch' \in [Players -> 0..EpochLimit]
      /\ sess'[s].player = p /\ sess'[s].authed /\ sess'[s].epoch = playerEpoch[p] + 1
      /\ \A t \in Sessions :
           /\ sess'[t].live <=> sess[t].live
           /\ t # s => /\ sess'[t].epoch = sess[t].epoch
                       /\ sess'[t].authed =>
                            /\ sess[t].authed /\ sess'[t].player = sess[t].player
                            /\ t = index[p] => ~sess[t].live
  BY <1>1, <1>2, BindFacts
<1>4. index' = [index EXCEPT ![p] = s] /\ playerEpoch' = [playerEpoch EXCEPT ![p] = @ + 1] /\ nextSession' = nextSession
  BY <1>2 DEF Bind
<1>5. \A t \in Sessions \ {s} : sess'[t].authed => sess[t].player # p
  BY <1>1, <1>3 DEF OneSessionPerPlayer
<1>6. OneSessionPerPlayer'
  <2> SUFFICES ASSUME NEW t \in Sessions, sess'[t].authed
               PROVE  sess'[t].live /\ index'[sess'[t].player] = t
    BY DEF OneSessionPerPlayer
  <2>1. CASE t = s
    BY <1>1, <1>2, <1>3, <1>4, <2>1
  <2>2. CASE t # s
    <3>1. sess[t].authed /\ sess'[t].player = sess[t].player /\ sess[t].player # p
      BY <1>3, <1>5, <2>2
    <3>2. sess[t].live /\ index[sess[t].player] = t /\ sess[t].player \in Players
      BY <1>1, <3>1 DEF OneSessionPerPlayer, EpochIsNewest
    <3> QED
      BY <1>1, <1>3, <1>4, <3>1, <3>2
  <2> QED
    BY <2>1, <2>2
<1>7. EpochIsNewest'
  <2> SUFFICES ASSUME NEW t \in Sessions, sess'[t].authed
               PROVE  /\ sess'[t].player \in Players
                      /\ sess'[t].epoch = playerEpoch'[sess'[t].player] /\ sess'[t].epoch >= 1
    BY DEF EpochIsNewest
  <2>1. CASE t = s
    <3>1. playerEpoch'[p] = playerEpoch[p] + 1 /\ playerEpoch[p] + 1 >= 1
      BY <1>1, <1>4, ConstantFacts
    <3> QED
      BY <1>3, <2>1, <3>1
  <2>2. CASE t # s
    <3>1. sess[t].authed /\ sess'[t].player = sess[t].player /\ sess[t].player # p /\ sess'[t].epoch = sess[t].epoch
      BY <1>3, <1>5, <2>2
    <3>2. sess[t].player \in Players /\ sess[t].epoch = playerEpoch[sess[t].player] /\ sess[t].epoch >= 1
      BY <1>1, <3>1 DEF EpochIsNewest
    <3> QED
      BY <1>1, <1>4, <3>1, <3>2
  <2> QED
    BY <2>1, <2>2
<1> QED
  BY <1>1, <1>3, <1>4, <1>6, <1>7 DEF TableInv

LEMMA EraseTable == ASSUME GatewayInv, NEW s \in Sessions, Erase(s) PROVE TableInv'
<1>1. /\ playerEpoch \in [Players -> 0..EpochLimit] /\ nextSession \in 1..(MaxSession + 1)
      /\ OneSessionPerPlayer /\ EpochIsNewest /\ TypeOK
  BY DEF GatewayInv, TypeOK
<1>2. /\ sess' \in [Sessions -> SessionType] /\ index' \in [Players -> Sessions \cup {0}]
      /\ sess'[s] = NoSession
      /\ \A t \in Sessions \ {s} : sess'[t] = sess[t]
      /\ \A p \in Players : index[p] # s => index'[p] = index[p]
      /\ playerEpoch' = playerEpoch /\ nextSession' = nextSession
  BY <1>1, EraseFacts
<1>3. \A t \in Sessions : sess'[t].authed => t # s /\ sess'[t] = sess[t]
  BY <1>2 DEF NoSession
<1>4. OneSessionPerPlayer'
  BY <1>1, <1>2, <1>3 DEF OneSessionPerPlayer, EpochIsNewest
<1>5. EpochIsNewest'
  BY <1>1, <1>2, <1>3 DEF EpochIsNewest
<1> QED
  BY <1>1, <1>2, <1>4, <1>5 DEF TableInv

LEMMA BindServiceSetTable == ASSUME GatewayInv, NEW s \in Sessions, BindServiceSet(s) PROVE TableInv'
<1>1. /\ sess \in [Sessions -> SessionType] /\ index \in [Players -> Sessions \cup {0}]
      /\ playerEpoch \in [Players -> 0..EpochLimit] /\ nextSession \in 1..(MaxSession + 1)
      /\ OneSessionPerPlayer /\ EpochIsNewest /\ TypeOK
  BY DEF GatewayInv, TypeOK
<1>2. CASE UNCHANGED table
  BY <1>1, <1>2 DEF table, TableInv, OneSessionPerPlayer, EpochIsNewest
<1>3. CASE ~EpochsUsedUp(s, job[s].arg) /\ SetDstService(s, job[s].arg)
  <2>1. job[s].arg \in Services
    BY <1>1 DEF TypeOK, Jobs
  <2>2. /\ sess' \in [Sessions -> SessionType] /\ playerEpoch' \in [Players -> 0..EpochLimit]
        /\ index' = index /\ nextSession' = nextSession
        /\ \A t \in Sessions \ {s} : sess'[t] = sess[t]
        /\ sess'[s].live <=> sess[s].live
        /\ sess'[s].authed <=> sess[s].authed
        /\ sess'[s].player = sess[s].player
        /\ sess[s].authed => sess'[s].epoch = playerEpoch'[sess[s].player] /\ sess'[s].epoch >= 1
        /\ \A p \in Players : ~(sess[s].authed /\ p = sess[s].player) => playerEpoch'[p] = playerEpoch[p]
    BY <1>1, <1>3, <2>1, SetDstFacts
  <2>3. OneSessionPerPlayer'
    BY <1>1, <2>2 DEF OneSessionPerPlayer
  <2>4. ASSUME NEW t \in Sessions, sess'[t].authed
        PROVE  /\ sess'[t].player \in Players
               /\ sess'[t].epoch = playerEpoch'[sess'[t].player] /\ sess'[t].epoch >= 1
    <3>1. CASE t = s
      BY <1>1, <2>2, <2>4, <3>1 DEF EpochIsNewest
    <3>2. CASE t # s
      <4>1. sess'[t] = sess[t] /\ sess[t].authed
        BY <2>2, <2>4, <3>2
      <4>2. index[sess[t].player] = t /\ sess[t].player \in Players
        BY <1>1, <4>1 DEF OneSessionPerPlayer, EpochIsNewest
      <4>3. sess[s].authed => index[sess[s].player] = s
        BY <1>1 DEF OneSessionPerPlayer
      <4>4. playerEpoch'[sess[t].player] = playerEpoch[sess[t].player]
        BY <2>2, <3>2, <4>2, <4>3
      <4> QED
        BY <1>1, <4>1, <4>4 DEF EpochIsNewest
    <3> QED
      BY <3>1, <3>2
  <2>5. EpochIsNewest'
    BY <2>4 DEF EpochIsNewest
  <2> QED
    BY <1>1, <2>2, <2>3, <2>5 DEF TableInv
<1> QED
  BY <1>2, <1>3 DEF BindServiceSet

\* BindScene and Submit touch only the channel and the declaration.
LEMMA BindSceneTable == ASSUME GatewayInv, NEW s \in Sessions, BindScene(s) PROVE TableInv'
<1>1. /\ index \in [Players -> Sessions \cup {0}]
      /\ playerEpoch \in [Players -> 0..EpochLimit] /\ nextSession \in 1..(MaxSession + 1)
      /\ OneSessionPerPlayer /\ EpochIsNewest /\ TypeOK
  BY DEF GatewayInv, TypeOK
<1>2. PICK c \in Channels : SetSceneBinding(s, c)
  BY ChosenFacts DEF BindScene
<1>3. /\ sess' \in [Sessions -> SessionType]
      /\ index' = index /\ playerEpoch' = playerEpoch /\ nextSession' = nextSession
      /\ \A t \in Sessions \ {s} : sess'[t] = sess[t]
      /\ sess'[s].live <=> sess[s].live
      /\ sess'[s].authed <=> sess[s].authed
      /\ sess'[s].player = sess[s].player /\ sess'[s].epoch = sess[s].epoch
  BY <1>1, <1>2, SetSceneFacts
<1>4. OneSessionPerPlayer' /\ EpochIsNewest'
  BY <1>1, <1>3 DEF OneSessionPerPlayer, EpochIsNewest
<1> QED
  BY <1>1, <1>3, <1>4 DEF TableInv

LEMMA SubmitTable == ASSUME GatewayInv, NEW c \in Channels, Submit(c) PROVE TableInv'
<1>1. /\ index \in [Players -> Sessions \cup {0}]
      /\ playerEpoch \in [Players -> 0..EpochLimit] /\ nextSession \in 1..(MaxSession + 1)
      /\ OneSessionPerPlayer /\ EpochIsNewest /\ TypeOK
  BY DEF GatewayInv, TypeOK
<1>2. /\ sess' \in [Sessions -> SessionType]
      /\ \A t \in Sessions :
           /\ sess'[t].live <=> sess[t].live
           /\ sess'[t].authed <=> sess[t].authed
           /\ sess'[t].player = sess[t].player /\ sess'[t].epoch = sess[t].epoch
  BY <1>1, SubmitFacts
<1>3. index' = index /\ playerEpoch' = playerEpoch /\ nextSession' = nextSession
  BY DEF Submit
<1>4. OneSessionPerPlayer' /\ EpochIsNewest'
  BY <1>1, <1>2, <1>3 DEF OneSessionPerPlayer, EpochIsNewest
<1> QED
  BY <1>1, <1>2, <1>3, <1>4 DEF TableInv

LEMMA TableStep == ASSUME GatewayInv, [Next]_vars PROVE TableInv'
<1>1. CASE UNCHANGED table
  BY <1>1 DEF GatewayInv, TypeOK, table, TableInv, OneSessionPerPlayer, EpochIsNewest
<1>2. ASSUME NEW s \in Sessions, ClientStep(s) PROVE TableInv'
  <2>1. ASSUME NEW service \in Services, BindService(s, service) \/ Business(s, service) PROVE UNCHANGED table
    BY <2>1 DEF BindService, Business
  <2>2. Close(s) => UNCHANGED table
    BY DEF Close
  <2> QED
    BY <1>1, <1>2, <2>1, <2>2, AuthTable DEF ClientStep
<1>3. ASSUME NEW s \in Sessions, HandlerStep(s) PROVE TableInv'
  <2>1. KickRoutes(s) \/ AuthNotify(s) \/ BindServiceNotify(s) => UNCHANGED table
    BY DEF KickRoutes, AuthNotify, BindServiceNotify
  <2>2. Unavailable(s) \/ Forward(s) \/ CloseNotify(s) \/ CloseRoutes(s) => UNCHANGED table
    BY DEF Unavailable, Forward, AddRoute, CloseNotify, CloseRoutes
  <2>5. Reread(s) \/ ForwardInvalid(s) \/ Refuse(s) => UNCHANGED table
    BY DEF Reread, ForwardInvalid, AddRoute, Refuse
  <2>6. ASSUME NEW c \in Channels, Select(s, c) PROVE UNCHANGED table
    BY <2>6 DEF Select
  <2>3. ASSUME KickClose(s) PROVE TableInv'
    <3>1. Erase(job[s].old) /\ job[s].old \in Sessions
      BY <2>3 DEF KickClose, GatewayInv, CopiesValid, CopyValid
    <3> QED
      BY <3>1, EraseTable
  <2>4. CloseErase(s) => TableInv'
    BY EraseTable DEF CloseErase
  <2> QED
    BY <1>1, <1>3, <2>1, <2>2, <2>3, <2>4, <2>5, <2>6, BindServiceSetTable, BindSceneTable DEF HandlerStep
<1>4. ASSUME NEW c \in Channels, ChannelUp(c) \/ ChannelDown(c) \/ SceneReceive(c) PROVE TableInv'
  BY <1>1, <1>4 DEF ChannelUp, ChannelDown, SceneReceive
<1>5. ASSUME NEW r \in routes, Respond(r) \/ Expire(r) PROVE TableInv'
  BY <1>1, <1>5 DEF Respond, Expire
<1>6. CASE Quiescent \/ UNCHANGED vars
  BY <1>1, <1>6 DEF Quiescent, vars
<1> QED
  BY <1>2, <1>3, <1>4, <1>5, <1>6, ConnectTable, SubmitTable DEF Next

\* The updates of a session that keep its player and its authentication.
LEMMA AuthedKept ==
    ASSUME PlayerIsAuthed,
           \A t \in Sessions : sess'[t].player = sess[t].player /\ (sess'[t].authed <=> sess[t].authed)
    PROVE  PlayerIsAuthed'
BY DEF PlayerIsAuthed

\* A login gives the session its player and takes it from the one that had it.
LEMMA BindAuthed ==
    ASSUME GatewayInv, NEW s \in Sessions, NEW p \in Players, Bind(s, p)
    PROVE  PlayerIsAuthed'
<1>1. sess \in [Sessions -> SessionType] /\ PlayerIsAuthed
  BY DEF GatewayInv, TypeOK
<1>2. PICK demoted : /\ \/ demoted = sess
                        \/ \E old \in Sessions :
                             demoted = [sess EXCEPT ![old].authed = FALSE, ![old].player = 0]
                     /\ sess' = [demoted EXCEPT ![s].player = p, ![s].authed = TRUE,
                                   ![s].epoch = playerEpoch[p] + 1, ![s].online = FALSE]
  BY DEF Bind
<1>3. /\ DOMAIN demoted = Sessions
      /\ \A t \in Sessions : demoted[t].player # 0 => demoted[t].authed
  <2>1. CASE demoted = sess
    BY <1>1, <2>1 DEF PlayerIsAuthed
  <2>2. ASSUME NEW old \in Sessions, demoted = [sess EXCEPT ![old].authed = FALSE, ![old].player = 0]
        PROVE  /\ DOMAIN demoted = Sessions
               /\ \A t \in Sessions : demoted[t].player # 0 => demoted[t].authed
    <3>1. demoted[old].player = 0
      BY <1>1, <2>2 DEF SessionType
    <3>2. \A t \in Sessions \ {old} : demoted[t] = sess[t]
      BY <1>1, <2>2
    <3> QED
      BY <1>1, <2>2, <3>1, <3>2 DEF PlayerIsAuthed
  <2> QED
    BY <1>2, <2>1, <2>2
<1>4. sess'[s].authed
  BY BindFacts, <1>2, <1>3
<1> QED
  BY <1>2, <1>3, <1>4 DEF PlayerIsAuthed

LEMMA AuthedStep == ASSUME GatewayInv, [Next]_vars PROVE PlayerIsAuthed'
<1>1. sess \in [Sessions -> SessionType] /\ PlayerIsAuthed /\ TypeOK /\ EpochIsNewest
  BY DEF GatewayInv, TypeOK
<1>2. CASE sess' = sess
  BY <1>1, <1>2 DEF PlayerIsAuthed
<1>3. NoSession.player = 0
  BY DEF NoSession
<1>4. ASSUME NEW s \in Sessions, sess'[s].player = 0, \A t \in Sessions \ {s} : sess'[t] = sess[t]
      PROVE  PlayerIsAuthed'
  BY <1>1, <1>4 DEF PlayerIsAuthed
<1>5. ASSUME NEW s \in Sessions, Erase(s) PROVE PlayerIsAuthed'
  BY <1>1, <1>3, <1>4, <1>5, EraseFacts
<1>6. ASSUME NEW s \in Sessions, ClientStep(s) PROVE PlayerIsAuthed'
  <2>1. ASSUME NEW p \in Players, Auth(s, p) PROVE PlayerIsAuthed'
    BY <2>1, BindAuthed DEF Auth
  <2>2. ASSUME NEW service \in Services, BindService(s, service) \/ Business(s, service) PROVE sess' = sess
    BY <2>2 DEF BindService, Business, table
  <2>3. Close(s) => sess' = sess
    BY DEF Close, table
  <2> QED
    BY <1>2, <1>6, <2>1, <2>2, <2>3 DEF ClientStep
<1>7. ASSUME NEW s \in Sessions, HandlerStep(s) PROVE PlayerIsAuthed'
  <2>1. KickRoutes(s) \/ AuthNotify(s) \/ BindServiceNotify(s) \/ Unavailable(s) => sess' = sess
    BY DEF KickRoutes, AuthNotify, BindServiceNotify, Unavailable, table
  <2>2. Forward(s) \/ ForwardInvalid(s) \/ Refuse(s) \/ Reread(s) => sess' = sess
    BY DEF Forward, ForwardInvalid, AddRoute, Refuse, Reread, table
  <2>3. CloseNotify(s) \/ CloseRoutes(s) \/ (\E c \in Channels : Select(s, c)) => sess' = sess
    BY DEF CloseNotify, CloseRoutes, Select, table
  <2>4. ASSUME KickClose(s) PROVE PlayerIsAuthed'
    <3>1. Erase(job[s].old) /\ job[s].old \in Sessions
      BY <2>4 DEF KickClose, GatewayInv, CopiesValid, CopyValid
    <3> QED
      BY <1>5, <3>1
  <2>5. CloseErase(s) => PlayerIsAuthed'
    BY <1>5 DEF CloseErase
  <2>6. ASSUME BindServiceSet(s) PROVE PlayerIsAuthed'
    <3>1. job[s].arg \in Services
      BY DEF GatewayInv, TypeOK, Jobs
    <3>2. CASE sess' = sess
      BY <1>2, <3>2
    <3>3. CASE ~EpochsUsedUp(s, job[s].arg) /\ SetDstService(s, job[s].arg)
      <4>1. \A t \in Sessions : sess'[t].player = sess[t].player /\ (sess'[t].authed <=> sess[t].authed)
        BY <1>1, <3>1, <3>3, SetDstFacts
      <4> QED
        BY <1>1, <4>1, AuthedKept
    <3> QED
      BY <2>6, <3>2, <3>3 DEF BindServiceSet, table
  <2>7. ASSUME BindScene(s) PROVE PlayerIsAuthed'
    <3>1. PICK c \in Channels : SetSceneBinding(s, c)
      BY <2>7, ChosenFacts DEF BindScene
    <3> QED
      BY <1>1, <3>1, SetSceneFacts, AuthedKept
  <2> QED
    BY <1>2, <1>7, <2>1, <2>2, <2>3, <2>4, <2>5, <2>6, <2>7 DEF HandlerStep
<1>8. CASE Connect
  <2>1. PICK s \in Sessions : s = nextSession
    BY <1>8 DEF Connect
  <2>2. sess' = [sess EXCEPT ![s] = [NoSession EXCEPT !.live = TRUE]]
    BY <1>8, <2>1 DEF Connect
  <2>3. [NoSession EXCEPT !.live = TRUE].player = 0
    BY DEF NoSession
  <2>4. sess'[s].player = 0 /\ \A t \in Sessions \ {s} : sess'[t] = sess[t]
    BY <1>1, <2>2, <2>3
  <2> QED
    BY <1>4, <2>4
<1>9. ASSUME NEW c \in Channels, ChannelUp(c) \/ ChannelDown(c) \/ SceneReceive(c) PROVE PlayerIsAuthed'
  BY <1>2, <1>9 DEF ChannelUp, ChannelDown, SceneReceive, table
<1>10. ASSUME NEW c \in Channels, Submit(c) PROVE PlayerIsAuthed'
  BY <1>1, <1>10, SubmitFacts, AuthedKept
<1>11. ASSUME NEW r \in routes, Respond(r) \/ Expire(r) PROVE PlayerIsAuthed'
  BY <1>2, <1>11 DEF Respond, Expire, table
<1>12. CASE Quiescent \/ UNCHANGED vars
  BY <1>2, <1>12 DEF Quiescent, vars, table
<1> QED
  BY <1>6, <1>7, <1>8, <1>9, <1>10, <1>11, <1>12 DEF Next

-----------------------------------------------------------------------------
(* Where the threads are, and what they have copied.                       *)

HandlerInv ==
    /\ conn \in [Sessions -> {"none", "open", "closing", "closed"}]
    /\ job \in [Sessions -> Jobs]
    /\ HandlersOpen
    /\ CopiesValid

\* A thread that goes on is at its next step with what it copied, and a thread
\* that returns is idle; the other threads are where they were.
LEMMA ContinueFacts ==
    ASSUME TypeOK, NEW s \in Sessions, NEW at \in {"idle"} \cup RequestSteps \cup CloseSteps,
           NEW copy \in SessionType, NEW arg \in Services, NEW old \in 0..MaxSession,
           Continue(s, at, copy, arg, old)
    PROVE  /\ job' \in [Sessions -> Jobs]
           /\ job'[s].at = at /\ job'[s].copy = copy /\ job'[s].arg = arg /\ job'[s].old = old
           /\ \A t \in Sessions \ {s} : job'[t] = job[t]
<1>1. job \in [Sessions -> Jobs]
  BY DEF TypeOK
<1>2. PICK j : j = [at |-> at, copy |-> copy, arg |-> arg, old |-> old, seq |-> 0]
  OBVIOUS
<1>3. j \in Jobs
  BY <1>2, ConstantFacts DEF Jobs
<1>4. job' = [job EXCEPT ![s] = j]
  BY <1>2 DEF Continue
<1> QED
  BY <1>1, <1>2, <1>3, <1>4

LEMMA DoneFacts ==
    ASSUME TypeOK, NEW s \in Sessions, Done(s)
    PROVE  /\ job' \in [Sessions -> Jobs]
           /\ job'[s] = Idle /\ job'[s].at = "idle" /\ ~job'[s].copy.authed
           /\ \A t \in Sessions \ {s} : job'[t] = job[t]
<1>1. job \in [Sessions -> Jobs]
  BY DEF TypeOK
<1>2. job' = [job EXCEPT ![s] = Idle]
  BY DEF Done
<1>3. Idle.at = "idle" /\ ~Idle.copy.authed
  BY DEF Idle, NoSession
<1> QED
  BY <1>1, <1>2, <1>3, ConstantFacts

\* A forwarded request takes a sequence number that is left.
LEMMA ForwardingSeq ==
    ASSUME GatewayInv, NEW s \in Sessions, job[s].at = "forward"
    PROVE  nextSeq \in 1..MaxSeq
<1>1. s \in Waiting
  BY DEF Waiting
<1>2. IsFiniteSet(Waiting)
  BY ConstantFacts, FS_Subset DEF Waiting
<1>3. Cardinality(Waiting) \in Nat /\ Cardinality(Waiting) # 0
  BY <1>1, <1>2, FS_CardinalityType, FS_EmptySet
<1> QED
  BY <1>3, ConstantFacts DEF GatewayInv, TypeOK, RoutesUnanswered

\* A thread that has added a route and will refuse the request.
LEMMA RefusingFacts ==
    ASSUME GatewayInv, NEW s \in Sessions, ForwardInvalid(s)
    PROVE  /\ nextSeq \in 1..MaxSeq
           /\ job' \in [Sessions -> Jobs]
           /\ job'[s].at = "refuse" /\ job'[s].seq = nextSeq
           /\ ~job'[s].copy.authed /\ job'[s].copy.chan = 0
           /\ \A t \in Sessions \ {s} : job'[t] = job[t]
<1>1. job \in [Sessions -> Jobs] /\ job[s].at = "forward"
  BY DEF GatewayInv, TypeOK, ForwardInvalid, AddRoute
<1>2. nextSeq \in 1..MaxSeq
  BY <1>1, ForwardingSeq
<1>3. PICK j : j = [Idle EXCEPT !.at = "refuse", !.seq = nextSeq]
  OBVIOUS
<1>4. /\ j.at = "refuse" /\ j.seq = nextSeq /\ j.copy = Idle.copy
      /\ j.arg = Idle.arg /\ j.old = Idle.old
      /\ j = [at |-> j.at, copy |-> j.copy, arg |-> j.arg, old |-> j.old, seq |-> j.seq]
  BY <1>3 DEF Idle
<1>5. Idle \in Jobs
  BY ConstantFacts
<1>6. j \in Jobs
  BY <1>2, <1>4, <1>5, ConstantFacts DEF Jobs, RequestSteps
<1>7. ~Idle.copy.authed /\ Idle.copy.chan = 0
  BY DEF Idle, NoSession
<1>8. job' = [job EXCEPT ![s] = j]
  BY <1>3 DEF ForwardInvalid
<1> QED
  BY <1>1, <1>2, <1>4, <1>6, <1>7, <1>8

\* The copies of the other threads stay valid as long as no session gets a
\* channel or an epoch from a thread other than its own.
LEMMA CopiesKept ==
    ASSUME CopiesValid, NEW s \in Sessions, CopyValid(s)',
           \A t \in Sessions \ {s} :
             /\ job'[t] = job[t]
             /\ job[t].at \in {"select", "bind", "reread"} =>
                  /\ sess'[t].chan = sess[t].chan \/ sess'[t].chan = 0
                  /\ sess'[t].live => sess[t].live /\ sess'[t].epoch = sess[t].epoch
    PROVE  CopiesValid'
<1>1. ASSUME NEW t \in Sessions, t # s PROVE CopyValid(t)'
  <2>1. CopyValid(t) /\ job'[t] = job[t]
    BY <1>1 DEF CopiesValid
  <2>2. /\ job[t].at \in {"select", "bind"} => sess'[t].chan = 0
        /\ job[t].at \in {"select", "bind", "reread"} /\ sess'[t].live => sess'[t].epoch >= 1
    BY <1>1, <2>1 DEF CopyValid
  <2> QED
    BY <2>1, <2>2 DEF CopyValid
<1> QED
  BY <1>1 DEF CopiesValid

\* A step of thread s that leaves the sessions and connections alone.
LEMMA ThreadStep ==
    ASSUME GatewayInv, NEW s \in Sessions, sess' = sess, conn' = conn, nextSession' = nextSession,
           job' \in [Sessions -> Jobs], \A t \in Sessions \ {s} : job'[t] = job[t],
           CopyValid(s)',
           job'[s].at \in RequestSteps => conn[s] \in {"open", "closing"},
           job'[s].at \in CloseSteps => conn[s] = "closed"
    PROVE  HandlerInv'
<1>1. HandlersOpen'
  BY DEF GatewayInv, HandlersOpen
<1>2. CopiesValid'
  BY CopiesKept DEF GatewayInv
<1> QED
  BY <1>1, <1>2 DEF HandlerInv, GatewayInv, TypeOK

LEMMA ConnectHandlers == ASSUME GatewayInv, Connect PROVE HandlerInv'
<1>1. /\ conn \in [Sessions -> {"none", "open", "closing", "closed"}] /\ job \in [Sessions -> Jobs]
      /\ sess \in [Sessions -> SessionType] /\ nextSession \in Nat
      /\ HandlersOpen /\ CopiesValid
  BY DEF GatewayInv, TypeOK
<1>2. PICK s \in Sessions : s = nextSession
  BY DEF Connect
<1>3. /\ job' = job /\ nextSession' = nextSession + 1
      /\ \A t \in Sessions \ {s} : sess'[t] = sess[t] /\ conn'[t] = conn[t]
      /\ conn' \in [Sessions -> {"none", "open", "closing", "closed"}]
      /\ conn'[s] \in {"open", "closing"}
  BY <1>1, <1>2 DEF Connect
<1>4. job[s].at = "idle"
  <2>1. conn[s] = "none" /\ job[s].at \in {"idle"} \cup RequestSteps \cup CloseSteps
    BY <1>1, <1>2, ConstantFacts DEF HandlersOpen, Jobs
  <2> QED
    BY <1>1, <2>1 DEF HandlersOpen
<1>5. HandlersOpen'
  BY <1>1, <1>2, <1>3, <1>4, ConstantFacts DEF HandlersOpen, RequestSteps, CloseSteps
<1>6. CopyValid(s)'
  BY <1>1, <1>3, <1>4 DEF CopiesValid, CopyValid
<1>7. CopiesValid'
  BY <1>1, <1>3, <1>6, CopiesKept
<1> QED
  BY <1>1, <1>3, <1>5, <1>7 DEF HandlerInv

LEMMA AuthHandlers == ASSUME GatewayInv, NEW s \in Sessions, NEW p \in Players, Auth(s, p) PROVE HandlerInv'
<1>1. /\ TypeOK /\ HandlersOpen /\ CopiesValid /\ index \in [Players -> Sessions \cup {0}]
      /\ conn \in [Sessions -> {"none", "open", "closing", "closed"}]
  BY DEF GatewayInv, TypeOK
<1>2. Bind(s, p) /\ playerEpoch[p] < EpochLimit /\ conn[s] \in {"open", "closing"} /\ conn' = conn
  BY DEF Auth, Ready
<1>3. PICK kicked : kicked = IF index[p] \in Sessions \ {s} THEN index[p] ELSE 0
  OBVIOUS
<1>4. PICK at : at = IF kicked # 0 THEN "kick" ELSE "notify"
  OBVIOUS
<1>5. /\ kicked \in 0..MaxSession /\ (kicked # 0 => kicked \in Sessions)
      /\ at \in {"idle"} \cup RequestSteps \cup CloseSteps
  BY <1>1, <1>3, <1>4, ConstantFacts DEF RequestSteps, Sessions
<1>6. Continue(s, at, NoSession, Scene, kicked)
  BY <1>3, <1>4 DEF Auth
<1>7. /\ job' \in [Sessions -> Jobs]
      /\ job'[s].at = at /\ job'[s].copy = NoSession /\ job'[s].old = kicked
      /\ \A t \in Sessions \ {s} : job'[t] = job[t]
  BY <1>1, <1>5, <1>6, ContinueFacts, ConstantFacts
<1>8. \A t \in Sessions \ {s} : /\ sess'[t].live <=> sess[t].live
                                /\ sess'[t].chan = sess[t].chan /\ sess'[t].epoch = sess[t].epoch
  BY <1>1, <1>2, BindFacts
<1>9. CopyValid(s)'
  BY <1>4, <1>5, <1>7 DEF CopyValid, NoSession
<1>10. CopiesValid'
  BY <1>1, <1>7, <1>8, <1>9, CopiesKept
<1>11. nextSession' = nextSession
  BY <1>2 DEF Bind
<1>12. HandlersOpen'
  BY <1>1, <1>2, <1>4, <1>7, <1>11 DEF HandlersOpen, RequestSteps, CloseSteps
<1> QED
  BY <1>1, <1>2, <1>7, <1>10, <1>12 DEF HandlerInv

\* The connection of a replaced session is shut down, the session forgotten:
\* its own thread, wherever it is, goes on with its copy.
LEMMA KickCloseHandlers == ASSUME GatewayInv, NEW s \in Sessions, KickClose(s) PROVE HandlerInv'
<1>1. /\ TypeOK /\ HandlersOpen /\ CopiesValid
      /\ conn \in [Sessions -> {"none", "open", "closing", "closed"}]
  BY DEF GatewayInv, TypeOK
<1>2. PICK old : old = job[s].old
  OBVIOUS
<1>3. old \in Sessions /\ job[s].at = "kickClose"
  BY <1>1, <1>2 DEF KickClose, CopiesValid, CopyValid
<1>4. Erase(old) /\ Continue(s, "notify", NoSession, Scene, 0)
  BY <1>2 DEF KickClose
<1>5. /\ job' \in [Sessions -> Jobs]
      /\ job'[s].at = "notify" /\ job'[s].copy = NoSession
      /\ \A t \in Sessions \ {s} : job'[t] = job[t]
  BY <1>1, <1>4, ContinueFacts, ConstantFacts DEF RequestSteps
<1>6. /\ sess'[old] = NoSession /\ nextSession' = nextSession
      /\ \A t \in Sessions \ {old} : sess'[t] = sess[t]
  BY <1>1, <1>3, <1>4, EraseFacts
<1>7. NoSession.chan = 0 /\ ~NoSession.live /\ ~NoSession.authed
  BY DEF NoSession
<1>8. CopyValid(s)'
  BY <1>5, <1>7 DEF CopyValid
<1>9. CopiesValid'
  <2>1. \A t \in Sessions \ {s} :
          /\ job'[t] = job[t]
          /\ job[t].at \in {"select", "bind", "reread"} =>
               /\ sess'[t].chan = sess[t].chan \/ sess'[t].chan = 0
               /\ sess'[t].live => sess[t].live /\ sess'[t].epoch = sess[t].epoch
    BY <1>5, <1>6, <1>7
  <2> QED
    BY <1>1, <1>8, <2>1, CopiesKept
<1>10. conn' = conn \/ (conn[old] = "open" /\ conn' = [conn EXCEPT ![old] = "closing"])
  BY <1>2 DEF KickClose
<1>11. conn' \in [Sessions -> {"none", "open", "closing", "closed"}]
  BY <1>1, <1>3, <1>10
<1>12. \A t \in Sessions : conn'[t] = conn[t] \/ (conn[t] = "open" /\ conn'[t] = "closing")
  BY <1>1, <1>3, <1>10
<1>13. HandlersOpen'
  BY <1>1, <1>3, <1>5, <1>6, <1>12 DEF HandlersOpen, RequestSteps, CloseSteps
<1> QED
  BY <1>5, <1>9, <1>11, <1>13 DEF HandlerInv

LEMMA BindServiceSetHandlers == ASSUME GatewayInv, NEW s \in Sessions, BindServiceSet(s) PROVE HandlerInv'
<1>1. /\ TypeOK /\ EpochIsNewest /\ HandlersOpen /\ CopiesValid /\ job \in [Sessions -> Jobs]
      /\ conn \in [Sessions -> {"none", "open", "closing", "closed"}]
  BY DEF GatewayInv, TypeOK
<1>2. job[s].at = "setDst" /\ conn' = conn
  BY DEF BindServiceSet
<1>3. job[s].arg \in Services /\ job[s].copy \in SessionType
  BY <1>1 DEF Jobs
<1>4. CASE UNCHANGED table /\ Done(s)
  <2>1. /\ job' \in [Sessions -> Jobs] /\ job'[s].at = "idle" /\ ~job'[s].copy.authed
        /\ \A t \in Sessions \ {s} : job'[t] = job[t]
    BY <1>1, <1>4, DoneFacts
  <2>2. CopyValid(s)'
    BY <2>1 DEF CopyValid
  <2> QED
    BY <1>2, <1>4, <2>1, <2>2, ThreadStep DEF table, RequestSteps, CloseSteps
<1>5. CASE /\ ~EpochsUsedUp(s, job[s].arg) /\ SetDstService(s, job[s].arg)
           /\ Continue(s, "moved", job[s].copy, job[s].arg, 0)
  <2>1. /\ job' \in [Sessions -> Jobs]
        /\ job'[s].at = "moved" /\ job'[s].copy = job[s].copy
        /\ \A t \in Sessions \ {s} : job'[t] = job[t]
    <3>1. "moved" \in RequestSteps /\ 0 \in 0..MaxSession
      BY ConstantFacts DEF RequestSteps
    <3> QED
      BY <1>1, <1>3, <1>5, <3>1, ContinueFacts
  <2>2. nextSession' = nextSession /\ \A t \in Sessions \ {s} : sess'[t] = sess[t]
    BY <1>1, <1>3, <1>5, SetDstFacts
  <2>3. CopyValid(s)'
    BY <1>1, <2>1 DEF CopiesValid, CopyValid
  <2>4. CopiesValid'
    BY <1>1, <2>1, <2>2, <2>3, CopiesKept
  <2>5. HandlersOpen'
    BY <1>1, <1>2, <2>1, <2>2 DEF HandlersOpen, RequestSteps, CloseSteps
  <2> QED
    BY <1>1, <1>2, <2>1, <2>4, <2>5 DEF HandlerInv
<1> QED
  BY <1>4, <1>5 DEF BindServiceSet

LEMMA HandlerReturns ==
    ASSUME GatewayInv, NEW s \in Sessions, Done(s), sess' = sess, conn' = conn, nextSession' = nextSession
    PROVE  HandlerInv'
<1>1. /\ job' \in [Sessions -> Jobs] /\ job'[s].at = "idle" /\ ~job'[s].copy.authed
      /\ \A t \in Sessions \ {s} : job'[t] = job[t]
  BY DoneFacts DEF GatewayInv
<1>2. CopyValid(s)'
  BY <1>1 DEF CopyValid
<1> QED
  BY <1>1, <1>2, ThreadStep DEF RequestSteps, CloseSteps

\* A first scene request gives its session a channel; the session of a thread
\* that is about to do so has none.
LEMMA BindSceneHandlers == ASSUME GatewayInv, NEW s \in Sessions, BindScene(s) PROVE HandlerInv'
<1>1. /\ TypeOK /\ HandlersOpen /\ CopiesValid
      /\ conn \in [Sessions -> {"none", "open", "closing", "closed"}]
  BY DEF GatewayInv, TypeOK
<1>2. job[s].at = "bind" /\ conn' = conn /\ Continue(s, "reread", NoSession, Scene, 0)
  BY DEF BindScene
<1>3. PICK c \in Channels : SetSceneBinding(s, c)
  BY ChosenFacts DEF BindScene
<1>4. /\ nextSession' = nextSession
      /\ \A t \in Sessions \ {s} : sess'[t] = sess[t]
      /\ sess'[s].live <=> sess[s].live
      /\ sess'[s].epoch = sess[s].epoch
  BY <1>1, <1>3, SetSceneFacts
<1>5. sess[s].live => sess[s].epoch >= 1
  BY <1>1, <1>2 DEF CopiesValid, CopyValid
<1>6. /\ job' \in [Sessions -> Jobs]
      /\ job'[s].at = "reread" /\ job'[s].copy = NoSession
      /\ \A t \in Sessions \ {s} : job'[t] = job[t]
  <2>1. "reread" \in {"idle"} \cup RequestSteps \cup CloseSteps
    BY DEF RequestSteps
  <2>2. NoSession \in SessionType /\ Scene \in Services /\ 0 \in 0..MaxSession
    BY ConstantFacts
  <2>3. TypeOK /\ Continue(s, "reread", NoSession, Scene, 0)
    BY <1>1, <1>2
  <2> QED
    BY <2>1, <2>2, <2>3, ContinueFacts
<1>7. CopyValid(s)'
  BY <1>4, <1>5, <1>6 DEF CopyValid, NoSession
<1>8. CopiesValid'
  BY <1>1, <1>4, <1>6, <1>7, CopiesKept
<1>9. HandlersOpen'
  BY <1>1, <1>2, <1>4, <1>6 DEF HandlersOpen, RequestSteps, CloseSteps
<1> QED
  BY <1>1, <1>2, <1>6, <1>8, <1>9 DEF HandlerInv

\* It is forwarded with the session as it is read after that: with a player,
\* unless the session was demoted meanwhile.
LEMMA RereadHandlers == ASSUME GatewayInv, NEW s \in Sessions, Reread(s) PROVE HandlerInv'
<1>1. /\ TypeOK /\ HandlersOpen /\ CopiesValid /\ EpochIsNewest /\ PlayerIsAuthed
      /\ sess \in [Sessions -> SessionType]
  BY DEF GatewayInv, TypeOK
<1>2. /\ job[s].at = "reread" /\ sess' = sess /\ conn' = conn /\ nextSession' = nextSession
      /\ \/ sess[s].live /\ Continue(s, "forward", sess[s], Scene, 0)
         \/ Done(s)
  BY DEF Reread, table
<1>3. CASE Done(s)
  BY <1>2, <1>3, HandlerReturns
<1>4. CASE sess[s].live /\ Continue(s, "forward", sess[s], Scene, 0)
  <2>1. /\ job' \in [Sessions -> Jobs]
        /\ job'[s].at = "forward" /\ job'[s].copy = sess[s]
        /\ \A t \in Sessions \ {s} : job'[t] = job[t]
    BY <1>1, <1>4, ContinueFacts, ConstantFacts DEF RequestSteps
  <2>2. sess[s].epoch >= 1
    BY <1>1, <1>2, <1>4 DEF CopiesValid, CopyValid
  <2>3. /\ sess[s].authed => sess[s].player \in Players
        /\ sess[s].player # 0 => sess[s].authed
    BY <1>1 DEF EpochIsNewest, PlayerIsAuthed
  <2>4. CopyValid(s)'
    BY <2>1, <2>2, <2>3 DEF CopyValid
  <2>5. conn[s] \in {"open", "closing"}
    BY <1>1, <1>2 DEF HandlersOpen, RequestSteps
  <2> QED
    BY <1>2, <2>1, <2>4, <2>5, ThreadStep DEF CloseSteps
<1> QED
  BY <1>2, <1>3, <1>4

\* A thread that has chosen a channel keeps it in its copy.
LEMMA SelectHandlers == ASSUME GatewayInv, NEW s \in Sessions, NEW c \in Channels, Select(s, c) PROVE HandlerInv'
<1>1. TypeOK /\ HandlersOpen /\ CopiesValid /\ job[s].copy \in SessionType
  BY DEF GatewayInv, TypeOK, Jobs
<1>2. PICK copy : copy = [job[s].copy EXCEPT !.chan = c]
  OBVIOUS
<1>3. /\ copy \in SessionType
      /\ copy.authed <=> job[s].copy.authed
      /\ copy.player = job[s].copy.player /\ copy.epoch = job[s].copy.epoch
  BY <1>1, <1>2 DEF SessionType
<1>4. /\ job[s].at = "select" /\ sess' = sess /\ conn' = conn /\ nextSession' = nextSession
      /\ Continue(s, "bind", copy, Scene, 0)
  BY <1>2 DEF Select, table
<1>5. /\ job' \in [Sessions -> Jobs]
      /\ job'[s].at = "bind" /\ job'[s].copy = copy
      /\ \A t \in Sessions \ {s} : job'[t] = job[t]
  BY <1>1, <1>3, <1>4, ContinueFacts, ConstantFacts DEF RequestSteps
<1>6. CopyValid(s)
  BY <1>1 DEF CopiesValid
<1>7. CopyValid(s)'
  BY <1>3, <1>4, <1>5, <1>6 DEF CopyValid
<1>8. conn[s] \in {"open", "closing"}
  BY <1>1, <1>4 DEF HandlersOpen, RequestSteps
<1> QED
  BY <1>4, <1>5, <1>7, <1>8, ThreadStep DEF CloseSteps

\* A thread whose request is invalid has nothing left but to refuse it.
LEMMA ForwardInvalidHandlers == ASSUME GatewayInv, NEW s \in Sessions, ForwardInvalid(s) PROVE HandlerInv'
<1>1. /\ job' \in [Sessions -> Jobs] /\ job'[s].at = "refuse" /\ ~job'[s].copy.authed
      /\ \A t \in Sessions \ {s} : job'[t] = job[t]
  BY RefusingFacts
<1>2. /\ job[s].at = "forward" /\ sess' = sess /\ conn' = conn /\ nextSession' = nextSession
  BY DEF ForwardInvalid, AddRoute, table
<1>3. CopyValid(s)'
  BY <1>1 DEF CopyValid
<1>4. conn[s] \in {"open", "closing"}
  BY <1>2 DEF GatewayInv, HandlersOpen, RequestSteps
<1> QED
  BY <1>1, <1>2, <1>3, <1>4, ThreadStep DEF CloseSteps

\* The close runs on a thread that is between requests.
LEMMA CloseHandlers == ASSUME GatewayInv, NEW s \in Sessions, Close(s) PROVE HandlerInv'
<1>1. /\ TypeOK /\ HandlersOpen /\ CopiesValid /\ EpochIsNewest /\ sess \in [Sessions -> SessionType]
      /\ conn \in [Sessions -> {"none", "open", "closing", "closed"}]
  BY DEF GatewayInv, TypeOK
<1>2. /\ Continue(s, "closeNotify", sess[s], Scene, 0) /\ sess' = sess /\ nextSession' = nextSession
      /\ conn[s] \in {"open", "closing"} /\ conn' = [conn EXCEPT ![s] = "closed"]
  BY DEF Close, table
<1>3. /\ job' \in [Sessions -> Jobs]
      /\ job'[s].at = "closeNotify" /\ job'[s].copy = sess[s]
      /\ \A t \in Sessions \ {s} : job'[t] = job[t]
  BY <1>1, <1>2, ContinueFacts, ConstantFacts DEF CloseSteps
<1>4. CopyValid(s)'
  BY <1>1, <1>3 DEF CopyValid, EpochIsNewest
<1>5. CopiesValid'
  BY <1>1, <1>2, <1>3, <1>4, CopiesKept
<1>6. conn' \in [Sessions -> {"none", "open", "closing", "closed"}]
  BY <1>1, <1>2
<1>7. HandlersOpen'
  BY <1>1, <1>2, <1>3 DEF HandlersOpen, RequestSteps, CloseSteps
<1> QED
  BY <1>3, <1>5, <1>6, <1>7 DEF HandlerInv

LEMMA CloseEraseHandlers == ASSUME GatewayInv, NEW s \in Sessions, CloseErase(s) PROVE HandlerInv'
<1>1. /\ TypeOK /\ HandlersOpen /\ CopiesValid
      /\ conn \in [Sessions -> {"none", "open", "closing", "closed"}]
  BY DEF GatewayInv, TypeOK
<1>2. /\ job[s].at = "closeErase" /\ Erase(s) /\ conn' = conn
      /\ Continue(s, "closeRoutes", NoSession, Scene, 0)
  BY DEF CloseErase
<1>3. /\ job' \in [Sessions -> Jobs]
      /\ job'[s].at = "closeRoutes" /\ job'[s].copy = NoSession
      /\ \A t \in Sessions \ {s} : job'[t] = job[t]
  BY <1>1, <1>2, ContinueFacts, ConstantFacts DEF CloseSteps
<1>4. nextSession' = nextSession /\ \A t \in Sessions \ {s} : sess'[t] = sess[t]
  BY <1>1, <1>2, EraseFacts
<1>5. CopyValid(s)'
  BY <1>3 DEF CopyValid, NoSession
<1>6. CopiesValid'
  BY <1>1, <1>3, <1>4, <1>5, CopiesKept
<1>7. HandlersOpen'
  BY <1>1, <1>2, <1>3, <1>4 DEF HandlersOpen, RequestSteps, CloseSteps
<1> QED
  BY <1>1, <1>2, <1>3, <1>6, <1>7 DEF HandlerInv

LEMMA SubmitHandlers == ASSUME GatewayInv, NEW c \in Channels, Submit(c) PROVE HandlerInv'
<1>1. TypeOK /\ HandlersOpen /\ CopiesValid
  BY DEF GatewayInv
<1>2. job' = job /\ conn' = conn /\ nextSession' = nextSession
  BY DEF Submit
<1>3. \A t \in Sessions : /\ sess'[t].live <=> sess[t].live
                          /\ sess'[t].epoch = sess[t].epoch /\ sess'[t].chan = sess[t].chan
  BY <1>1, SubmitFacts
<1>4. CopiesValid'
  BY <1>1, <1>2, <1>3 DEF CopiesValid, CopyValid
<1>5. HandlersOpen'
  BY <1>1, <1>2 DEF HandlersOpen
<1> QED
  BY <1>1, <1>2, <1>4, <1>5 DEF HandlerInv, TypeOK

\* A request that begins works on a copy of an authenticated session.
LEMMA RequestBegins ==
    ASSUME GatewayInv, NEW s \in Sessions, Ready(s), sess[s].authed,
           NEW at \in {"setDst", "select", "forward"}, at = "select" => sess[s].chan = 0,
           NEW service \in Services, Continue(s, at, sess[s], service, 0),
           sess' = sess, conn' = conn, nextSession' = nextSession
    PROVE  HandlerInv'
<1>1. TypeOK /\ EpochIsNewest /\ sess \in [Sessions -> SessionType]
  BY DEF GatewayInv, TypeOK
<1>2. /\ job' \in [Sessions -> Jobs]
      /\ job'[s].at = at /\ job'[s].copy = sess[s]
      /\ \A t \in Sessions \ {s} : job'[t] = job[t]
  BY <1>1, ContinueFacts, ConstantFacts DEF RequestSteps
<1>3. sess[s].player \in Players /\ sess[s].epoch >= 1
  BY <1>1 DEF EpochIsNewest
<1>4. CopyValid(s)'
  BY <1>2, <1>3 DEF CopyValid
<1>5. conn[s] \in {"open", "closing"}
  BY DEF Ready
<1> QED
  BY <1>2, <1>4, <1>5, ThreadStep DEF RequestSteps, CloseSteps

LEMMA HandlerStepInv == ASSUME GatewayInv, [Next]_vars PROVE HandlerInv'
<1>1. CASE UNCHANGED <<sess, nextSession, conn, job>>
  BY <1>1 DEF GatewayInv, TypeOK, HandlerInv, HandlersOpen, CopiesValid, CopyValid
<1>2. ASSUME NEW s \in Sessions, ClientStep(s) PROVE HandlerInv'
  <2>1. ASSUME NEW service \in Services, BindService(s, service) PROVE HandlerInv'
    BY <2>1, RequestBegins DEF BindService, table
  <2>2. ASSUME NEW service \in Services, Business(s, service) PROVE HandlerInv'
    <3>1. PICK at : at = IF service = Scene /\ sess[s].chan = 0 THEN "select" ELSE "forward"
      OBVIOUS
    <3>2. Continue(s, at, sess[s], service, 0) /\ Ready(s) /\ sess[s].authed
      BY <2>2, <3>1 DEF Business
    <3>3. sess' = sess /\ conn' = conn /\ nextSession' = nextSession
      BY <2>2 DEF Business, table
    <3> QED
      BY <3>1, <3>2, <3>3, RequestBegins
  <2> QED
    BY <1>2, <2>1, <2>2, AuthHandlers, CloseHandlers DEF ClientStep
<1>3. ASSUME NEW s \in Sessions, HandlerStep(s) PROVE HandlerInv'
  <2>1. AuthNotify(s) \/ BindServiceNotify(s) => HandlerInv'
    BY HandlerReturns DEF AuthNotify, BindServiceNotify, table
  <2>2. Unavailable(s) \/ Forward(s) \/ Refuse(s) \/ CloseRoutes(s) => HandlerInv'
    BY HandlerReturns DEF Unavailable, Forward, AddRoute, Refuse, CloseRoutes, table
  <2>3. ASSUME KickRoutes(s) PROVE HandlerInv'
    <3>1. /\ job[s].at = "kick" /\ Continue(s, "kickClose", NoSession, Scene, job[s].old)
          /\ sess' = sess /\ conn' = conn /\ nextSession' = nextSession
      BY <2>3 DEF KickRoutes, table
    <3>2. job[s].old \in Sessions /\ TypeOK /\ HandlersOpen
      BY <3>1 DEF GatewayInv, CopiesValid, CopyValid
    <3>3. job[s].old \in 0..MaxSession
      BY <3>2, ConstantFacts DEF Sessions
    <3>4. /\ job' \in [Sessions -> Jobs]
          /\ job'[s].at = "kickClose" /\ job'[s].copy = NoSession /\ job'[s].old = job[s].old
          /\ \A t \in Sessions \ {s} : job'[t] = job[t]
      BY <3>1, <3>2, <3>3, ContinueFacts, ConstantFacts DEF RequestSteps
    <3>5. CopyValid(s)'
      BY <3>2, <3>4 DEF CopyValid, NoSession
    <3>6. conn[s] \in {"open", "closing"}
      BY <3>1, <3>2 DEF HandlersOpen, RequestSteps
    <3> QED
      BY <3>1, <3>4, <3>5, <3>6, ThreadStep DEF CloseSteps
  <2>4. ASSUME CloseNotify(s) PROVE HandlerInv'
    <3>1. /\ job[s].at = "closeNotify" /\ Continue(s, "closeErase", NoSession, Scene, 0)
          /\ sess' = sess /\ conn' = conn /\ nextSession' = nextSession
      BY <2>4 DEF CloseNotify, table
    <3>2. TypeOK /\ HandlersOpen
      BY DEF GatewayInv
    <3>3. /\ job' \in [Sessions -> Jobs]
          /\ job'[s].at = "closeErase" /\ job'[s].copy = NoSession
          /\ \A t \in Sessions \ {s} : job'[t] = job[t]
      BY <3>1, <3>2, ContinueFacts, ConstantFacts DEF CloseSteps
    <3>4. CopyValid(s)'
      BY <3>3 DEF CopyValid, NoSession
    <3>5. conn[s] = "closed"
      BY <3>1, <3>2 DEF HandlersOpen, CloseSteps
    <3> QED
      BY <3>1, <3>3, <3>4, <3>5, ThreadStep DEF RequestSteps
  <2> QED
    BY <1>3, <2>1, <2>2, <2>3, <2>4, KickCloseHandlers, BindServiceSetHandlers, SelectHandlers,
       BindSceneHandlers, RereadHandlers, ForwardInvalidHandlers, CloseEraseHandlers DEF HandlerStep
<1>4. ASSUME NEW c \in Channels, ChannelUp(c) \/ ChannelDown(c) \/ SceneReceive(c) PROVE HandlerInv'
  BY <1>1, <1>4 DEF ChannelUp, ChannelDown, SceneReceive, table
<1>5. ASSUME NEW r \in routes, Respond(r) \/ Expire(r) PROVE HandlerInv'
  BY <1>1, <1>5 DEF Respond, Expire, table
<1>6. CASE Quiescent \/ UNCHANGED vars
  BY <1>1, <1>6 DEF Quiescent, vars, table
<1> QED
  BY <1>2, <1>3, <1>4, <1>5, <1>6, ConnectHandlers, SubmitHandlers DEF Next

-----------------------------------------------------------------------------
(* Sequence numbers, routes and answers.                                   *)

RequestInv ==
    /\ routes \subseteq Routes
    /\ nextSeq \in 1..(MaxSeq + 1)
    /\ asked \in Seq(Asked) /\ Len(asked) = nextSeq - 1
    /\ RoutesUnanswered
    /\ AnsweredOnce

\* How the number of threads that will take a sequence number changes when
\* one thread moves.
LEMMA WaitingFacts ==
    ASSUME NEW s \in Sessions, \A t \in Sessions \ {s} : job'[t] = job[t]
    PROVE  /\ Cardinality(Waiting) \in Nat /\ Cardinality(Waiting)' \in Nat
           /\ Cardinality(Waiting)' <= Cardinality(Waiting) + 1
           /\ s \notin Waiting' => Cardinality(Waiting)' <= Cardinality(Waiting)
           /\ s \in Waiting => /\ Cardinality(Waiting)' <= Cardinality(Waiting)
                               /\ s \notin Waiting' => Cardinality(Waiting)' = Cardinality(Waiting) - 1
<1>1. IsFiniteSet(Waiting)
  BY ConstantFacts, FS_Subset DEF Waiting
<1>2. Waiting' = Waiting \cup {s} \/ Waiting' = Waiting \ {s}
  BY DEF Waiting
<1>3. Cardinality(Waiting) \in Nat
  BY <1>1, FS_CardinalityType
<1>4. /\ Cardinality(Waiting \cup {s}) = IF s \in Waiting THEN Cardinality(Waiting) ELSE Cardinality(Waiting) + 1
  BY <1>1, FS_AddElement
<1>5. /\ Cardinality(Waiting \ {s}) = IF s \in Waiting THEN Cardinality(Waiting) - 1 ELSE Cardinality(Waiting)
      /\ IsFiniteSet(Waiting \ {s})
  BY <1>1, FS_RemoveElement
<1>6. Cardinality(Waiting \ {s}) \in Nat
  BY <1>5, FS_CardinalityType
<1>7. CASE Waiting' = Waiting \cup {s}
  BY <1>3, <1>4, <1>7
<1>8. CASE Waiting' = Waiting \ {s}
  BY <1>3, <1>5, <1>6, <1>8
<1> QED
  BY <1>2, <1>7, <1>8

\* A step that creates no request: some routes may go.
LEMMA NoRequest ==
    ASSUME RequestInv, routes' \subseteq routes, nextSeq' = nextSeq, asked' = asked,
           nextSeq + Cardinality(Waiting)' <= MaxSeq + 1
    PROVE  RequestInv'
<1>1. RoutesUnanswered'
  BY DEF RequestInv, RoutesUnanswered
<1> QED
  BY <1>1 DEF RequestInv, AnsweredOnce

\* A thread that goes where it takes no sequence number.
LEMMA NoTicket ==
    ASSUME RequestInv, NEW s \in Sessions, \A t \in Sessions \ {s} : job'[t] = job[t],
           job'[s].at \notin {"select", "bind", "reread", "forward"}
    PROVE  nextSeq + Cardinality(Waiting)' <= MaxSeq + 1
<1>1. s \notin Waiting'
  BY DEF Waiting
<1>2. /\ Cardinality(Waiting) \in Nat /\ Cardinality(Waiting)' \in Nat
      /\ Cardinality(Waiting)' <= Cardinality(Waiting)
  BY <1>1, WaitingFacts
<1> QED
  BY <1>2, ConstantFacts DEF RequestInv, RoutesUnanswered

\* An answer takes the route with it: its request cannot be answered again.
LEMMA AnswerRequests ==
    ASSUME RequestInv, NEW r \in routes, Answer(r), job' = job
    PROVE  RequestInv'
<1>1. /\ routes \subseteq Routes /\ nextSeq \in 1..(MaxSeq + 1) /\ MaxSeq \in Nat
      /\ asked \in Seq(Asked) /\ Len(asked) = nextSeq - 1 /\ RoutesUnanswered /\ AnsweredOnce
  BY ConstantFacts DEF RequestInv
<1>2. routes' = routes \ {r} /\ nextSeq' = nextSeq /\ Waiting' = Waiting
  BY DEF Answer, Waiting
<1>3. PICK q : q = r.seq
  OBVIOUS
<1>4. q \in 1..Len(asked) /\ asked[q].answers = 0 /\ asked[q] \in Asked
  BY <1>1, <1>3 DEF RoutesUnanswered, Routes
<1>5. CASE asked' = asked
  BY <1>1, <1>2, <1>5, NoRequest DEF RequestInv, RoutesUnanswered
<1>6. CASE asked' = [asked EXCEPT ![q].answers = @ + 1]
  <2>1. PICK a : a = [asked[q] EXCEPT !.answers = 1]
    OBVIOUS
  <2>2. a \in Asked /\ a.answers = 1
    BY <1>4, <2>1 DEF Asked
  <2>3. asked' = [asked EXCEPT ![q] = a]
    BY <1>4, <1>6, <2>1
  <2>4. asked' \in Seq(Asked) /\ Len(asked') = Len(asked)
    BY <1>1, <1>4, <2>2, <2>3, ExceptSeq
  <2>5. \A i \in 1..Len(asked) : asked'[i] = IF i = q THEN a ELSE asked[i]
    BY <1>1, <2>3
  <2>6. AnsweredOnce'
    BY <1>1, <2>2, <2>4, <2>5 DEF AnsweredOnce
  <2>7. ASSUME NEW x \in routes' PROVE x.seq < nextSeq' /\ asked'[x.seq].answers = 0
    <3>1. x \in routes /\ x # r
      BY <1>2, <2>7
    <3>2. x.seq \in 1..Len(asked) /\ x.seq # q /\ asked[x.seq].answers = 0 /\ x.seq < nextSeq
      BY <1>1, <1>3, <3>1 DEF RoutesUnanswered, Routes
    <3> QED
      BY <1>2, <2>5, <3>2
  <2>8. RoutesUnanswered'
    BY <1>1, <1>2, <2>7 DEF RoutesUnanswered
  <2> QED
    BY <1>1, <1>2, <2>4, <2>6, <2>8 DEF RequestInv
<1> QED
  BY <1>3, <1>5, <1>6 DEF Answer

\* A refused request has had no answer yet, and its thread takes the route.
LEMMA RefuseRequests ==
    ASSUME GatewayInv, AnsweredOnce, NEW s \in Sessions, Refuse(s)
    PROVE  RequestInv'
<1>1. /\ routes \subseteq Routes /\ nextSeq \in 1..(MaxSeq + 1) /\ MaxSeq \in Nat
      /\ asked \in Seq(Asked) /\ Len(asked) = nextSeq - 1 /\ RoutesUnanswered /\ TypeOK /\ RequestInv
  BY ConstantFacts DEF GatewayInv, TypeOK, RequestInv
<1>2. PICK q : q = job[s].seq
  OBVIOUS
<1>3. /\ routes' = {r \in routes : r.seq # q} /\ nextSeq' = nextSeq /\ Done(s)
      /\ asked' = asked \/ asked' = [asked EXCEPT ![q].answers = @ + 1]
  BY <1>2 DEF Refuse
<1>4. q \in 1..Len(asked) /\ asked[q].answers = 0 /\ asked[q] \in Asked
  BY <1>1, <1>2 DEF GatewayInv, RefusedUnsent, Refuse
<1>5. nextSeq + Cardinality(Waiting)' <= MaxSeq + 1
  <2>1. job'[s].at = "idle" /\ \A t \in Sessions \ {s} : job'[t] = job[t]
    BY <1>1, <1>3, DoneFacts
  <2> QED
    BY <1>1, <2>1, NoTicket
<1>6. CASE asked' = asked
  BY <1>1, <1>3, <1>5, <1>6, NoRequest
<1>7. CASE asked' = [asked EXCEPT ![q].answers = @ + 1]
  <2>1. PICK a : a = [asked[q] EXCEPT !.answers = 1]
    OBVIOUS
  <2>2. a \in Asked /\ a.answers = 1
    BY <1>4, <2>1 DEF Asked
  <2>3. asked' = [asked EXCEPT ![q] = a]
    BY <1>4, <1>7, <2>1
  <2>4. asked' \in Seq(Asked) /\ Len(asked') = Len(asked)
    BY <1>1, <1>4, <2>2, <2>3, ExceptSeq
  <2>5. \A i \in 1..Len(asked) : asked'[i] = IF i = q THEN a ELSE asked[i]
    BY <1>1, <2>3
  <2>6. AnsweredOnce'
    BY <1>1, <2>2, <2>4, <2>5 DEF AnsweredOnce
  <2>7. ASSUME NEW x \in routes' PROVE x.seq < nextSeq' /\ asked'[x.seq].answers = 0
    <3>1. x \in routes /\ x.seq # q
      BY <1>3, <2>7
    <3>2. x.seq \in 1..Len(asked) /\ asked[x.seq].answers = 0 /\ x.seq < nextSeq
      BY <1>1, <3>1 DEF RoutesUnanswered, Routes
    <3> QED
      BY <1>3, <2>5, <3>1, <3>2
  <2>8. RoutesUnanswered'
    BY <1>1, <1>3, <1>5, <2>7 DEF RoutesUnanswered
  <2> QED
    BY <1>1, <1>3, <2>4, <2>6, <2>8 DEF RequestInv
<1> QED
  BY <1>3, <1>6, <1>7

\* A request that gets a route uses up the ticket of its thread.
LEMMA AddRouteRequests ==
    ASSUME GatewayInv, AnsweredOnce, NEW s \in Sessions, AddRoute(s),
           job'[s].at \in {"idle", "refuse"}, \A t \in Sessions \ {s} : job'[t] = job[t]
    PROVE  RequestInv'
<1>1. /\ routes \subseteq Routes /\ nextSeq \in 1..(MaxSeq + 1) /\ MaxSeq \in Nat
      /\ asked \in Seq(Asked) /\ Len(asked) = nextSeq - 1 /\ RoutesUnanswered
      /\ TypeOK /\ CopiesValid
  BY ConstantFacts DEF GatewayInv, TypeOK
<1>2. PICK copy : copy = job[s].copy
  OBVIOUS
<1>3. copy \in SessionType /\ copy.epoch >= 1 /\ job[s].at = "forward"
  BY <1>1, <1>2 DEF TypeOK, Jobs, CopiesValid, CopyValid, AddRoute
<1>4. copy.epoch \in 1..EpochLimit /\ copy.chan \in Channels \cup {0}
  BY <1>3, ConstantFacts DEF SessionType
<1>5. PICK r : r = [seq |-> nextSeq, session |-> s, epoch |-> copy.epoch,
                    via |-> IF job[s].arg = Scene THEN copy.chan ELSE 0]
  OBVIOUS
<1>6. PICK a : a = [session |-> s, epoch |-> copy.epoch, answers |-> 0]
  OBVIOUS
<1>7. routes' = routes \cup {r} /\ nextSeq' = nextSeq + 1 /\ asked' = Append(asked, a)
  BY <1>2, <1>5, <1>6 DEF AddRoute
<1>8. \A t \in Sessions \ {s} : job'[t] = job[t]
  OBVIOUS
<1>9. s \in Waiting /\ s \notin Waiting'
  BY <1>3 DEF Waiting
<1>10. /\ Cardinality(Waiting) \in Nat /\ Cardinality(Waiting)' \in Nat
       /\ Cardinality(Waiting)' = Cardinality(Waiting) - 1
  BY <1>8, <1>9, WaitingFacts
<1>11. nextSeq + Cardinality(Waiting) <= MaxSeq + 1
  BY <1>1 DEF RoutesUnanswered
<1>12. nextSeq \in 1..MaxSeq /\ nextSeq' \in 1..(MaxSeq + 1) /\ nextSeq' + Cardinality(Waiting)' <= MaxSeq + 1
  BY <1>1, <1>7, <1>10, <1>11
<1>13. r \in Routes /\ r.seq = nextSeq
  BY <1>4, <1>5, <1>12 DEF Routes
<1>14. a \in Asked /\ a.answers = 0
  BY <1>4, <1>6 DEF Asked
<1>15. /\ asked' \in Seq(Asked) /\ Len(asked') = nextSeq' - 1
       /\ \A i \in 1..Len(asked) : asked'[i] = asked[i]
       /\ asked'[nextSeq] = a
  BY <1>1, <1>7, <1>14, AppendProperties
<1>16. AnsweredOnce'
  BY <1>1, <1>7, <1>14, <1>15 DEF AnsweredOnce
<1>17. ASSUME NEW x \in routes' PROVE x.seq < nextSeq' /\ asked'[x.seq].answers = 0
  <2>1. CASE x = r
    BY <1>1, <1>7, <1>13, <1>14, <1>15, <2>1
  <2>2. CASE x \in routes
    <3>1. x.seq \in 1..Len(asked) /\ asked[x.seq].answers = 0 /\ x.seq < nextSeq
      BY <1>1, <2>2 DEF RoutesUnanswered, Routes
    <3> QED
      BY <1>1, <1>7, <1>15, <3>1
  <2> QED
    BY <1>7, <1>17, <2>1, <2>2
<1>18. ASSUME NEW x \in routes', NEW y \in routes', x.seq = y.seq PROVE x = y
  <2>1. \A z \in routes : z.seq # nextSeq
    BY <1>1 DEF RoutesUnanswered, Routes
  <2> QED
    BY <1>1, <1>7, <1>13, <1>18, <2>1 DEF RoutesUnanswered
<1>19. RoutesUnanswered'
  BY <1>12, <1>17, <1>18 DEF RoutesUnanswered
<1> QED
  BY <1>1, <1>7, <1>12, <1>13, <1>15, <1>16, <1>19 DEF RequestInv

LEMMA RequestStep == ASSUME GatewayInv, AnsweredOnce, [Next]_vars PROVE RequestInv'
<1>1. RequestInv /\ TypeOK
  BY DEF GatewayInv, TypeOK, RequestInv
<1>2. ASSUME UNCHANGED <<job, requests>> PROVE RequestInv'
  <2>1. Waiting' = Waiting
    BY <1>2 DEF Waiting
  <2> QED
    BY <1>1, <1>2, <2>1, NoRequest DEF requests, RequestInv, RoutesUnanswered
<1>3. ASSUME NEW s \in Sessions, Done(s), UNCHANGED requests PROVE RequestInv'
  <2>1. job'[s].at = "idle" /\ \A t \in Sessions \ {s} : job'[t] = job[t]
    BY <1>1, <1>3, DoneFacts
  <2> QED
    BY <1>1, <1>3, <2>1, NoTicket, NoRequest DEF requests
<1>4. ASSUME NEW s \in Sessions,
             NEW at \in {"idle"} \cup (RequestSteps \ {"select", "bind", "reread", "forward"}) \cup CloseSteps,
             NEW copy, NEW arg, NEW old, Continue(s, at, copy, arg, old),
             routes' \subseteq routes, nextSeq' = nextSeq, asked' = asked
      PROVE  RequestInv'
  <2>1. job'[s].at = at /\ \A t \in Sessions \ {s} : job'[t] = job[t]
    BY <1>1, <1>4 DEF Continue, TypeOK
  <2>2. at \notin {"select", "bind", "reread", "forward"}
    BY <1>4 DEF CloseSteps
  <2> QED
    BY <1>1, <1>4, <2>1, <2>2, NoTicket, NoRequest
<1>5. ASSUME NEW s \in Sessions, ClientStep(s) PROVE RequestInv'
  <2>1. ASSUME NEW p \in Players, Auth(s, p) PROVE RequestInv'
    <3>1. PICK kicked : kicked = IF index[p] \in Sessions \ {s} THEN index[p] ELSE 0
      OBVIOUS
    <3>2. /\ Continue(s, IF kicked # 0 THEN "kick" ELSE "notify", NoSession, Scene, kicked)
          /\ routes' \subseteq routes /\ nextSeq' = nextSeq /\ asked' = asked
      BY <2>1, <3>1 DEF Auth, requests
    <3> QED
      BY <1>4, <3>2 DEF RequestSteps
  <2>2. ASSUME NEW service \in Services, BindService(s, service) PROVE RequestInv'
    <3>1. /\ Continue(s, "setDst", sess[s], service, 0)
          /\ routes' \subseteq routes /\ nextSeq' = nextSeq /\ asked' = asked
      BY <2>2 DEF BindService, requests
    <3> QED
      BY <1>4, <3>1 DEF RequestSteps
  <2>3. ASSUME NEW service \in Services, Business(s, service) PROVE RequestInv'
    <3>1. \A t \in Sessions \ {s} : job'[t] = job[t]
      BY <1>1, <2>3 DEF Business, Continue, TypeOK
    <3>2. /\ Cardinality(Waiting) \in Nat /\ Cardinality(Waiting)' \in Nat
          /\ Cardinality(Waiting)' <= Cardinality(Waiting) + 1
      BY <3>1, WaitingFacts
    <3>3. nextSeq + Cardinality(Waiting) <= MaxSeq /\ UNCHANGED requests
      BY <2>3 DEF Business
    <3>4. nextSeq + Cardinality(Waiting)' <= MaxSeq + 1
      BY <1>1, <3>2, <3>3, ConstantFacts DEF RequestInv
    <3> QED
      BY <1>1, <3>3, <3>4, NoRequest DEF requests
  <2>4. ASSUME Close(s) PROVE RequestInv'
    <3>1. /\ Continue(s, "closeNotify", sess[s], Scene, 0)
          /\ routes' \subseteq routes /\ nextSeq' = nextSeq /\ asked' = asked
      BY <2>4 DEF Close, requests
    <3> QED
      BY <1>4, <3>1 DEF CloseSteps
  <2> QED
    BY <1>5, <2>1, <2>2, <2>3, <2>4 DEF ClientStep
<1>6. ASSUME NEW s \in Sessions, HandlerStep(s) PROVE RequestInv'
  <2>1. AuthNotify(s) \/ BindServiceNotify(s) \/ Unavailable(s) => RequestInv'
    BY <1>3 DEF AuthNotify, BindServiceNotify, Unavailable
  <2>2. ASSUME KickRoutes(s) PROVE RequestInv'
    <3>1. /\ Continue(s, "kickClose", NoSession, Scene, job[s].old)
          /\ routes' \subseteq routes /\ nextSeq' = nextSeq /\ asked' = asked
      BY <2>2 DEF KickRoutes, EraseBySession
    <3> QED
      BY <1>4, <3>1 DEF RequestSteps
  <2>3. ASSUME KickClose(s) PROVE RequestInv'
    <3>1. /\ Continue(s, "notify", NoSession, Scene, 0)
          /\ routes' \subseteq routes /\ nextSeq' = nextSeq /\ asked' = asked
      BY <2>3 DEF KickClose, requests
    <3> QED
      BY <1>4, <3>1 DEF RequestSteps
  <2>4. ASSUME BindServiceSet(s) PROVE RequestInv'
    <3>1. /\ Done(s) \/ Continue(s, "moved", job[s].copy, job[s].arg, 0)
          /\ UNCHANGED requests /\ routes' \subseteq routes /\ nextSeq' = nextSeq /\ asked' = asked
      BY <2>4 DEF BindServiceSet, requests
    <3> QED
      BY <1>3, <1>4, <3>1 DEF RequestSteps
  <2>5. ASSUME (\E c \in Channels : Select(s, c)) \/ BindScene(s) \/ Reread(s) PROVE RequestInv'
    <3>1. \A t \in Sessions \ {s} : job'[t] = job[t]
      BY <1>1, <2>5 DEF Select, BindScene, Reread, Continue, Done, TypeOK
    <3>2. s \in Waiting /\ UNCHANGED requests
      BY <2>5 DEF Select, BindScene, Reread, Waiting
    <3>3. /\ Cardinality(Waiting) \in Nat /\ Cardinality(Waiting)' \in Nat
          /\ Cardinality(Waiting)' <= Cardinality(Waiting)
      BY <3>1, <3>2, WaitingFacts
    <3>4. nextSeq + Cardinality(Waiting)' <= MaxSeq + 1
      BY <1>1, <3>3, ConstantFacts DEF RequestInv, RoutesUnanswered
    <3> QED
      BY <1>1, <3>2, <3>4, NoRequest DEF requests
  <2>6. ASSUME CloseNotify(s) PROVE RequestInv'
    <3>1. /\ Continue(s, "closeErase", NoSession, Scene, 0)
          /\ routes' \subseteq routes /\ nextSeq' = nextSeq /\ asked' = asked
      BY <2>6 DEF CloseNotify, requests
    <3> QED
      BY <1>4, <3>1 DEF CloseSteps
  <2>7. ASSUME CloseErase(s) PROVE RequestInv'
    <3>1. /\ Continue(s, "closeRoutes", NoSession, Scene, 0)
          /\ routes' \subseteq routes /\ nextSeq' = nextSeq /\ asked' = asked
      BY <2>7 DEF CloseErase, requests
    <3> QED
      BY <1>4, <3>1 DEF CloseSteps
  <2>8. ASSUME CloseRoutes(s) PROVE RequestInv'
    <3>1. Done(s) /\ routes' \subseteq routes /\ nextSeq' = nextSeq /\ asked' = asked
      BY <2>8 DEF CloseRoutes, EraseBySession
    <3>2. job'[s].at = "idle" /\ \A t \in Sessions \ {s} : job'[t] = job[t]
      BY <1>1, <3>1, DoneFacts
    <3> QED
      BY <1>1, <3>1, <3>2, NoTicket, NoRequest
  <2>9. ASSUME Forward(s) PROVE RequestInv'
    <3>1. AddRoute(s) /\ Done(s)
      BY <2>9 DEF Forward
    <3>2. job'[s].at = "idle" /\ \A t \in Sessions \ {s} : job'[t] = job[t]
      BY <1>1, <3>1, DoneFacts
    <3> QED
      BY <3>1, <3>2, AddRouteRequests
  <2>10. ASSUME ForwardInvalid(s) PROVE RequestInv'
    <3>1. AddRoute(s)
      BY <2>10 DEF ForwardInvalid
    <3> QED
      BY <2>10, <3>1, RefusingFacts, AddRouteRequests
  <2> QED
    BY <1>6, <2>1, <2>2, <2>3, <2>4, <2>5, <2>6, <2>7, <2>8, <2>9, <2>10, RefuseRequests DEF HandlerStep
<1>7. CASE Connect
  BY <1>2, <1>7 DEF Connect
<1>8. ASSUME NEW c \in Channels, ChannelUp(c) \/ ChannelDown(c) \/ SceneReceive(c) PROVE RequestInv'
  BY <1>2, <1>8 DEF ChannelUp, ChannelDown, SceneReceive
<1>9. ASSUME NEW c \in Channels, Submit(c) PROVE RequestInv'
  <2>1. PICK q : q = Head(loop[c]).seq
    OBVIOUS
  <2>2. /\ job' = job
        /\ \/ UNCHANGED requests
           \/ (\E r \in routes : r.seq = q) /\ Answer(CHOOSE r \in routes : r.seq = q)
    BY <1>9, <2>1 DEF Submit
  <2>3. ASSUME NEW x \in routes, x.seq = q, Answer(CHOOSE r \in routes : r.seq = q) PROVE RequestInv'
    <3>1. (CHOOSE r \in routes : r.seq = q) \in routes
      BY <2>3
    <3> QED
      BY <1>1, <2>2, <2>3, <3>1, AnswerRequests
  <2> QED
    BY <1>2, <2>2, <2>3
<1>10. ASSUME NEW r \in routes, Respond(r) \/ Expire(r) PROVE RequestInv'
  BY <1>1, <1>10, AnswerRequests DEF Respond, Expire
<1>11. CASE Quiescent \/ UNCHANGED vars
  BY <1>2, <1>11 DEF Quiescent, vars
<1> QED
  BY <1>5, <1>6, <1>7, <1>8, <1>9, <1>10, <1>11 DEF Next

-----------------------------------------------------------------------------
(* Routes die with their session: a route is only made by a thread whose   *)
(* connection is open, and the close ends by erasing them.                 *)

LEMMA RoutesDieStep == ASSUME GatewayInv, [Next]_vars PROVE RoutesDieWithSession'
<1>1. /\ TypeOK /\ HandlersOpen /\ RoutesDieWithSession /\ routes \subseteq Routes
      /\ conn \in [Sessions -> {"none", "open", "closing", "closed"}] /\ job \in [Sessions -> Jobs]
  BY DEF GatewayInv, TypeOK
<1>2. ASSUME routes' \subseteq routes, job' = job, \A t \in Sessions : conn'[t] = "closed" => conn[t] = "closed"
      PROVE  RoutesDieWithSession'
  BY <1>1, <1>2 DEF RoutesDieWithSession, Routes
\* A thread that goes on is not idle.
<1>3. ASSUME NEW s \in Sessions, NEW at, at # "idle", NEW copy, NEW arg, NEW old,
             Continue(s, at, copy, arg, old), routes' \subseteq routes,
             \A t \in Sessions \ {s} : conn'[t] = "closed" => conn[t] = "closed"
      PROVE  RoutesDieWithSession'
  <2>1. job'[s].at = at /\ \A t \in Sessions \ {s} : job'[t] = job[t]
    BY <1>1, <1>3 DEF Continue
  <2>2. job'[s] # Idle
    BY <1>3, <2>1 DEF Idle
  <2> QED
    BY <1>1, <1>3, <2>1, <2>2 DEF RoutesDieWithSession, Routes
\* A request that returns leaves its connection as it was, not closed.
<1>4. ASSUME NEW s \in Sessions, Done(s), job[s].at \in RequestSteps, conn' = conn,
             \A r \in routes' : r \in routes \/ r.session = s
      PROVE  RoutesDieWithSession'
  <2>1. \A t \in Sessions \ {s} : job'[t] = job[t]
    BY <1>1, <1>4, DoneFacts
  <2>2. conn[s] # "closed"
    BY <1>1, <1>4 DEF HandlersOpen
  <2> QED
    BY <1>1, <1>4, <2>1, <2>2 DEF RoutesDieWithSession, Routes
<1>5. ASSUME NEW s \in Sessions, ClientStep(s) PROVE RoutesDieWithSession'
  <2>1. ASSUME NEW p \in Players, Auth(s, p) PROVE RoutesDieWithSession'
    <3>1. PICK kicked : kicked = IF index[p] \in Sessions \ {s} THEN index[p] ELSE 0
      OBVIOUS
    <3>2. PICK at : at = IF kicked # 0 THEN "kick" ELSE "notify"
      OBVIOUS
    <3>3. /\ Continue(s, at, NoSession, Scene, kicked) /\ at # "idle"
          /\ routes' \subseteq routes /\ conn' = conn
      BY <2>1, <3>1, <3>2 DEF Auth, requests
    <3> QED
      BY <1>3, <3>3
  <2>2. ASSUME NEW service \in Services, BindService(s, service) PROVE RoutesDieWithSession'
    <3>1. Continue(s, "setDst", sess[s], service, 0) /\ routes' \subseteq routes /\ conn' = conn
      BY <2>2 DEF BindService, requests
    <3> QED
      BY <1>3, <3>1
  <2>3. ASSUME NEW service \in Services, Business(s, service) PROVE RoutesDieWithSession'
    <3>1. PICK at : at = IF service = Scene /\ sess[s].chan = 0 THEN "select" ELSE "forward"
      OBVIOUS
    <3>2. Continue(s, at, sess[s], service, 0) /\ at # "idle" /\ routes' \subseteq routes /\ conn' = conn
      BY <2>3, <3>1 DEF Business, requests
    <3> QED
      BY <1>3, <3>2
  <2>4. ASSUME Close(s) PROVE RoutesDieWithSession'
    <3>1. Continue(s, "closeNotify", sess[s], Scene, 0) /\ routes' \subseteq routes
      BY <2>4 DEF Close, requests
    <3>2. \A t \in Sessions \ {s} : conn'[t] = conn[t]
      BY <1>1, <2>4 DEF Close
    <3> QED
      BY <1>3, <3>1, <3>2
  <2> QED
    BY <1>5, <2>1, <2>2, <2>3, <2>4 DEF ClientStep
<1>6. ASSUME NEW s \in Sessions, HandlerStep(s) PROVE RoutesDieWithSession'
  <2>1. AuthNotify(s) \/ BindServiceNotify(s) \/ Unavailable(s) => RoutesDieWithSession'
    BY <1>4 DEF AuthNotify, BindServiceNotify, Unavailable, requests, RequestSteps
  <2>2. ASSUME Forward(s) PROVE RoutesDieWithSession'
    <3>1. /\ Done(s) /\ job[s].at \in RequestSteps /\ conn' = conn
          /\ \A r \in routes' : r \in routes \/ r.session = s
      BY <2>2 DEF Forward, AddRoute, RequestSteps
    <3> QED
      BY <1>4, <3>1
  <2>10. ASSUME Refuse(s) PROVE RoutesDieWithSession'
    <3>1. /\ Done(s) /\ job[s].at \in RequestSteps /\ conn' = conn
          /\ \A r \in routes' : r \in routes \/ r.session = s
      BY <2>10 DEF Refuse, RequestSteps
    <3> QED
      BY <1>4, <3>1
  <2>11. ASSUME ForwardInvalid(s) PROVE RoutesDieWithSession'
    <3>1. job'[s].at = "refuse" /\ \A t \in Sessions \ {s} : job'[t] = job[t]
      BY <2>11, RefusingFacts
    <3>2. conn' = conn /\ \A r \in routes' : r \in routes \/ r.session = s
      BY <2>11 DEF ForwardInvalid, AddRoute
    <3>3. job'[s] # Idle
      BY <3>1 DEF Idle
    <3> QED
      BY <1>1, <3>1, <3>2, <3>3 DEF RoutesDieWithSession, Routes
  <2>3. ASSUME KickRoutes(s) PROVE RoutesDieWithSession'
    <3>1. Continue(s, "kickClose", NoSession, Scene, job[s].old) /\ routes' \subseteq routes /\ conn' = conn
      BY <2>3 DEF KickRoutes, EraseBySession
    <3> QED
      BY <1>3, <3>1
  <2>4. ASSUME KickClose(s) PROVE RoutesDieWithSession'
    <3>1. Continue(s, "notify", NoSession, Scene, 0) /\ routes' \subseteq routes
      BY <2>4 DEF KickClose, requests
    <3>2. conn' = conn \/ conn' = [conn EXCEPT ![job[s].old] = "closing"]
      BY <2>4 DEF KickClose
    <3>3. \A t \in Sessions : conn'[t] = "closed" => conn[t] = "closed"
      BY <1>1, <3>2
    <3> QED
      BY <1>3, <3>1, <3>3
  <2>5. ASSUME BindServiceSet(s) PROVE RoutesDieWithSession'
    <3>1. /\ Done(s) \/ Continue(s, "moved", job[s].copy, job[s].arg, 0)
          /\ job[s].at \in RequestSteps /\ routes' = routes /\ conn' = conn
      BY <2>5 DEF BindServiceSet, requests, RequestSteps
    <3> QED
      BY <1>3, <1>4, <3>1
  <2>6. ASSUME NEW c \in Channels, Select(s, c) PROVE RoutesDieWithSession'
    <3>1. PICK copy : Continue(s, "bind", copy, Scene, 0) /\ routes' \subseteq routes /\ conn' = conn
      BY <2>6 DEF Select, requests
    <3> QED
      BY <1>3, <3>1
  <2>12. ASSUME BindScene(s) PROVE RoutesDieWithSession'
    <3>1. Continue(s, "reread", NoSession, Scene, 0) /\ routes' \subseteq routes /\ conn' = conn
      BY <2>12 DEF BindScene, requests
    <3> QED
      BY <1>3, <3>1
  <2>13. ASSUME Reread(s) PROVE RoutesDieWithSession'
    <3>1. /\ Done(s) \/ Continue(s, "forward", sess[s], Scene, 0)
          /\ job[s].at \in RequestSteps /\ routes' = routes /\ conn' = conn
      BY <2>13 DEF Reread, requests, RequestSteps
    <3> QED
      BY <1>3, <1>4, <3>1
  <2>7. ASSUME CloseNotify(s) PROVE RoutesDieWithSession'
    <3>1. Continue(s, "closeErase", NoSession, Scene, 0) /\ routes' \subseteq routes /\ conn' = conn
      BY <2>7 DEF CloseNotify, requests
    <3> QED
      BY <1>3, <3>1
  <2>8. ASSUME CloseErase(s) PROVE RoutesDieWithSession'
    <3>1. Continue(s, "closeRoutes", NoSession, Scene, 0) /\ routes' \subseteq routes /\ conn' = conn
      BY <2>8 DEF CloseErase, requests
    <3> QED
      BY <1>3, <3>1
  <2>9. ASSUME CloseRoutes(s) PROVE RoutesDieWithSession'
    <3>1. Done(s) /\ routes' = {r \in routes : r.session # s} /\ conn' = conn
      BY <2>9 DEF CloseRoutes, EraseBySession
    <3>2. \A t \in Sessions \ {s} : job'[t] = job[t]
      BY <1>1, <3>1, DoneFacts
    <3> QED
      BY <1>1, <3>1, <3>2 DEF RoutesDieWithSession, Routes
  <2> QED
    BY <1>6, <2>1, <2>2, <2>3, <2>4, <2>5, <2>6, <2>7, <2>8, <2>9, <2>10, <2>11, <2>12, <2>13 DEF HandlerStep
<1>7. CASE Connect
  <2>1. routes' = routes /\ job' = job
    BY <1>7 DEF Connect, requests
  <2>2. \A t \in Sessions : conn'[t] = "closed" => conn[t] = "closed"
    BY <1>1, <1>7 DEF Connect
  <2> QED
    BY <1>2, <2>1, <2>2
<1>8. ASSUME NEW c \in Channels, ChannelUp(c) \/ ChannelDown(c) \/ SceneReceive(c) PROVE RoutesDieWithSession'
  BY <1>2, <1>8 DEF ChannelUp, ChannelDown, SceneReceive, requests
<1>9. ASSUME NEW c \in Channels, Submit(c) PROVE RoutesDieWithSession'
  <2>1. job' = job /\ conn' = conn /\ routes' \subseteq routes
    BY <1>9 DEF Submit, Answer, requests
  <2> QED
    BY <1>2, <2>1
<1>10. ASSUME NEW r \in routes, Respond(r) \/ Expire(r) PROVE RoutesDieWithSession'
  BY <1>2, <1>10 DEF Respond, Expire, Answer
<1>11. CASE Quiescent \/ UNCHANGED vars
  BY <1>2, <1>11 DEF Quiescent, vars, requests
<1> QED
  BY <1>5, <1>6, <1>7, <1>8, <1>9, <1>10, <1>11 DEF Next

-----------------------------------------------------------------------------
(* The types of what goes to the scene.                                    *)

SceneSideInv ==
    /\ chan \in [Channels -> {"new", "up", "down"}]
    /\ loop \in [Channels -> Seq(Submissions)]
    /\ wire \in [Channels -> Seq(FrameType)]
    /\ scene \in SceneType
    /\ due \subseteq 1..MaxSeq

LEMMA QueueType ==
    ASSUME TypeOK, NEW c \in Channels, NEW kind, NEW data, NEW seq,
           Frame(kind, data, seq) \in Submissions, Queue(c, kind, data, seq)
    PROVE  loop' \in [Channels -> Seq(Submissions)]
BY DEF TypeOK, Queue

\* A notification is made from a copy that names a player and an epoch.
LEMMA NotifyType ==
    ASSUME TypeOK, NEW s \in Sessions, NEW copy \in SessionType, NEW kind \in {"online", "offline"},
           copy.authed => copy.player \in Players /\ copy.epoch >= 1,
           Notify(s, copy, kind)
    PROVE  loop' \in [Channels -> Seq(Submissions)]
<1>1. CASE UNCHANGED loop
  BY <1>1 DEF TypeOK
<1>2. CASE copy.authed /\ copy.chan # 0 /\ Queue(copy.chan, kind, Data(s, copy.player, copy.epoch), 0)
  <2>1. copy.chan \in Channels /\ copy.epoch \in 1..EpochLimit
    BY <1>2, ConstantFacts DEF SessionType
  <2>2. Data(s, copy.player, copy.epoch) \in Datas
    BY <1>2, <2>1 DEF Data, Datas
  <2>3. Frame(kind, Data(s, copy.player, copy.epoch), 0) \in Submissions
    BY <2>2, ConstantFacts DEF Frame, Submissions
  <2> QED
    BY <1>2, <2>1, <2>3, QueueType
<1> QED
  BY <1>1, <1>2 DEF Notify

\* What a submission puts on the channel is of its own binding, and an OFFLINE
\* puts nothing else there.
LEMMA FramesFacts ==
    ASSUME NEW item \in Submissions, NEW declared
    PROVE  /\ Frames(item, declared) \in Seq(FrameType)
           /\ \A j \in 1..Len(Frames(item, declared)) :
                /\ Frames(item, declared)[j].data = item.data
                /\ Frames(item, declared)[j].kind \in {"online", "business"} => item.kind = "online"
                /\ Frames(item, declared)[j].seq \in {0, item.seq}
<1>1. /\ item.kind \in {"online", "offline"} /\ item.data \in Datas /\ item.seq \in 0..MaxSeq
      /\ item.kind = "offline" => item.seq = 0
  BY ConstantFacts DEF Submissions
<1>2. PICK f : f = Frame(item.kind, item.data, 0)
  OBVIOUS
<1>3. PICK g : g = Frame("business", item.data, item.seq)
  OBVIOUS
<1>4. f \in FrameType /\ f.kind = item.kind /\ f.data = item.data /\ f.seq = 0
  BY <1>1, <1>2, ConstantFacts DEF Frame, FrameType
<1>5. g.kind = "business" /\ g.data = item.data /\ g.seq = item.seq /\ (item.seq # 0 => g \in FrameType)
  BY <1>1, <1>3 DEF Frame, FrameType
<1>6. PICK a : a = IF item.kind = "offline" \/ ~declared THEN <<f>> ELSE <<>>
  OBVIOUS
<1>7. PICK b : b = IF item.seq # 0 THEN <<g>> ELSE <<>>
  OBVIOUS
<1>8. /\ a \in Seq(FrameType) /\ \A j \in 1..Len(a) : a[j] = f
  BY <1>4, <1>6
<1>9. /\ b \in Seq(FrameType) /\ \A j \in 1..Len(b) : b[j] = g /\ item.seq # 0
  BY <1>5, <1>7
<1>10. Frames(item, declared) = a \o b
  BY <1>2, <1>3, <1>6, <1>7 DEF Frames
<1>11. /\ a \o b \in Seq(FrameType) /\ Len(a \o b) = Len(a) + Len(b)
       /\ \A j \in 1..(Len(a) + Len(b)) : (a \o b)[j] = IF j <= Len(a) THEN a[j] ELSE b[j - Len(a)]
  BY <1>8, <1>9, ConcatProperties
<1>12. \A j \in 1..Len(a \o b) : (a \o b)[j] = f \/ ((a \o b)[j] = g /\ item.seq # 0)
  BY <1>8, <1>9, <1>11
<1> QED
  BY <1>1, <1>4, <1>5, <1>10, <1>11, <1>12

LEMMA ForwardType == ASSUME GatewayInv, NEW s \in Sessions, Forward(s) PROVE SceneSideInv'
<1>1. TypeOK /\ CopiesValid /\ job \in [Sessions -> Jobs]
  BY DEF GatewayInv, TypeOK
<1>2. PICK copy : copy = job[s].copy
  OBVIOUS
<1>3. copy \in SessionType /\ copy.epoch >= 1 /\ job[s].at = "forward"
  BY <1>1, <1>2 DEF Jobs, CopiesValid, CopyValid, Forward, AddRoute
<1>4. copy.epoch \in 1..EpochLimit /\ copy.chan \in Channels \cup {0}
  BY <1>3, ConstantFacts DEF SessionType
<1>5. nextSeq \in 1..MaxSeq
  BY <1>3, ForwardingSeq
<1>6. UNCHANGED <<chan, wire, scene>>
  BY DEF Forward, AddRoute
<1>7. CASE job[s].arg = Scene
  <2>1. /\ copy.chan # 0 /\ due' = due /\ copy.player \in Players
        /\ Queue(copy.chan, "online", Data(s, copy.player, copy.epoch), nextSeq)
    BY <1>2, <1>3, <1>7 DEF Forward, AddRoute, CarriesPlayer, SessionType
  <2>2. Data(s, copy.player, copy.epoch) \in Datas
    BY <1>3, <1>4, <2>1 DEF Data, Datas
  <2>3. Frame("online", Data(s, copy.player, copy.epoch), nextSeq) \in Submissions
    BY <1>5, <2>2 DEF Frame, Submissions
  <2>4. loop' \in [Channels -> Seq(Submissions)]
    BY <1>1, <1>4, <2>1, <2>3, QueueType
  <2> QED
    BY <1>1, <1>6, <2>1, <2>4 DEF SceneSideInv, TypeOK
<1>8. CASE job[s].arg # Scene
  <2>1. due' = due \cup {nextSeq} /\ loop' = loop
    BY <1>8 DEF Forward
  <2> QED
    BY <1>1, <1>5, <1>6, <2>1 DEF SceneSideInv, TypeOK
<1> QED
  BY <1>7, <1>8

LEMMA ChannelDownType == ASSUME GatewayInv, NEW c \in Channels, ChannelDown(c) PROVE SceneSideInv'
<1>1. /\ chan \in [Channels -> {"new", "up", "down"}] /\ wire \in [Channels -> Seq(FrameType)] /\ SceneSideInv
  BY DEF GatewayInv, TypeOK, SceneSideInv
<1>2. PICK n \in 0..Len(wire[c]) : wire' = [wire EXCEPT ![c] = Append(SubSeq(@, 1, n), EOF)]
  BY DEF ChannelDown
<1>3. SubSeq(wire[c], 1, n) \in Seq(FrameType) /\ EOF \in FrameType
  BY <1>1, SubSeqProperties DEF FrameType
<1>4. Append(SubSeq(wire[c], 1, n), EOF) \in Seq(FrameType)
  BY <1>3, AppendProperties
<1>5. wire' \in [Channels -> Seq(FrameType)]
  BY <1>1, <1>2, <1>4
<1>6. chan' \in [Channels -> {"new", "up", "down"}] /\ UNCHANGED <<loop, scene, due>>
  BY <1>1 DEF ChannelDown
<1> QED
  BY <1>1, <1>5, <1>6 DEF SceneSideInv

LEMMA SubmitType == ASSUME GatewayInv, NEW c \in Channels, Submit(c) PROVE SceneSideInv'
<1>1. /\ TypeOK /\ loop \in [Channels -> Seq(Submissions)] /\ wire \in [Channels -> Seq(FrameType)] /\ SceneSideInv
  BY DEF GatewayInv, TypeOK, SceneSideInv
<1>2. PICK item : item = Head(loop[c])
  OBVIOUS
<1>3. item \in Submissions /\ loop[c] # <<>>
  BY <1>1, <1>2, SubmitFacts
<1>4. PICK declared : declared = sess[item.data.clientSession].online
  OBVIOUS
<1>5. Frames(item, declared) \in Seq(FrameType)
  BY <1>3, FramesFacts
<1>6. wire' = [wire EXCEPT ![c] = @ \o Frames(item, declared)] \/ wire' = wire
  BY <1>2, <1>4 DEF Submit
<1>7. wire' \in [Channels -> Seq(FrameType)]
  <2>1. wire[c] \o Frames(item, declared) \in Seq(FrameType)
    BY <1>1, <1>5, ConcatProperties
  <2> QED
    BY <1>1, <1>6, <2>1
<1>8. loop' = [loop EXCEPT ![c] = Tail(@)]
  BY DEF Submit
<1>9. loop' \in [Channels -> Seq(Submissions)]
  BY <1>1, <1>3, <1>8
<1>10. UNCHANGED <<chan, scene, due>>
  BY DEF Submit
<1> QED
  BY <1>1, <1>7, <1>9, <1>10 DEF SceneSideInv

\* The scene's index, on whatever frame comes.
LEMMA SceneIndexType ==
    ASSUME NEW x \in SceneType, NEW c \in Channels, NEW d \in Datas
    PROVE  /\ SceneIndex!Bind(x, c, d) \in SceneType
           /\ SceneIndex!Unbind(x, c, d) \in SceneType
<1>1. /\ x.latest \in [Players -> Datas \cup {SceneIndex!NoData}]
      /\ x.route \in [Players -> Channels \cup {0}] /\ x.byConn \in [Channels -> SUBSET Datas]
      /\ x = [latest |-> x.latest, route |-> x.route, byConn |-> x.byConn]
  BY DEF SceneType
<1>2. d.player \in Players
  BY DEF Datas
<1>3. SceneIndex!Bind(x, c, d) \in SceneType
  <2>1. PICK l : l = [x.latest EXCEPT ![d.player] = d]
    OBVIOUS
  <2>2. PICK o : o = [x.route EXCEPT ![d.player] = c]
    OBVIOUS
  <2>3. PICK b : b = [y \in DOMAIN x.byConn |->
                        LET rest == {z \in x.byConn[y] : z.player # d.player} IN
                        IF y = c THEN rest \cup {d} ELSE rest]
    OBVIOUS
  <2>4. l \in [Players -> Datas \cup {SceneIndex!NoData}] /\ o \in [Players -> Channels \cup {0}]
    BY <1>1, <1>2, <2>1, <2>2
  <2>5. b \in [Channels -> SUBSET Datas]
    BY <1>1, <2>3
  <2>6. SceneIndex!Bind(x, c, d) = [latest |-> l, route |-> o, byConn |-> b]
    BY <2>1, <2>2, <2>3 DEF SceneIndex!Bind
  <2> QED
    BY <2>4, <2>5, <2>6 DEF SceneType
<1>4. SceneIndex!Unbind(x, c, d) \in SceneType
  BY <1>2 DEF SceneIndex!Unbind, SceneType
<1> QED
  BY <1>3, <1>4

LEMMA SceneCloseType ==
    ASSUME NEW x \in SceneType, NEW c \in Channels
    PROVE  SceneIndex!CloseIndex(x, c) \in SceneType
BY DEF SceneIndex!CloseIndex, SceneType

LEMMA SceneReceiveType == ASSUME GatewayInv, NEW c \in Channels, SceneReceive(c) PROVE SceneSideInv'
<1>1. /\ wire \in [Channels -> Seq(FrameType)] /\ scene \in SceneType /\ due \subseteq 1..MaxSeq /\ SceneSideInv
  BY DEF GatewayInv, TypeOK, SceneSideInv
<1>2. PICK m : m = Head(wire[c])
  OBVIOUS
<1>3. wire[c] # <<>> /\ m \in FrameType
  BY <1>1, <1>2 DEF SceneReceive
<1>4. /\ m.kind \in {"online", "offline", "business"} => m.data \in Datas
      /\ m.kind = "business" => m.seq \in 1..MaxSeq
  BY <1>3 DEF FrameType, EOF, Frame
<1>5. wire' = [wire EXCEPT ![c] = Tail(@)]
  BY DEF SceneReceive
<1>6. wire' \in [Channels -> Seq(FrameType)]
  BY <1>1, <1>3, <1>5
<1>7. scene' \in SceneType
  <2>1. \/ m.kind = "eof" /\ scene' = SceneIndex!CloseIndex(scene, c)
        \/ m.kind = "online" /\ scene' = SceneIndex!Bind(scene, c, m.data)
        \/ m.kind = "offline" /\ scene' = SceneIndex!Unbind(scene, c, m.data)
        \/ scene' = scene
    BY <1>2 DEF SceneReceive
  <2> QED
    BY <1>1, <1>4, <2>1, SceneIndexType, SceneCloseType
<1>8. due' \subseteq 1..MaxSeq
  BY <1>1, <1>2, <1>4 DEF SceneReceive
<1>9. UNCHANGED <<chan, loop>>
  BY DEF SceneReceive
<1> QED
  BY <1>1, <1>6, <1>7, <1>8, <1>9 DEF SceneSideInv

LEMMA SceneSideStep == ASSUME GatewayInv, [Next]_vars PROVE SceneSideInv'
<1>1. SceneSideInv /\ TypeOK
  BY DEF GatewayInv, TypeOK, SceneSideInv
<1>2. CASE UNCHANGED backend
  BY <1>1, <1>2 DEF backend, SceneSideInv
<1>3. ASSUME UNCHANGED <<chan, wire, scene, due>>, loop' \in [Channels -> Seq(Submissions)] PROVE SceneSideInv'
  BY <1>1, <1>3 DEF SceneSideInv
<1>4. ASSUME NEW s \in Sessions PROVE /\ sess[s] \in SessionType /\ job[s].copy \in SessionType
                                      /\ sess[s].authed => sess[s].player \in Players /\ sess[s].epoch >= 1
                                      /\ job[s].copy.authed => job[s].copy.player \in Players /\ job[s].copy.epoch >= 1
  BY DEF GatewayInv, TypeOK, Jobs, EpochIsNewest, CopiesValid, CopyValid
<1>5. ASSUME NEW s \in Sessions, ClientStep(s) PROVE SceneSideInv'
  BY <1>2, <1>5 DEF ClientStep, Auth, BindService, Business, Close
<1>6. ASSUME NEW s \in Sessions, HandlerStep(s) PROVE SceneSideInv'
  <2>1. KickRoutes(s) \/ KickClose(s) \/ BindServiceSet(s) => SceneSideInv'
    BY <1>2 DEF KickRoutes, KickClose, BindServiceSet
  <2>2. Unavailable(s) \/ CloseErase(s) \/ CloseRoutes(s) => SceneSideInv'
    BY <1>2 DEF Unavailable, CloseErase, CloseRoutes
  <2>3. (\E c \in Channels : Select(s, c)) \/ BindScene(s) \/ Reread(s) \/ Refuse(s) => SceneSideInv'
    BY <1>2 DEF Select, BindScene, Reread, Refuse
  <2>7. ForwardInvalid(s) => SceneSideInv'
    BY <1>2 DEF ForwardInvalid, AddRoute, backend
  <2>4. ASSUME AuthNotify(s) PROVE SceneSideInv'
    <3>1. UNCHANGED <<chan, wire, scene, due>> /\ (Notify(s, sess[s], "online") \/ loop' = loop)
      BY <2>4 DEF AuthNotify
    <3>2. loop' \in [Channels -> Seq(Submissions)]
      BY <1>1, <1>4, <3>1, NotifyType DEF SceneSideInv
    <3> QED
      BY <1>3, <3>1, <3>2
  <2>5. ASSUME BindServiceNotify(s) PROVE SceneSideInv'
    <3>1. /\ UNCHANGED <<chan, wire, scene, due>>
          /\ Notify(s, job[s].copy, "offline") \/ Notify(s, sess[s], "online") \/ loop' = loop
      BY <2>5 DEF BindServiceNotify
    <3>2. loop' \in [Channels -> Seq(Submissions)]
      BY <1>1, <1>4, <3>1, NotifyType DEF SceneSideInv
    <3> QED
      BY <1>3, <3>1, <3>2
  <2>6. ASSUME CloseNotify(s) PROVE SceneSideInv'
    <3>1. UNCHANGED <<chan, wire, scene, due>> /\ (Notify(s, job[s].copy, "offline") \/ loop' = loop)
      BY <2>6 DEF CloseNotify
    <3>2. loop' \in [Channels -> Seq(Submissions)]
      BY <1>1, <1>4, <3>1, NotifyType DEF SceneSideInv
    <3> QED
      BY <1>3, <3>1, <3>2
  <2> QED
    BY <1>6, <2>1, <2>2, <2>3, <2>4, <2>5, <2>6, <2>7, ForwardType DEF HandlerStep
<1>7. CASE Connect
  BY <1>2, <1>7 DEF Connect
<1>8. ASSUME NEW c \in Channels, ChannelUp(c) PROVE SceneSideInv'
  <2>1. chan' = [chan EXCEPT ![c] = "up"] /\ UNCHANGED <<loop, wire, scene, due>>
    BY <1>8 DEF ChannelUp
  <2> QED
    BY <1>1, <2>1 DEF SceneSideInv
<1>9. ASSUME NEW r \in routes, Respond(r) \/ Expire(r) PROVE SceneSideInv'
  BY <1>2, <1>9 DEF Respond, Expire
<1>10. CASE Quiescent \/ UNCHANGED vars
  BY <1>2, <1>10 DEF Quiescent, vars
<1> QED
  BY <1>5, <1>6, <1>7, <1>8, <1>9, <1>10, ChannelDownType, SubmitType, SceneReceiveType DEF Next

-----------------------------------------------------------------------------
(* The theorems.                                                           *)

-----------------------------------------------------------------------------
(* What a thread has chosen, and what it refuses.                          *)

GoesOn(s, places) == \E at \in places : \E copy, arg, old : Continue(s, at, copy, arg, old)

\* A thread moves only itself: it chooses a channel only in Select and goes to
\* a refusal only in ForwardInvalid.
LEMMA ThreadMoves ==
    ASSUME GatewayInv, NEW s \in Sessions, ClientStep(s) \/ HandlerStep(s)
    PROVE  /\ \A t \in Sessions \ {s} : job'[t] = job[t]
           /\ job'[s].at = "bind" => \E c \in Channels : Select(s, c)
           /\ job'[s].at = "refuse" => ForwardInvalid(s)
           /\ chan' = chan /\ wire' = wire
<1>1. job \in [Sessions -> Jobs] /\ TypeOK
  BY DEF GatewayInv, TypeOK
<1>2. ASSUME NEW at, NEW copy, NEW arg, NEW old, Continue(s, at, copy, arg, old)
      PROVE  job'[s].at = at /\ \A t \in Sessions \ {s} : job'[t] = job[t]
  BY <1>1, <1>2 DEF Continue
<1>3. Done(s) => job'[s].at = "idle" /\ \A t \in Sessions \ {s} : job'[t] = job[t]
  BY <1>1, DoneFacts
<1>4. ASSUME ClientStep(s)
      PROVE  /\ GoesOn(s, {"kick", "notify", "setDst", "select", "forward", "closeNotify"})
             /\ chan' = chan /\ wire' = wire
  <2>1. ASSUME NEW p \in Players, Auth(s, p)
        PROVE  /\ GoesOn(s, {"kick", "notify"})
               /\ chan' = chan /\ wire' = wire
    BY <2>1 DEF Auth, backend, GoesOn
  <2>2. ASSUME NEW service \in Services, BindService(s, service) \/ Business(s, service)
        PROVE  /\ GoesOn(s, {"setDst", "select", "forward"})
               /\ chan' = chan /\ wire' = wire
    BY <2>2 DEF BindService, Business, backend, GoesOn
  <2>3. Close(s) => /\ GoesOn(s, {"closeNotify"})
                    /\ chan' = chan /\ wire' = wire
    BY DEF Close, backend, GoesOn
  <2> QED
    BY <1>4, <2>1, <2>2, <2>3 DEF ClientStep, GoesOn
<1>5. ASSUME HandlerStep(s), ~ForwardInvalid(s), \A c \in Channels : ~Select(s, c)
      PROVE  /\ \/ Done(s)
                \/ GoesOn(s, {"kickClose", "notify", "moved", "reread", "forward", "closeErase", "closeRoutes"})
             /\ chan' = chan /\ wire' = wire
  <2>1. \/ KickRoutes(s) \/ KickClose(s) \/ AuthNotify(s) \/ BindServiceSet(s) \/ BindServiceNotify(s)
        \/ BindScene(s) \/ Reread(s) \/ Unavailable(s) \/ Forward(s) \/ Refuse(s)
        \/ CloseNotify(s) \/ CloseErase(s) \/ CloseRoutes(s)
    BY <1>5 DEF HandlerStep
  <2>2. KickRoutes(s) \/ KickClose(s) => /\ GoesOn(s, {"kickClose", "notify"})
                                        /\ chan' = chan /\ wire' = wire
    BY DEF KickRoutes, KickClose, backend, GoesOn
  <2>3. AuthNotify(s) \/ BindServiceNotify(s) \/ Unavailable(s) \/ Forward(s) \/ Refuse(s) \/ CloseRoutes(s)
          => Done(s) /\ chan' = chan /\ wire' = wire
    BY DEF AuthNotify, BindServiceNotify, Unavailable, Forward, AddRoute, Refuse, CloseRoutes, backend
  <2>4. BindServiceSet(s) \/ BindScene(s) \/ Reread(s)
          => /\ \/ Done(s)
                \/ GoesOn(s, {"moved", "reread", "forward"})
             /\ chan' = chan /\ wire' = wire
    BY DEF BindServiceSet, BindScene, Reread, backend, GoesOn
  <2>5. CloseNotify(s) \/ CloseErase(s) => /\ GoesOn(s, {"closeErase", "closeRoutes"})
                                          /\ chan' = chan /\ wire' = wire
    BY DEF CloseNotify, CloseErase, backend, GoesOn
  <2> QED
    BY <2>1, <2>2, <2>3, <2>4, <2>5 DEF GoesOn
<1>6. CASE ForwardInvalid(s)
  <2>1. chan' = chan /\ wire' = wire
    BY <1>6 DEF ForwardInvalid, AddRoute
  <2> QED
    BY <1>6, <2>1, RefusingFacts
<1>7. ASSUME NEW c \in Channels, Select(s, c)
      PROVE  /\ job'[s].at = "bind" /\ \A t \in Sessions \ {s} : job'[t] = job[t]
             /\ chan' = chan /\ wire' = wire
  BY <1>2, <1>7 DEF Select, backend
<1>8. CASE ClientStep(s)
  BY <1>2, <1>4, <1>8 DEF GoesOn
<1> QED
  BY <1>2, <1>3, <1>5, <1>6, <1>7, <1>8 DEF GoesOn

\* A channel that was registered never becomes new again.
LEMMA ChosenStep == ASSUME GatewayInv, [Next]_vars PROVE ChosenChannels'
<1>1. ChosenChannels /\ chan \in [Channels -> {"new", "up", "down"}] /\ TypeOK
  BY DEF GatewayInv, TypeOK
<1>2. ASSUME job' = job, chan' = chan PROVE ChosenChannels'
  BY <1>1, <1>2 DEF ChosenChannels
<1>3. ASSUME NEW c \in Channels, ChannelUp(c) \/ ChannelDown(c) PROVE ChosenChannels'
  <2>1. job' = job /\ (chan' = [chan EXCEPT ![c] = "up"] \/ chan' = [chan EXCEPT ![c] = "down"])
    BY <1>3 DEF ChannelUp, ChannelDown
  <2>2. \A k \in Channels : chan[k] # "new" => chan'[k] # "new"
    BY <1>1, <2>1
  <2>3. ASSUME NEW s \in Sessions, job'[s].at = "bind"
        PROVE  job'[s].copy.chan # 0 /\ chan'[job'[s].copy.chan] # "new"
    BY <2>1, <2>2, <2>3, ChosenFacts DEF GatewayInv, ChosenChannels
  <2> QED
    BY <2>3 DEF ChosenChannels
<1>4. ASSUME NEW s \in Sessions, ClientStep(s) \/ HandlerStep(s) PROVE ChosenChannels'
  <2>1. /\ \A t \in Sessions \ {s} : job'[t] = job[t]
        /\ job'[s].at = "bind" => \E c \in Channels : Select(s, c)
        /\ chan' = chan
    BY <1>4, ThreadMoves
  <2>2. ASSUME NEW c \in Channels, Select(s, c)
        PROVE  job'[s].copy.chan # 0 /\ chan'[job'[s].copy.chan] # "new"
    <3>1. /\ Continue(s, "bind", [job[s].copy EXCEPT !.chan = c], Scene, 0)
          /\ chan[c] = "up" /\ job \in [Sessions -> Jobs] /\ job[s].copy \in SessionType
      BY <1>1, <2>2 DEF Select, TypeOK, Jobs
    <3>2. job'[s].copy.chan = c
      BY <3>1 DEF Continue, SessionType
    <3> QED
      BY <2>1, <3>1, <3>2, ConstantFacts
  <2>3. ASSUME NEW t \in Sessions, job'[t].at = "bind"
        PROVE  job'[t].copy.chan # 0 /\ chan'[job'[t].copy.chan] # "new"
    BY <1>1, <2>1, <2>2, <2>3 DEF ChosenChannels
  <2> QED
    BY <2>3 DEF ChosenChannels
<1>5. ASSUME NEW c \in Channels, Submit(c) \/ SceneReceive(c) PROVE ChosenChannels'
  BY <1>2, <1>5 DEF Submit, SceneReceive
<1>6. ASSUME NEW r \in routes, Respond(r) \/ Expire(r) PROVE ChosenChannels'
  BY <1>2, <1>6 DEF Respond, Expire, backend
<1>7. CASE Connect \/ Quiescent \/ UNCHANGED vars
  BY <1>2, <1>7 DEF Connect, Quiescent, vars, backend
<1> QED
  BY <1>3, <1>4, <1>5, <1>6, <1>7 DEF Next

\* A submission that joins a loop brings its number, or none.
LEMMA QueueUnderWay ==
    ASSUME TypeOK, NEW c \in Channels, NEW kind, NEW data, NEW seq, Queue(c, kind, data, seq),
           Frame(kind, data, seq) \in Submissions,
           wire' = wire, due' = due, NEW q \in 1..MaxSeq, UnderWay(q)'
    PROVE  UnderWay(q) \/ q = seq
<1>1. PICK l, f : l = loop[c] /\ f = Frame(kind, data, seq)
  OBVIOUS
<1>2. /\ l \in Seq(Submissions) /\ f \in Submissions /\ f.seq = seq
      /\ loop' = [loop EXCEPT ![c] = Append(l, f)] /\ loop \in [Channels -> Seq(Submissions)]
  BY <1>1 DEF TypeOK, Queue, Frame
<1>3. /\ DOMAIN Append(l, f) = 1..(Len(l) + 1) /\ DOMAIN l = 1..Len(l) /\ Len(l) \in Nat
      /\ Append(l, f)[Len(l) + 1] = f /\ \A i \in 1..Len(l) : Append(l, f)[i] = l[i]
  BY <1>2
<1>4. \A k \in Channels : loop'[k] = IF k = c THEN Append(l, f) ELSE loop[k]
  BY <1>2
<1>5. ASSUME NEW k \in Channels, NEW i \in DOMAIN loop'[k], loop'[k][i].seq = q, q # seq
      PROVE  UnderWay(q)
  <2>1. CASE k # c
    BY <1>4, <1>5, <2>1 DEF UnderWay
  <2>2. CASE k = c
    <3>1. i \in DOMAIN l /\ l[i].seq = q
      BY <1>2, <1>3, <1>4, <1>5, <2>2
    <3> QED
      BY <1>1, <3>1 DEF UnderWay
  <2> QED
    BY <2>1, <2>2
<1> QED
  BY <1>5 DEF UnderWay

\* A notification is no request.
LEMMA NotifyUnderWay ==
    ASSUME TypeOK, NEW s \in Sessions, NEW copy \in SessionType, NEW kind \in {"online", "offline"},
           copy.authed => copy.player \in Players /\ copy.epoch >= 1,
           Notify(s, copy, kind), wire' = wire, due' = due, NEW q \in 1..MaxSeq, UnderWay(q)'
    PROVE  UnderWay(q)
<1>1. CASE UNCHANGED loop
  BY <1>1 DEF UnderWay
<1>2. CASE copy.authed /\ copy.chan # 0 /\ Queue(copy.chan, kind, Data(s, copy.player, copy.epoch), 0)
  <2>1. copy.chan \in Channels /\ copy.epoch \in 1..EpochLimit
    BY <1>2, ConstantFacts DEF SessionType
  <2>2. Data(s, copy.player, copy.epoch) \in Datas
    BY <1>2, <2>1 DEF Data, Datas
  <2>3. Frame(kind, Data(s, copy.player, copy.epoch), 0) \in Submissions
    BY <2>2, ConstantFacts DEF Frame, Submissions
  <2>4. UnderWay(q) \/ q = 0
    BY <1>2, <2>1, <2>3, QueueUnderWay
  <2> QED
    BY <2>4
<1> QED
  BY <1>1, <1>2 DEF Notify

LEMMA ForwardUnderWay ==
    ASSUME GatewayInv, NEW s \in Sessions, Forward(s), NEW q \in 1..MaxSeq, UnderWay(q)'
    PROVE  UnderWay(q) \/ q = nextSeq
<1>1. TypeOK /\ CopiesValid /\ job \in [Sessions -> Jobs] /\ wire' = wire
  BY DEF GatewayInv, TypeOK, Forward, AddRoute
<1>2. PICK copy : copy = job[s].copy
  OBVIOUS
<1>3. copy \in SessionType /\ copy.epoch >= 1 /\ job[s].at = "forward"
  BY <1>1, <1>2 DEF Jobs, CopiesValid, CopyValid, Forward, AddRoute
<1>4. copy.epoch \in 1..EpochLimit /\ copy.chan \in Channels \cup {0} /\ nextSeq \in 1..MaxSeq
  BY <1>3, ConstantFacts, ForwardingSeq DEF SessionType
<1>5. CASE job[s].arg = Scene
  <2>1. /\ copy.chan # 0 /\ due' = due /\ copy.player \in Players
        /\ Queue(copy.chan, "online", Data(s, copy.player, copy.epoch), nextSeq)
    BY <1>2, <1>3, <1>5 DEF Forward, AddRoute, CarriesPlayer, SessionType
  <2>2. Data(s, copy.player, copy.epoch) \in Datas
    BY <1>3, <1>4, <2>1 DEF Data, Datas
  <2>3. Frame("online", Data(s, copy.player, copy.epoch), nextSeq) \in Submissions
    BY <1>4, <2>2 DEF Frame, Submissions
  <2> QED
    BY <1>1, <1>4, <2>1, <2>3, QueueUnderWay
<1>6. CASE job[s].arg # Scene
  BY <1>1, <1>6 DEF Forward, UnderWay
<1> QED
  BY <1>5, <1>6

\* What SubmitScene puts on the channel was in the loop.
LEMMA SubmitUnderWay ==
    ASSUME GatewayInv, NEW c \in Channels, Submit(c), NEW q \in 1..MaxSeq
    PROVE  /\ UnderWay(q)' => UnderWay(q)
           /\ Head(loop[c]).seq = q => UnderWay(q)
<1>1. loop \in [Channels -> Seq(Submissions)] /\ wire \in [Channels -> Seq(FrameType)] /\ TypeOK
  BY DEF GatewayInv, TypeOK
<1>2. PICK l, item : l = loop[c] /\ item = Head(loop[c])
  OBVIOUS
<1>3. l \in Seq(Submissions) /\ l # <<>> /\ item \in Submissions
  BY <1>1, <1>2, SubmitFacts
<1>4. PICK f : f = Frames(item, sess[item.data.clientSession].online)
  OBVIOUS
<1>5. f \in Seq(FrameType) /\ \A j \in 1..Len(f) : f[j].seq \in {0, item.seq}
  BY <1>3, <1>4, FramesFacts
<1>6. /\ Len(l) \in Nat /\ 1 \in DOMAIN l /\ l[1] = item
      /\ \A i \in DOMAIN Tail(l) : i + 1 \in DOMAIN l /\ Tail(l)[i] = l[i + 1]
  BY <1>2, <1>3, HeadTailProperties
<1>7. item.seq = q => UnderWay(q)
  BY <1>2, <1>6 DEF UnderWay
<1>8. ASSUME NEW k \in Channels, NEW i \in DOMAIN loop'[k], loop'[k][i].seq = q PROVE UnderWay(q)
  <2>1. loop' = [loop EXCEPT ![c] = Tail(l)]
    BY <1>2 DEF Submit
  <2>2. \E j \in DOMAIN loop[k] : loop[k][j].seq = q
    BY <1>1, <1>2, <1>6, <1>8, <2>1
  <2> QED
    BY <2>2 DEF UnderWay
<1>9. ASSUME NEW k \in Channels, NEW i \in DOMAIN wire'[k], wire'[k][i].seq = q PROVE UnderWay(q)
  <2>1. wire' = wire \/ wire' = [wire EXCEPT ![c] = wire[c] \o f]
    BY <1>1, <1>2, <1>4 DEF Submit
  <2>2. CASE wire'[k] = wire[k]
    BY <1>9, <2>2 DEF UnderWay
  <2>3. CASE wire'[k] = wire[k] \o f
    <3>1. /\ wire[k] \in Seq(FrameType) /\ Len(wire[k] \o f) = Len(wire[k]) + Len(f)
          /\ \A j \in 1..(Len(wire[k]) + Len(f)) :
               (wire[k] \o f)[j] = IF j <= Len(wire[k]) THEN wire[k][j] ELSE f[j - Len(wire[k])]
          /\ wire[k] \o f \in Seq(FrameType)
      BY <1>1, <1>5, ConcatProperties
    <3>2. i \in 1..(Len(wire[k]) + Len(f)) /\ Len(wire[k]) \in Nat /\ Len(f) \in Nat
      BY <1>5, <1>9, <2>3, <3>1
    <3>3. CASE i <= Len(wire[k])
      <4>1. i \in DOMAIN wire[k] /\ wire[k][i].seq = q
        BY <1>9, <2>3, <3>1, <3>2, <3>3
      <4> QED
        BY <4>1 DEF UnderWay
    <3>4. CASE ~(i <= Len(wire[k]))
      <4>1. i - Len(wire[k]) \in 1..Len(f) /\ f[i - Len(wire[k])].seq = q
        BY <1>9, <2>3, <3>1, <3>2, <3>4
      <4>2. item.seq = q
        BY <1>5, <4>1
      <4> QED
        BY <1>7, <4>2
    <3> QED
      BY <3>3, <3>4
  <2>4. wire'[k] = wire[k] \/ wire'[k] = wire[k] \o f
    BY <1>1, <2>1
  <2> QED
    BY <2>2, <2>3, <2>4
<1>10. due' = due
  BY DEF Submit
<1> QED
  BY <1>2, <1>7, <1>8, <1>9, <1>10 DEF UnderWay

\* A request that the scene reads was on the channel.
LEMMA ReceiveUnderWay ==
    ASSUME GatewayInv, NEW c \in Channels, SceneReceive(c), NEW q \in 1..MaxSeq, UnderWay(q)'
    PROVE  UnderWay(q)
<1>1. wire \in [Channels -> Seq(FrameType)]
  BY DEF GatewayInv, TypeOK
<1>2. PICK w : w = wire[c]
  OBVIOUS
<1>3. w \in Seq(FrameType) /\ w # <<>> /\ wire' = [wire EXCEPT ![c] = Tail(w)] /\ loop' = loop
  BY <1>1, <1>2 DEF SceneReceive
<1>4. /\ 1 \in DOMAIN w /\ w[1] = Head(w)
      /\ \A i \in DOMAIN Tail(w) : i + 1 \in DOMAIN w /\ Tail(w)[i] = w[i + 1]
  BY <1>3, HeadTailProperties
<1>5. q \in due' => q \in due \/ q = Head(w).seq
  BY <1>2 DEF SceneReceive
<1>6. ASSUME NEW k \in Channels, NEW i \in DOMAIN wire'[k], wire'[k][i].seq = q
      PROVE  \E j \in DOMAIN wire[k] : wire[k][j].seq = q
  BY <1>1, <1>2, <1>3, <1>4, <1>6
<1> QED
  BY <1>2, <1>3, <1>4, <1>5, <1>6 DEF UnderWay

\* What is cut off when a channel closes goes nowhere.
LEMMA DownUnderWay ==
    ASSUME GatewayInv, NEW c \in Channels, ChannelDown(c), NEW q \in 1..MaxSeq, UnderWay(q)'
    PROVE  UnderWay(q)
<1>1. wire \in [Channels -> Seq(FrameType)]
  BY DEF GatewayInv, TypeOK
<1>2. PICK n \in 0..Len(wire[c]) : wire' = [wire EXCEPT ![c] = Append(SubSeq(@, 1, n), EOF)]
  BY DEF ChannelDown
<1>3. PICK w : w = SubSeq(wire[c], 1, n)
  OBVIOUS
<1>4. /\ w \in Seq(FrameType) /\ Len(w) = n /\ EOF \in FrameType /\ EOF.seq = 0
      /\ \A i \in 1..n : w[i] = wire[c][i] /\ i \in DOMAIN wire[c]
  BY <1>1, <1>3, SubSeqProperties DEF FrameType, EOF, Frame
<1>5. /\ DOMAIN Append(w, EOF) = 1..(n + 1) /\ Append(w, EOF)[n + 1] = EOF
      /\ \A i \in 1..n : Append(w, EOF)[i] = w[i]
  BY <1>4, AppendProperties
<1>6. \A k \in Channels : wire'[k] = IF k = c THEN Append(w, EOF) ELSE wire[k]
  BY <1>1, <1>2, <1>3
<1>7. ASSUME NEW k \in Channels, NEW i \in DOMAIN wire'[k], wire'[k][i].seq = q
      PROVE  i \in DOMAIN wire[k] /\ wire[k][i].seq = q
  <2>1. CASE k # c
    BY <1>6, <1>7, <2>1
  <2>2. CASE k = c
    <3>1. i \in 1..(n + 1) /\ Append(w, EOF)[i].seq = q
      BY <1>5, <1>6, <1>7, <2>2
    <3>2. i # n + 1
      BY <1>4, <1>5, <3>1
    <3>3. i \in 1..n
      BY <3>1, <3>2
    <3> QED
      BY <1>4, <1>5, <2>2, <3>1, <3>3
  <2> QED
    BY <2>1, <2>2
<1>8. loop' = loop /\ due' = due
  BY DEF ChannelDown
<1> QED
  BY <1>7, <1>8 DEF UnderWay

\* Only Forward sends a request on its way, under the number it takes.
LEMMA UnderWayStep ==
    ASSUME GatewayInv, [Next]_vars, NEW q \in 1..MaxSeq, UnderWay(q)'
    PROVE  UnderWay(q) \/ (q = nextSeq /\ \E s \in Sessions : Forward(s))
<1>1. ASSUME UNCHANGED <<loop, wire, due>> PROVE UnderWay(q)
  BY <1>1 DEF UnderWay
<1>2. ASSUME NEW s \in Sessions, ClientStep(s) PROVE UNCHANGED <<loop, wire, due>>
  BY <1>2 DEF ClientStep, Auth, BindService, Business, Close, backend
<1>3. ASSUME NEW s \in Sessions, NEW copy \in SessionType, NEW kind \in {"online", "offline"},
             copy.authed => copy.player \in Players /\ copy.epoch >= 1,
             Notify(s, copy, kind), wire' = wire, due' = due
      PROVE  UnderWay(q)
  BY <1>3, NotifyUnderWay DEF GatewayInv
<1>4. ASSUME NEW s \in Sessions, HandlerStep(s) PROVE UnderWay(q) \/ (q = nextSeq /\ Forward(s))
  <2>1. /\ sess[s] \in SessionType /\ job[s].copy \in SessionType
        /\ sess[s].authed => sess[s].player \in Players /\ sess[s].epoch >= 1
        /\ job[s].copy.authed => job[s].copy.player \in Players /\ job[s].copy.epoch >= 1
    BY DEF GatewayInv, TypeOK, Jobs, EpochIsNewest, CopiesValid, CopyValid
  <2>2. ASSUME AuthNotify(s) \/ BindServiceNotify(s) \/ CloseNotify(s) PROVE UnderWay(q)
    <3>1. /\ wire' = wire /\ due' = due
          /\ \/ UNCHANGED loop
             \/ Notify(s, sess[s], "online")
             \/ Notify(s, job[s].copy, "offline")
      BY <2>2 DEF AuthNotify, BindServiceNotify, CloseNotify
    <3> QED
      BY <1>1, <1>3, <2>1, <3>1
  <2>3. Forward(s) => UnderWay(q) \/ q = nextSeq
    BY ForwardUnderWay
  <2>4. KickRoutes(s) \/ KickClose(s) \/ BindServiceSet(s) \/ BindScene(s) \/ Reread(s)
          => UNCHANGED <<loop, wire, due>>
    BY DEF KickRoutes, KickClose, BindServiceSet, BindScene, Reread, backend
  <2>5. Unavailable(s) \/ ForwardInvalid(s) \/ Refuse(s) \/ CloseErase(s) \/ CloseRoutes(s)
          \/ (\E c \in Channels : Select(s, c))
          => UNCHANGED <<loop, wire, due>>
    BY DEF Unavailable, ForwardInvalid, AddRoute, Refuse, CloseErase, CloseRoutes, Select, backend
  <2> QED
    BY <1>1, <1>4, <2>2, <2>3, <2>4, <2>5 DEF HandlerStep
<1>5. ASSUME NEW c \in Channels, ChannelUp(c) PROVE UnderWay(q)
  BY <1>1, <1>5 DEF ChannelUp
<1>6. ASSUME NEW r \in routes, Respond(r) \/ Expire(r) PROVE UnderWay(q)
  BY <1>1, <1>6 DEF Respond, Expire, backend
<1>7. CASE Connect \/ Quiescent \/ UNCHANGED vars
  BY <1>1, <1>7 DEF Connect, Quiescent, vars, backend
<1> QED
  BY <1>1, <1>2, <1>4, <1>5, <1>6, <1>7, DownUnderWay, SubmitUnderWay, ReceiveUnderWay DEF Next

\* Sequence numbers are never given back, and one goes with every route.
LEMMA NumbersGrow ==
    ASSUME GatewayInv, [Next]_vars
    PROVE  /\ nextSeq' = nextSeq \/ nextSeq' = nextSeq + 1
           /\ \A s \in Sessions : AddRoute(s) => nextSeq' = nextSeq + 1
<1>1. \A s \in Sessions : AddRoute(s) => nextSeq' = nextSeq + 1
  BY DEF AddRoute
<1>2. ASSUME NEW s \in Sessions, ClientStep(s) PROVE nextSeq' = nextSeq
  BY <1>2 DEF ClientStep, Auth, BindService, Business, Close, requests
<1>3. ASSUME NEW s \in Sessions, HandlerStep(s) PROVE nextSeq' = nextSeq \/ AddRoute(s)
  BY <1>3 DEF HandlerStep, KickRoutes, KickClose, AuthNotify, BindServiceSet, BindServiceNotify, Select, BindScene,
              Reread, Unavailable, Forward, ForwardInvalid, Refuse, CloseNotify, CloseErase, CloseRoutes, requests
<1>4. ASSUME NEW c \in Channels, ChannelUp(c) \/ ChannelDown(c) \/ Submit(c) \/ SceneReceive(c) PROVE nextSeq' = nextSeq
  BY <1>4 DEF ChannelUp, ChannelDown, Submit, SceneReceive, Answer, requests
<1>5. ASSUME NEW r \in routes, Respond(r) \/ Expire(r) PROVE nextSeq' = nextSeq
  BY <1>5 DEF Respond, Expire, Answer
<1>6. Connect \/ Quiescent \/ UNCHANGED vars => nextSeq' = nextSeq
  BY DEF Connect, Quiescent, vars, requests
<1> QED
  BY <1>1, <1>2, <1>3, <1>4, <1>5, <1>6 DEF Next

LEMMA NumbersStep == ASSUME GatewayInv, [Next]_vars PROVE NumbersGiven'
<1>1. nextSeq \in Nat /\ NumbersGiven
  BY ConstantFacts DEF GatewayInv, TypeOK
<1>2. \A s \in Sessions : Forward(s) => nextSeq' = nextSeq + 1
  BY NumbersGrow DEF Forward
<1>3. nextSeq' = nextSeq \/ nextSeq' = nextSeq + 1
  BY NumbersGrow
<1>4. ASSUME NEW q \in 1..MaxSeq, UnderWay(q)' PROVE q < nextSeq'
  <2>1. UnderWay(q) \/ (q = nextSeq /\ \E s \in Sessions : Forward(s))
    BY <1>4, UnderWayStep
  <2>2. CASE UnderWay(q)
    BY <1>1, <1>3, <2>2 DEF NumbersGiven
  <2>3. CASE q = nextSeq /\ \E s \in Sessions : Forward(s)
    BY <1>1, <1>2, <2>3
  <2> QED
    BY <2>1, <2>2, <2>3
<1> QED
  BY <1>4 DEF NumbersGiven

\* Nobody else answers a request that is being refused.
LEMMA RefusedAlone ==
    ASSUME GatewayInv, [Next]_vars, NEW t \in Sessions, job[t].at = "refuse", job'[t] = job[t]
    PROVE  asked'[job[t].seq].answers = 0
<1>1. PICK q : q = job[t].seq
  OBVIOUS
<1>2. /\ q \in 1..(nextSeq - 1) /\ asked[q].answers = 0 /\ ~UnderWay(q) /\ TypeOK
      /\ \A s \in Sessions \ {t} : job[s].at = "refuse" => job[s].seq # q
      /\ asked \in Seq(Asked) /\ Len(asked) = nextSeq - 1 /\ routes \subseteq Routes /\ MaxSeq \in Nat
      /\ q \in 1..MaxSeq
  BY <1>1, ConstantFacts DEF GatewayInv, TypeOK, RefusedUnsent
<1>3. CASE asked' = asked
  BY <1>1, <1>2, <1>3
<1>4. ASSUME NEW r \in routes, Answer(r), r.seq # q PROVE asked'[q].answers = 0
  <2>1. asked' = asked \/ asked' = [asked EXCEPT ![r.seq].answers = @ + 1]
    BY <1>4 DEF Answer
  <2> QED
    BY <1>2, <1>4, <2>1
<1>5. ASSUME NEW s \in Sessions, HandlerStep(s) PROVE asked'[q].answers = 0
  <2>1. ASSUME AddRoute(s) PROVE asked'[q].answers = 0
    <3>1. PICK a : asked' = Append(asked, a)
      BY <2>1 DEF AddRoute
    <3> QED
      BY <1>2, <3>1
  <2>2. ASSUME Refuse(s) PROVE asked'[q].answers = 0
    <3>1. job[s].at = "refuse" /\ job'[s].at = "idle"
      BY <1>2, <2>2, DoneFacts DEF Refuse
    <3>2. job[s].seq # q
      BY <1>2, <3>1
    <3>3. asked' = asked \/ asked' = [asked EXCEPT ![job[s].seq].answers = @ + 1]
      BY <2>2 DEF Refuse
    <3> QED
      BY <1>2, <3>2, <3>3
  <2>3. asked' = asked \/ AddRoute(s) \/ Refuse(s)
    BY <1>5 DEF HandlerStep, KickRoutes, KickClose, AuthNotify, BindServiceSet, BindServiceNotify, Select, BindScene,
                Reread, Unavailable, Forward, ForwardInvalid, CloseNotify, CloseErase, CloseRoutes, requests
  <2> QED
    BY <1>2, <2>1, <2>2, <2>3
<1>6. ASSUME NEW s \in Sessions, ClientStep(s) PROVE asked' = asked
  BY <1>6 DEF ClientStep, Auth, BindService, Business, Close, requests
<1>7. ASSUME NEW c \in Channels, Submit(c) PROVE asked'[q].answers = 0
  <2>1. Head(loop[c]).seq # q
    BY <1>2, <1>7, SubmitUnderWay
  <2>2. asked' = asked \/ \E r \in routes : r.seq = Head(loop[c]).seq /\ Answer(r)
    BY <1>7 DEF Submit, requests
  <2> QED
    BY <1>2, <1>4, <2>1, <2>2
<1>8. ASSUME NEW c \in Channels, ChannelUp(c) \/ ChannelDown(c) \/ SceneReceive(c) PROVE asked' = asked
  BY <1>8 DEF ChannelUp, ChannelDown, SceneReceive, requests
<1>9. ASSUME NEW r \in routes, Respond(r) \/ Expire(r) PROVE asked'[q].answers = 0
  <2>1. Respond(r) => r.seq # q
    BY <1>2 DEF Respond, UnderWay
  <2>2. Expire(r) => r.seq # q
    BY <1>1 DEF Expire, BeingRefused
  <2> QED
    BY <1>4, <1>9, <2>1, <2>2 DEF Respond, Expire
<1>10. Connect \/ Quiescent \/ UNCHANGED vars => asked' = asked
  BY DEF Connect, Quiescent, vars, requests
<1> QED
  BY <1>1, <1>3, <1>5, <1>6, <1>7, <1>8, <1>9, <1>10 DEF Next

\* A step after which a thread is in a refusal is its own, or finds it there.
LEMMA RefusalFrom ==
    ASSUME GatewayInv, [Next]_vars, NEW t \in Sessions, job'[t].at = "refuse"
    PROVE  (job[t].at = "refuse" /\ job'[t] = job[t]) \/ ForwardInvalid(t)
<1>1. ASSUME NEW s \in Sessions, ClientStep(s) \/ HandlerStep(s) PROVE job'[t] = job[t] \/ ForwardInvalid(t)
  BY <1>1, ThreadMoves
<1>2. ASSUME NEW c \in Channels, ChannelUp(c) \/ ChannelDown(c) \/ Submit(c) \/ SceneReceive(c) PROVE job' = job
  BY <1>2 DEF ChannelUp, ChannelDown, Submit, SceneReceive
<1>3. ASSUME NEW r \in routes, Respond(r) \/ Expire(r) PROVE job' = job
  BY <1>3 DEF Respond, Expire
<1>4. Connect \/ Quiescent \/ UNCHANGED vars => job' = job
  BY DEF Connect, Quiescent, vars
<1> QED
  BY <1>1, <1>2, <1>3, <1>4 DEF Next

\* A refusal begins with a number that is on no way and that no other has.
LEMMA RefusalBegins ==
    ASSUME GatewayInv, [Next]_vars, NEW t \in Sessions, ForwardInvalid(t)
    PROVE  /\ job'[t].seq = nextSeq /\ nextSeq' = nextSeq + 1
           /\ asked'[nextSeq].answers = 0
           /\ \A q : q = nextSeq => ~UnderWay(q)'
           /\ \A s \in Sessions \ {t} : job'[s] = job[s]
<1>1. /\ nextSeq \in 1..MaxSeq /\ job'[t].seq = nextSeq /\ job'[t].at = "refuse"
      /\ \A s \in Sessions \ {t} : job'[s] = job[s]
  BY RefusingFacts
<1>2. nextSeq' = nextSeq + 1
  BY NumbersGrow DEF ForwardInvalid
<1>3. /\ asked' = Append(asked, [session |-> t, epoch |-> job[t].copy.epoch, answers |-> 0])
      /\ asked \in Seq(Asked) /\ Len(asked) = nextSeq - 1
  BY DEF ForwardInvalid, AddRoute, GatewayInv, TypeOK
<1>4. asked'[nextSeq].answers = 0
  BY <1>1, <1>3
<1>5. UNCHANGED <<loop, wire, due>>
  BY DEF ForwardInvalid, AddRoute
<1>6. ASSUME NEW q, q = nextSeq PROVE ~UnderWay(q)
  BY <1>1, <1>6 DEF GatewayInv, NumbersGiven
<1>7. ASSUME NEW q, q = nextSeq PROVE ~UnderWay(q)'
  BY <1>5, <1>6, <1>7 DEF UnderWay
<1> QED
  BY <1>1, <1>2, <1>4, <1>7

LEMMA RefusedStep == ASSUME GatewayInv, [Next]_vars PROVE RefusedUnsent'
<1>1. nextSeq \in 1..(MaxSeq + 1) /\ RefusedUnsent /\ MaxSeq \in Nat
  BY ConstantFacts DEF GatewayInv, TypeOK
<1>2. nextSeq' = nextSeq \/ nextSeq' = nextSeq + 1
  BY NumbersGrow
<1>3. ASSUME NEW t \in Sessions, job'[t].at = "refuse", NEW q, q = job'[t].seq
      PROVE  /\ q \in 1..(nextSeq' - 1) /\ asked'[q].answers = 0
             /\ ~UnderWay(q)'
             /\ \A s \in Sessions \ {t} : job'[s].at = "refuse" => job'[s].seq # q
  <2>1. CASE ForwardInvalid(t)
    <3>1. /\ q = nextSeq /\ nextSeq' = nextSeq + 1 /\ asked'[q].answers = 0
          /\ ~UnderWay(q)' /\ \A s \in Sessions \ {t} : job'[s] = job[s]
      BY <1>3, <2>1, RefusalBegins
    <3> QED
      BY <1>1, <3>1 DEF RefusedUnsent
  <2>2. CASE job[t].at = "refuse" /\ job'[t] = job[t]
    <3>1. q = job[t].seq
      BY <1>3, <2>2
    <3>2. /\ q \in 1..(nextSeq - 1) /\ q \in 1..MaxSeq /\ q # nextSeq
          /\ \A s \in Sessions \ {t} : job[s].at = "refuse" => job[s].seq # q
      BY <1>1, <2>2, <3>1 DEF RefusedUnsent
    <3>3. ~UnderWay(q)
      BY <1>1, <2>2, <3>1 DEF RefusedUnsent, UnderWay
    <3>4. asked'[q].answers = 0
      BY <2>2, <3>1, RefusedAlone
    <3>5. ~UnderWay(q)'
      BY <3>2, <3>3, UnderWayStep
    <3>6. \A s \in Sessions \ {t} : job'[s].at = "refuse" => job'[s].seq # q
      BY <3>2, RefusalFrom, RefusalBegins
    <3> QED
      BY <1>1, <1>2, <3>2, <3>4, <3>5, <3>6
  <2> QED
    BY <1>3, <2>1, <2>2, RefusalFrom
<1> QED
  BY <1>3 DEF RefusedUnsent, UnderWay

LEMMA InitInv == Init => GatewayInv /\ AnsweredOnce
<1> SUFFICES ASSUME Init PROVE GatewayInv /\ AnsweredOnce
  OBVIOUS
<1>1. /\ sess = [s \in Sessions |-> NoSession] /\ job = [s \in Sessions |-> Idle]
      /\ conn = [s \in Sessions |-> "none"] /\ routes = {} /\ nextSeq = 1 /\ asked = <<>>
      /\ nextSession = 1
  BY DEF Init
<1>2. NoSession.authed = FALSE /\ NoSession.player = 0 /\ Idle.at = "idle" /\ Idle.copy.authed = FALSE
  BY DEF NoSession, Idle
<1>3. scene \in SceneType
  BY DEF Init, SceneIndex!EmptyIndex, SceneType
<1>4. TypeOK
  BY <1>1, <1>3, ConstantFacts DEF TypeOK, Init
<1>5. OneSessionPerPlayer /\ EpochIsNewest /\ PlayerIsAuthed
  BY <1>1, <1>2 DEF OneSessionPerPlayer, EpochIsNewest, PlayerIsAuthed
<1>6. HandlersOpen /\ CopiesValid
  BY <1>1, <1>2 DEF HandlersOpen, CopiesValid, CopyValid, RequestSteps, CloseSteps
<1>7. Waiting = {}
  BY <1>1, <1>2 DEF Waiting
<1>8. RoutesUnanswered /\ RoutesDieWithSession /\ AnsweredOnce
  BY <1>1, <1>7, FS_EmptySet, ConstantFacts DEF RoutesUnanswered, RoutesDieWithSession, AnsweredOnce
<1>9. ChosenChannels /\ NumbersGiven /\ RefusedUnsent
  BY <1>1, <1>2 DEF Init, ChosenChannels, NumbersGiven, UnderWay, RefusedUnsent
<1> QED
  BY <1>4, <1>5, <1>6, <1>8, <1>9 DEF GatewayInv

LEMMA InvStep == GatewayInv /\ AnsweredOnce /\ [Next]_vars => (GatewayInv /\ AnsweredOnce)'
<1> SUFFICES ASSUME GatewayInv, AnsweredOnce, [Next]_vars PROVE (GatewayInv /\ AnsweredOnce)'
  OBVIOUS
<1>1. TableInv' /\ HandlerInv' /\ RequestInv' /\ RoutesDieWithSession' /\ SceneSideInv'
  BY TableStep, HandlerStepInv, RequestStep, RoutesDieStep, SceneSideStep
<1>2. PlayerIsAuthed' /\ ChosenChannels' /\ NumbersGiven' /\ RefusedUnsent'
  BY AuthedStep, ChosenStep, NumbersStep, RefusedStep
<1>3. TypeOK'
  BY <1>1 DEF TypeOK, TableInv, HandlerInv, RequestInv, SceneSideInv
<1> QED
  BY <1>1, <1>2, <1>3 DEF GatewayInv, TableInv, HandlerInv, RequestInv

\* The session table, the routes and the copies of the threads agree at every
\* step (ClientSessionTable::Bind, Erase, SetDstService, the kick of kAuth and
\* OnClientClosed): a player has at most one authenticated session, which the
\* index knows and which has the player's newest epoch, and no route outlives
\* the close of its session.
THEOREM SessionsAgree == Spec => []GatewayInv
<1>1. Spec => [](GatewayInv /\ AnsweredOnce)
  BY InitInv, InvStep, PTL DEF Spec
<1> QED
  BY <1>1, PTL

\* A client gets at most one answer to a request, whichever of the response, a
\* repetition of it, the refusal in SubmitScene and SweepRoutes comes first.
THEOREM OneAnswer == Spec => []AnsweredOnce
<1>1. Spec => [](GatewayInv /\ AnsweredOnce)
  BY InitInv, InvStep, PTL DEF Spec
<1> QED
  BY <1>1, PTL

NewestSent ==
    \A c \in Channels : \A i \in DOMAIN wire'[c] \ DOMAIN wire[c] :
      wire'[c][i].kind \in {"online", "business"} =>
        wire'[c][i].data.epoch = playerEpoch[wire'[c][i].data.player]

\* SubmitScene's re-check under the lock is what makes it so.
LEMMA SubmitNewest == ASSUME GatewayInv, NEW c \in Channels, Submit(c) PROVE NewestSent
<1>1. TypeOK /\ EpochIsNewest /\ wire \in [Channels -> Seq(FrameType)]
  BY DEF GatewayInv, TypeOK
<1>2. PICK item : item = Head(loop[c])
  OBVIOUS
<1>3. item \in Submissions /\ item.data.clientSession \in Sessions
  BY <1>1, <1>2, SubmitFacts
<1>4. PICK f : f = Frames(item, sess[item.data.clientSession].online)
  OBVIOUS
<1>5. /\ f \in Seq(FrameType)
      /\ \A j \in 1..Len(f) : f[j].data = item.data /\ (f[j].kind \in {"online", "business"} => item.kind = "online")
  BY <1>3, <1>4, FramesFacts
<1>6. CASE wire' = wire
  BY <1>6 DEF NewestSent
<1>7. CASE /\ wire' = [wire EXCEPT ![c] = @ \o f]
           /\ item.kind = "offline" \/ Current(item, c)
  <2>1. /\ Len(wire[c] \o f) = Len(wire[c]) + Len(f) /\ wire[c] \o f \in Seq(FrameType)
        /\ \A i \in 1..(Len(wire[c]) + Len(f)) :
             (wire[c] \o f)[i] = IF i <= Len(wire[c]) THEN wire[c][i] ELSE f[i - Len(wire[c])]
    BY <1>1, <1>5, ConcatProperties
  <2>2. item.kind = "online" => item.data.epoch = playerEpoch[item.data.player]
    <3> HAVE item.kind = "online"
    <3>1. Current(item, c)
      BY <1>7
    <3> QED
      BY <1>1, <1>3, <3>1 DEF Current, EpochIsNewest
  <2>3. ASSUME NEW i \in DOMAIN (wire[c] \o f) \ DOMAIN wire[c]
        PROVE  \E j \in 1..Len(f) : (wire[c] \o f)[i] = f[j]
    <3>1. i \in 1..(Len(wire[c]) + Len(f)) /\ i \notin 1..Len(wire[c]) /\ Len(wire[c]) \in Nat /\ Len(f) \in Nat
      BY <1>1, <1>5, <2>1, <2>3
    <3>2. i - Len(wire[c]) \in 1..Len(f) /\ ~(i <= Len(wire[c]))
      BY <3>1
    <3> QED
      BY <2>1, <3>1, <3>2
  <2>4. wire'[c] = wire[c] \o f /\ \A y \in Channels \ {c} : wire'[y] = wire[y]
    BY <1>1, <1>7
  <2>5. ASSUME NEW i \in DOMAIN wire'[c] \ DOMAIN wire[c], wire'[c][i].kind \in {"online", "business"}
        PROVE  wire'[c][i].data.epoch = playerEpoch[wire'[c][i].data.player]
    BY <1>5, <2>2, <2>3, <2>4, <2>5
  <2> QED
    BY <2>4, <2>5 DEF NewestSent
<1> QED
  BY <1>2, <1>4, <1>6, <1>7 DEF Submit

LEMMA NewestStep == ASSUME GatewayInv, [Next]_vars PROVE NewestSent
<1>1. wire \in [Channels -> Seq(FrameType)]
  BY DEF GatewayInv, TypeOK
<1>2. CASE wire' = wire
  BY <1>2 DEF NewestSent
<1>3. ASSUME NEW s \in Sessions, ClientStep(s) PROVE wire' = wire
  BY <1>3 DEF ClientStep, Auth, BindService, Business, Close, backend
<1>4. ASSUME NEW s \in Sessions, HandlerStep(s) PROVE wire' = wire
  BY <1>4, ThreadMoves
<1>5. ASSUME NEW c \in Channels, ChannelDown(c) PROVE NewestSent
  <2>1. PICK n \in 0..Len(wire[c]) : wire' = [wire EXCEPT ![c] = Append(SubSeq(@, 1, n), EOF)]
    BY <1>5 DEF ChannelDown
  <2>2. PICK w : w = SubSeq(wire[c], 1, n)
    OBVIOUS
  <2>3. w \in Seq(FrameType) /\ Len(w) = n /\ EOF \in FrameType
    BY <1>1, <2>2, SubSeqProperties DEF FrameType
  <2>4. /\ Append(w, EOF) \in Seq(FrameType) /\ Len(Append(w, EOF)) = n + 1
        /\ Append(w, EOF)[n + 1] = EOF
    BY <2>3, AppendProperties
  <2>5. wire'[c] = Append(w, EOF) /\ \A y \in Channels \ {c} : wire'[y] = wire[y]
    BY <1>1, <2>1, <2>2
  <2>6. ASSUME NEW i \in DOMAIN wire'[c] \ DOMAIN wire[c] PROVE wire'[c][i] = EOF
    <3>1. i \in 1..(n + 1) /\ i \notin 1..Len(wire[c]) /\ Len(wire[c]) \in Nat
      BY <1>1, <2>4, <2>5, <2>6
    <3>2. i = n + 1
      BY <3>1
    <3> QED
      BY <2>4, <2>5, <3>2
  <2>7. EOF.kind = "eof"
    BY DEF EOF, Frame
  <2> QED
    BY <2>5, <2>6, <2>7 DEF NewestSent
<1>6. ASSUME NEW c \in Channels, SceneReceive(c) PROVE NewestSent
  <2>1. wire[c] # <<>> /\ wire' = [wire EXCEPT ![c] = Tail(@)]
    BY <1>6 DEF SceneReceive
  <2>2. wire'[c] = Tail(wire[c]) /\ \A y \in Channels \ {c} : wire'[y] = wire[y]
    BY <1>1, <2>1
  <2>3. Len(Tail(wire[c])) = Len(wire[c]) - 1 /\ Tail(wire[c]) \in Seq(FrameType) /\ Len(wire[c]) \in Nat
    BY <1>1, <2>1, HeadTailProperties
  <2>4. DOMAIN wire'[c] \subseteq DOMAIN wire[c]
    BY <1>1, <2>2, <2>3
  <2> QED
    BY <2>2, <2>4 DEF NewestSent
<1>7. Connect \/ Quiescent \/ UNCHANGED vars => wire' = wire
  BY DEF Connect, Quiescent, vars, backend
<1>8. ASSUME NEW c \in Channels, ChannelUp(c) PROVE wire' = wire
  BY <1>8 DEF ChannelUp
<1>9. ASSUME NEW r \in routes, Respond(r) \/ Expire(r) PROVE wire' = wire
  BY <1>9 DEF Respond, Expire, backend
<1> QED
  BY <1>2, <1>3, <1>4, <1>5, <1>6, <1>7, <1>8, <1>9, SubmitNewest DEF Next

\* What SubmitScene puts on a channel for a player, OFFLINE apart, belongs to
\* the newest epoch of that player, whatever a replaced session's thread or the
\* event loop still had in hand.
THEOREM OnlyNewestEpoch == Spec => NewestEpochOnly
<1>1. GatewayInv /\ [Next]_vars => [NewestSent]_vars
  BY NewestStep
<1> QED
  BY <1>1, SessionsAgree, PTL DEF Spec, NewestEpochOnly, NewestSent

-----------------------------------------------------------------------------
(* BindingBracketed: on a scene channel the frames of a binding come in    *)
(* order, its ONLINE, its business, its OFFLINE and nothing more.          *)

NoData == SceneIndex!NoData
Chans == Channels \cup {0}
Open == {"open", "closing"}

-----------------------------------------------------------------------------
(* Where the data of a binding can be.                                     *)

\* Session record r is authenticated as the binding d, on channel c (0: none yet).
Has(r, c, d) == r.authed /\ r.player = d.player /\ r.epoch = d.epoch /\ r.chan = c

\* The steps at which a thread can still queue something for its copy.
Carrying == {"setDst", "moved", "forward", "closeNotify"}

\* The session of d, or its thread, can still queue something for d on c.
Holds(c, d) ==
    LET s == d.clientSession IN
    \/ conn[s] \in Open /\ Has(sess[s], c, d)
    \/ job[s].at \in Carrying /\ Has(job[s].copy, c, d)

Held(d) == \E c \in Chans : Holds(c, d)

Queued(c, d) == \E i \in DOMAIN loop[c] : loop[c][i].data = d
Sent(c, d) == \E i \in DOMAIN wire[c] : wire[c][i].data = d

On(c, d) ==
    \/ Holds(c, d)
    \/ c # 0 /\ (Queued(c, d) \/ Sent(c, d) \/ d \in scene.byConn[c])

Known(d) == scene.latest[d.player] = d \/ \E c \in Chans : On(c, d)

\* The session of d is declared on c, as the session table has it.
Shown(c, d) == LET s == d.clientSession IN sess[s].online /\ Has(sess[s], c, d)

\* The scene will know d, or something newer, when it has read channel c.
Declared(c, d) ==
    \/ \E i \in DOMAIN wire[c] : wire[c][i] = Frame("online", d, 0)
    \/ d \in scene.byConn[c]
    \/ scene.latest[d.player].epoch > d.epoch

-----------------------------------------------------------------------------
(* The inductive invariant.                                                *)

\* A binding stays on one channel.
OneCarrier == \A c, k \in Chans : \A d \in Datas : On(c, d) /\ On(k, d) => c = k

\* No epoch is in use before its player has reached it, nor twice.
OneUse ==
    /\ \A d \in Datas : Known(d) => d.epoch <= playerEpoch[d.player]
    /\ \A b, d \in Datas : Known(b) /\ Known(d) /\ b.player = d.player /\ b.epoch = d.epoch => b = d

\* A thread's copy and its session: the service changes only in SetDstService,
\* and with it the epoch.
CopyCurrent ==
    \A s \in Sessions : LET j == job[s] IN
      /\ j.at = "setDst" /\ sess[s].live => j.copy.dst = sess[s].dst
      /\ j.at = "moved" /\ j.arg # j.copy.dst /\ j.copy.authed /\ sess[s].authed =>
           ~(sess[s].player = j.copy.player /\ sess[s].epoch = j.copy.epoch)

\* A session is declared on a channel, and bound to one that was registered.
BoundToChannel ==
    \A s \in Sessions :
      /\ sess[s].online => sess[s].chan # 0
      /\ sess[s].chan # 0 => chan[sess[s].chan] # "new"

\* After an OFFLINE, on the wire or still in the loop, nothing of its binding
\* follows and no thread holds the binding any more.
EndedOnWire ==
    \A c \in Channels : \A d \in Datas : \A i \in DOMAIN wire[c] :
      wire[c][i] = Frame("offline", d, 0) =>
        /\ \A k \in DOMAIN wire[c] : i < k => wire[c][k].data # d
        /\ ~Queued(c, d) /\ ~Held(d)

EndedInLoop ==
    \A c \in Channels : \A d \in Datas : \A i \in DOMAIN loop[c] :
      loop[c][i] = Frame("offline", d, 0) =>
        /\ \A k \in DOMAIN loop[c] : i < k => loop[c][k].data # d
        /\ ~Held(d)

\* The scene's index: what a channel carries is the latest, and routed to it.
IndexAgrees ==
    /\ \A c \in Channels : \A d \in scene.byConn[c] :
         scene.latest[d.player] = d /\ scene.route[d.player] = c
    /\ \A p \in Players : scene.route[p] # 0 => scene.latest[p] \in scene.byConn[scene.route[p]]
    /\ \A p \in Players : scene.latest[p] # NoData => scene.latest[p].player = p

\* A latest binding that no channel carries any more is not on a wire, and is
\* still in hand only for a channel that is gone.
GoneIsGone ==
    \A p \in Players : scene.latest[p] # NoData /\ scene.route[p] = 0 =>
      \A c \in Chans : On(c, scene.latest[p]) =>
        c # 0 /\ chan[c] = "down" /\ ~Sent(c, scene.latest[p])

EofIsLast ==
    \A c \in Channels : \A i \in DOMAIN wire[c] :
      wire[c][i].kind = "eof" => i = Len(wire[c]) /\ chan[c] = "down"

\* What is still to come of a binding that counts as declared is declared.
ShownIsDeclared ==
    \A c \in Channels : \A d \in Datas :
      chan[c] = "up" /\ Shown(c, d) /\ (Holds(c, d) \/ Queued(c, d)) => Declared(c, d)

Ordered ==
    /\ OneCarrier /\ OneUse
    /\ CopyCurrent /\ BoundToChannel
    /\ EndedOnWire /\ EndedInLoop
    /\ IndexAgrees /\ GoneIsGone /\ EofIsLast
    /\ DeclaredFirst /\ ShownIsDeclared

-----------------------------------------------------------------------------
(* Facts about the data.                                                   *)

\* A binding's data are its player, session and epoch.
LEMMA DataFacts ==
    /\ \A d \in Datas : /\ d.player \in Players /\ d.clientSession \in Sessions
                        /\ d.epoch \in 1..EpochLimit /\ d.epoch \in Nat /\ d # NoData
    /\ \A b, d \in Datas : b.player = d.player /\ b.clientSession = d.clientSession
                             /\ b.epoch = d.epoch => b = d
<1>1. \A d \in Datas : /\ d.player \in Players /\ d.clientSession \in Sessions
                       /\ d.epoch \in 1..EpochLimit
  BY DEF Datas
<1>2. \A d \in Datas : d.epoch \in Nat /\ d # NoData
  BY <1>1, ConstantFacts DEF NoData, SceneIndex!NoData
<1>3. ASSUME NEW b \in Datas, NEW d \in Datas, b.player = d.player,
             b.clientSession = d.clientSession, b.epoch = d.epoch
      PROVE  b = d
  BY <1>3 DEF Datas
<1> QED
  BY <1>1, <1>2, <1>3

\* The shapes GatewayInv gives the variables of this proof.
LEMMA OrderTypes ==
    ASSUME GatewayInv
    PROVE  /\ loop \in [Channels -> Seq(Submissions)] /\ wire \in [Channels -> Seq(FrameType)]
           /\ sess \in [Sessions -> SessionType] /\ job \in [Sessions -> Jobs]
           /\ playerEpoch \in [Players -> 0..EpochLimit]
           /\ scene \in SceneType
           /\ scene.latest \in [Players -> Datas \cup {NoData}]
           /\ scene.route \in [Players -> Channels \cup {0}]
           /\ scene.byConn \in [Channels -> SUBSET Datas]
           /\ chan \in [Channels -> {"new", "up", "down"}]
           /\ \A s \in Sessions : job[s].copy \in SessionType
BY DEF GatewayInv, TypeOK, SceneType, NoData, Jobs

\* The order of frames is what BindingBracketed asks for.
LEMMA OrderedIsBracketed == GatewayInv /\ Ordered => BindingBracketed
<1> SUFFICES ASSUME GatewayInv, Ordered PROVE SilentAfterOffline
  BY DEF BindingBracketed, Ordered
<1>1. ASSUME NEW c \in Channels, NEW i \in DOMAIN wire[c], NEW k \in DOMAIN wire[c],
             i < k, wire[c][i].kind = "offline"
      PROVE  wire[c][k].data # wire[c][i].data
  <2>1. wire[c][i] \in FrameType
    BY OrderTypes
  <2>2. PICK f : f = wire[c][i]
    OBVIOUS
  <2>3. f.data \in Datas /\ f = Frame("offline", f.data, 0)
    BY <1>1, <2>1, <2>2 DEF FrameType, Frame, EOF
  <2> QED
    BY <1>1, <2>2, <2>3 DEF Ordered, EndedOnWire
<1>2. ASSUME NEW p \in Players, scene.latest[p] # NoData, scene.route[p] = 0,
             NEW c \in Channels, NEW i \in DOMAIN wire[c]
      PROVE  wire[c][i].data # scene.latest[p]
  BY <1>2, ConstantFacts DEF Ordered, GoneIsGone, On, Sent, Chans
<1> QED
  BY <1>1, <1>2 DEF SilentAfterOffline, NoData

LEMMA InitOrdered == Init => Ordered
<1> SUFFICES ASSUME Init PROVE Ordered
  OBVIOUS
<1>1. /\ sess = [s \in Sessions |-> NoSession] /\ job = [s \in Sessions |-> Idle]
      /\ conn = [s \in Sessions |-> "none"]
      /\ loop = [c \in Channels |-> <<>>] /\ wire = [c \in Channels |-> <<>>]
      /\ scene.latest = [p \in Players |-> NoData] /\ scene.route = [p \in Players |-> 0]
      /\ scene.byConn = [c \in Channels |-> {}]
  BY DEF Init, SceneIndex!EmptyIndex, NoData
<1>2. /\ NoSession.authed = FALSE /\ NoSession.online = FALSE /\ NoSession.chan = 0 /\ Idle.at = "idle"
  BY DEF NoSession, Idle
<1>3. ASSUME NEW d \in Datas, NEW c \in Chans PROVE ~On(c, d)
  BY <1>1, <1>2, DataFacts DEF On, Holds, Has, Carrying, Queued, Sent, Chans, Open
<1>4. ASSUME NEW d \in Datas PROVE ~Known(d)
  BY <1>1, <1>3, DataFacts DEF Known
<1>5. OneCarrier /\ OneUse
  BY <1>3, <1>4 DEF OneCarrier, OneUse
<1>6. CopyCurrent /\ BoundToChannel
  BY <1>1, <1>2 DEF CopyCurrent, BoundToChannel
<1>7. EndedOnWire /\ EndedInLoop /\ EofIsLast /\ DeclaredFirst
  BY <1>1 DEF EndedOnWire, EndedInLoop, EofIsLast, DeclaredFirst
<1>8. IndexAgrees /\ GoneIsGone
  BY <1>1 DEF IndexAgrees, GoneIsGone
<1>9. ShownIsDeclared
  BY <1>1, <1>2, DataFacts DEF ShownIsDeclared, Shown
<1> QED
  BY <1>5, <1>6, <1>7, <1>8, <1>9 DEF Ordered


-----------------------------------------------------------------------------
(* What a step does, as far as the order of frames goes.                   *)

\* No thread or session holds a binding it did not hold ...
Shrinks == \A c \in Chans : \A d \in Datas : Holds(c, d)' => Holds(c, d)

\* ... but d0 on c0.
Adds(c0, d0) == \A c \in Chans : \A d \in Datas : Holds(c, d)' => Holds(c, d) \/ (c = c0 /\ d = d0)

ShownKept == \A c \in Channels : \A d \in Datas : Shown(c, d)' => Shown(c, d)

EpochsRise == \A p \in Players : playerEpoch'[p] >= playerEpoch[p]

NothingNew ==
    /\ \A c \in Chans : \A d \in Datas : On(c, d)' => On(c, d)
    /\ \A d \in Datas : Known(d)' => Known(d)

QuietScene == UNCHANGED <<chan, loop, wire, scene>>

\* The parts of the invariant that are not about a single session.
Bracket ==
    /\ OneCarrier /\ OneUse
    /\ EndedOnWire /\ EndedInLoop
    /\ IndexAgrees /\ GoneIsGone /\ EofIsLast
    /\ DeclaredFirst /\ ShownIsDeclared

\* The epochs of the players are numbers, before a step and after it.
LEMMA EpochsAreNat ==
    ASSUME GatewayInv
    PROVE  \A p \in Players : playerEpoch[p] \in Nat
<1>1. playerEpoch \in [Players -> 0..EpochLimit]
  BY DEF GatewayInv, TypeOK
<1> QED
  BY <1>1, ConstantFacts

LEMMA NextEpochsAreNat ==
    ASSUME GatewayInv'
    PROVE  \A p \in Players : playerEpoch'[p] \in Nat
<1>1. playerEpoch' \in [Players -> 0..EpochLimit]
  BY DEF GatewayInv, TypeOK
<1> QED
  BY <1>1, ConstantFacts

LEMMA CarriersKept ==
    ASSUME Ordered, GatewayInv, GatewayInv', NothingNew, EpochsRise
    PROVE  (OneCarrier /\ OneUse)'
<1>1. OneCarrier'
  BY DEF Ordered, OneCarrier, NothingNew
<1>2. ASSUME NEW d \in Datas, Known(d)' PROVE d.epoch <= playerEpoch'[d.player]
  <2>1. d.player \in Players /\ d.epoch \in Nat /\ Known(d)
    BY <1>2, DataFacts DEF NothingNew
  <2>2. d.epoch <= playerEpoch[d.player] /\ playerEpoch'[d.player] >= playerEpoch[d.player]
    BY <2>1 DEF Ordered, OneUse, EpochsRise
  <2>3. playerEpoch[d.player] \in Nat /\ playerEpoch'[d.player] \in Nat
    BY <2>1, EpochsAreNat, NextEpochsAreNat
  <2> QED
    BY <2>1, <2>2, <2>3
<1>3. OneUse'
  BY <1>2 DEF Ordered, OneUse, NothingNew
<1> QED
  BY <1>1, <1>3

\* A step of the client side alone, after which nobody holds anything new.
LEMMA QuietShrinks ==
    ASSUME Ordered, GatewayInv, GatewayInv', QuietScene, Shrinks, ShownKept, EpochsRise
    PROVE  Bracket'
<1>1. chan' = chan /\ loop' = loop /\ wire' = wire /\ scene' = scene
  BY DEF QuietScene
<1>2. \A c \in Chans : \A d \in Datas : On(c, d)' => On(c, d)
  BY <1>1 DEF On, Queued, Sent, Shrinks
<1>3. NothingNew
  BY <1>1, <1>2 DEF NothingNew, Known
<1>4. (OneCarrier /\ OneUse)'
  BY <1>3, CarriersKept
<1>5. \A d \in Datas : Held(d)' => Held(d)
  BY DEF Held, Shrinks
<1>6. EndedOnWire'
  BY <1>1, <1>5 DEF Ordered, EndedOnWire, Queued
<1>7. EndedInLoop'
  BY <1>1, <1>5 DEF Ordered, EndedInLoop
<1>8. (IndexAgrees /\ EofIsLast /\ DeclaredFirst)'
  BY <1>1 DEF Ordered, IndexAgrees, EofIsLast, DeclaredFirst
<1>9. GoneIsGone'
  <2>1. \A p \in Players : scene.latest[p] # NoData => scene.latest[p] \in Datas
    BY OrderTypes
  <2> QED
    BY <1>1, <1>2, <2>1 DEF Ordered, GoneIsGone, Sent
<1>10. ShownIsDeclared'
  <2> SUFFICES ASSUME NEW c \in Channels, NEW d \in Datas, chan[c] = "up", Shown(c, d)',
                      Holds(c, d)' \/ Queued(c, d)'
               PROVE  Declared(c, d)'
    BY <1>1 DEF ShownIsDeclared
  <2>1. Shown(c, d) /\ (Holds(c, d) \/ Queued(c, d))
    BY <1>1 DEF Shrinks, ShownKept, Queued, Chans
  <2>2. Declared(c, d)
    BY <2>1 DEF Ordered, ShownIsDeclared
  <2> QED
    BY <1>1, <2>2 DEF Declared
<1> QED
  BY <1>4, <1>6, <1>7, <1>8, <1>9, <1>10 DEF Bracket

\* A step of the client side that gives a player its next epoch: what is new
\* was never anywhere.
LEMMA QuietFresh ==
    ASSUME Ordered, GatewayInv, GatewayInv', QuietScene, ShownKept, EpochsRise,
           NEW c0 \in Chans, NEW d0 \in Datas, Adds(c0, d0), ~Shown(c0, d0)',
           d0.epoch > playerEpoch[d0.player], d0.epoch <= playerEpoch'[d0.player]
    PROVE  Bracket'
<1>1. chan' = chan /\ loop' = loop /\ wire' = wire /\ scene' = scene
  BY DEF QuietScene
<1>2. ~Known(d0)
  <2>1. playerEpoch[d0.player] \in Nat
    BY DataFacts, EpochsAreNat
  <2> QED
    BY <2>1, DataFacts DEF Ordered, OneUse
<1>3. /\ \A c \in Chans : ~On(c, d0)
      /\ scene.latest[d0.player] # d0 /\ ~Held(d0)
      /\ \A c \in Channels : ~Queued(c, d0) /\ ~Sent(c, d0)
  BY <1>2, ConstantFacts DEF Known, On, Held, Chans
<1>4. \A c \in Chans : \A d \in Datas : On(c, d)' => On(c, d) \/ (c = c0 /\ d = d0)
  BY <1>1 DEF On, Queued, Sent, Adds
<1>5. \A d \in Datas : d # d0 /\ Known(d)' => Known(d)
  BY <1>1, <1>4 DEF Known
<1>6. OneCarrier'
  <2> SUFFICES ASSUME NEW c \in Chans, NEW k \in Chans, NEW d \in Datas, On(c, d)', On(k, d)'
               PROVE  c = k
    BY DEF OneCarrier
  <2>1. CASE d = d0
    BY <1>3, <1>4, <2>1
  <2>2. CASE d # d0
    BY <1>4, <2>2 DEF Ordered, OneCarrier
  <2> QED
    BY <2>1, <2>2
<1>7. \A d \in Datas : d # d0 /\ Known(d) => d.epoch <= playerEpoch[d.player] /\ d.epoch <= playerEpoch'[d.player]
  <2> SUFFICES ASSUME NEW d \in Datas, Known(d)
               PROVE  d.epoch <= playerEpoch[d.player] /\ d.epoch <= playerEpoch'[d.player]
    OBVIOUS
  <2>1. d.player \in Players /\ d.epoch \in Nat /\ d.epoch <= playerEpoch[d.player]
    BY DataFacts DEF Ordered, OneUse
  <2>2. playerEpoch[d.player] \in Nat /\ playerEpoch'[d.player] \in Nat
    BY <2>1, EpochsAreNat, NextEpochsAreNat
  <2> QED
    BY <2>1, <2>2 DEF EpochsRise
<1>8. \A d \in Datas : d # d0 /\ Known(d)' => ~(d.player = d0.player /\ d.epoch = d0.epoch)
  <2>1. playerEpoch[d0.player] \in Nat
    BY DataFacts, EpochsAreNat
  <2> QED
    BY <1>5, <1>7, <2>1, DataFacts
<1>9. OneUse'
  BY <1>5, <1>7, <1>8 DEF Ordered, OneUse
<1>10. \A d \in Datas : Held(d)' => Held(d) \/ d = d0
  BY DEF Held, Adds
<1>11. EndedOnWire'
  <2> SUFFICES ASSUME NEW c \in Channels, NEW d \in Datas, NEW i \in DOMAIN wire[c],
                      wire[c][i] = Frame("offline", d, 0)
               PROVE  /\ \A k \in DOMAIN wire[c] : i < k => wire[c][k].data # d
                      /\ ~Queued(c, d)' /\ ~Held(d)'
    BY <1>1 DEF EndedOnWire
  <2>1. Sent(c, d)
    BY DEF Sent, Frame
  <2>2. d # d0
    BY <1>3, <2>1
  <2> QED
    BY <1>1, <1>10, <2>2 DEF Ordered, EndedOnWire, Queued
<1>12. EndedInLoop'
  <2> SUFFICES ASSUME NEW c \in Channels, NEW d \in Datas, NEW i \in DOMAIN loop[c],
                      loop[c][i] = Frame("offline", d, 0)
               PROVE  /\ \A k \in DOMAIN loop[c] : i < k => loop[c][k].data # d
                      /\ ~Held(d)'
    BY <1>1 DEF EndedInLoop
  <2>1. Queued(c, d)
    BY DEF Queued, Frame
  <2>2. d # d0
    BY <1>3, <2>1
  <2> QED
    BY <1>1, <1>10, <2>2 DEF Ordered, EndedInLoop
<1>13. (IndexAgrees /\ EofIsLast /\ DeclaredFirst)'
  BY <1>1 DEF Ordered, IndexAgrees, EofIsLast, DeclaredFirst
<1>14. GoneIsGone'
  <2>1. \A p \in Players : scene.latest[p] # NoData => scene.latest[p] \in Datas
    BY OrderTypes
  <2>2. \A p \in Players : scene.latest[p] # d0
    <3>1. \A p \in Players : scene.latest[p] # NoData => scene.latest[p].player = p
      BY DEF Ordered, IndexAgrees
    <3> QED
      BY <1>3, <3>1, DataFacts
  <2> QED
    BY <1>1, <1>4, <2>1, <2>2 DEF Ordered, GoneIsGone, Sent
<1>15. ShownIsDeclared'
  <2> SUFFICES ASSUME NEW c \in Channels, NEW d \in Datas, chan[c] = "up", Shown(c, d)',
                      Holds(c, d)' \/ Queued(c, d)'
               PROVE  Declared(c, d)'
    BY <1>1 DEF ShownIsDeclared
  <2>1. Shown(c, d) /\ (Holds(c, d) \/ Queued(c, d))
    BY <1>1 DEF Adds, ShownKept, Queued, Chans
  <2>2. Declared(c, d)
    BY <2>1 DEF Ordered, ShownIsDeclared
  <2> QED
    BY <1>1, <2>2 DEF Declared
<1> QED
  BY <1>6, <1>9, <1>11, <1>12, <1>13, <1>14, <1>15 DEF Bracket


\* A step of the client side that binds a session to its first channel: what
\* it holds was held for no channel, hence was on none.
LEMMA QuietRebound ==
    ASSUME Ordered, GatewayInv, GatewayInv', QuietScene, ShownKept, EpochsRise,
           NEW c0 \in Channels, NEW d0 \in Datas, Adds(c0, d0), ~Shown(c0, d0)',
           Holds(0, d0), ~Holds(0, d0)'
    PROVE  Bracket'
<1>1. chan' = chan /\ loop' = loop /\ wire' = wire /\ scene' = scene
  BY DEF QuietScene
<1>2. 0 \in Chans /\ c0 \in Chans /\ On(0, d0) /\ ~On(0, d0)' /\ \A c \in Chans : c # 0 => ~On(c, d0)
  BY DEF Ordered, OneCarrier, On, Chans
<1>3. \A c \in Chans : \A d \in Datas : On(c, d)' => On(c, d) \/ (c = c0 /\ d = d0)
  BY <1>1, <1>2 DEF On, Queued, Sent, Adds
<1>4. OneCarrier'
  <2> SUFFICES ASSUME NEW c \in Chans, NEW k \in Chans, NEW d \in Datas, On(c, d)', On(k, d)'
               PROVE  c = k
    BY DEF OneCarrier
  <2>1. CASE d = d0
    BY <1>2, <1>3, <2>1
  <2>2. CASE d # d0
    BY <1>3, <2>2 DEF Ordered, OneCarrier
  <2> QED
    BY <2>1, <2>2
<1>5. \A d \in Datas : Known(d)' => Known(d)
  BY <1>1, <1>2, <1>3 DEF Known
<1>6. ASSUME NEW d \in Datas, Known(d)' PROVE d.epoch <= playerEpoch'[d.player]
  <2>1. d.player \in Players /\ d.epoch \in Nat /\ Known(d)
    BY <1>5, <1>6, DataFacts
  <2>2. d.epoch <= playerEpoch[d.player] /\ playerEpoch'[d.player] >= playerEpoch[d.player]
    BY <2>1 DEF Ordered, OneUse, EpochsRise
  <2>3. playerEpoch[d.player] \in Nat /\ playerEpoch'[d.player] \in Nat
    BY <2>1, EpochsAreNat, NextEpochsAreNat
  <2> QED
    BY <2>1, <2>2, <2>3
<1>7. OneUse'
  BY <1>5, <1>6 DEF Ordered, OneUse
<1>8. \A d \in Datas : Held(d)' => Held(d)
  BY <1>2 DEF Held, Adds
<1>9. (EndedOnWire /\ EndedInLoop)'
  BY <1>1, <1>8 DEF Ordered, EndedOnWire, EndedInLoop, Queued
<1>10. (IndexAgrees /\ EofIsLast /\ DeclaredFirst)'
  BY <1>1 DEF Ordered, IndexAgrees, EofIsLast, DeclaredFirst
<1>11. GoneIsGone'
  <2> SUFFICES ASSUME NEW p \in Players, scene.latest[p] # NoData, scene.route[p] = 0,
                      NEW c \in Chans, On(c, scene.latest[p])'
               PROVE  c # 0 /\ chan[c] = "down" /\ ~Sent(c, scene.latest[p])
    BY <1>1 DEF GoneIsGone, Sent
  <2>1. scene.latest[p] \in Datas
    BY OrderTypes
  <2>2. scene.latest[p] # d0
    BY <1>2 DEF Ordered, GoneIsGone
  <2>3. On(c, scene.latest[p])
    BY <1>1, <1>3, <2>1, <2>2
  <2> QED
    BY <2>3 DEF Ordered, GoneIsGone
<1>12. ShownIsDeclared'
  <2> SUFFICES ASSUME NEW c \in Channels, NEW d \in Datas, chan[c] = "up", Shown(c, d)',
                      Holds(c, d)' \/ Queued(c, d)'
               PROVE  Declared(c, d)'
    BY <1>1 DEF ShownIsDeclared
  <2>1. Shown(c, d) /\ (Holds(c, d) \/ Queued(c, d))
    BY <1>1 DEF Adds, ShownKept, Queued, Chans
  <2>2. Declared(c, d)
    BY <2>1 DEF Ordered, ShownIsDeclared
  <2> QED
    BY <1>1, <2>2 DEF Declared
<1> QED
  BY <1>4, <1>7, <1>9, <1>10, <1>11, <1>12 DEF Bracket

\* A thread hands a submission for d to the loop of c, and an OFFLINE is the
\* last it holds of d.
Hands(c, kind, d, seq) ==
    /\ Queue(c, kind, d, seq)
    /\ Frame(kind, d, seq) \in Submissions
    /\ UNCHANGED <<chan, wire, scene, sess, playerEpoch>>
    /\ Shrinks /\ chan[c] = "up" /\ Holds(c, d)
    /\ kind = "offline" => ~Held(d)'

LEMMA HandsOrdered ==
    ASSUME Ordered, GatewayInv, GatewayInv', NEW c0 \in Channels, NEW d0 \in Datas,
           NEW kind, NEW seq, Hands(c0, kind, d0, seq)
    PROVE  Bracket'
<1>1. /\ chan' = chan /\ wire' = wire /\ scene' = scene /\ sess' = sess /\ playerEpoch' = playerEpoch
      /\ Shrinks /\ chan[c0] = "up" /\ Holds(c0, d0) /\ (kind = "offline" => ~Held(d0)')
      /\ c0 \in Chans
  BY DEF Hands, Chans
<1>2. PICK f \in Submissions : /\ f = Frame(kind, d0, seq) /\ f.data = d0 /\ f.kind = kind
                               /\ loop' = [loop EXCEPT ![c0] = Append(@, f)]
  BY DEF Hands, Queue, Frame
<1>3. loop \in [Channels -> Seq(Submissions)]
  BY OrderTypes
<1>4. /\ \A c \in Channels : c # c0 => loop'[c] = loop[c]
      /\ DOMAIN loop'[c0] = 1..(Len(loop[c0]) + 1) /\ DOMAIN loop[c0] = 1..Len(loop[c0])
      /\ Len(loop[c0]) \in Nat
      /\ \A i \in DOMAIN loop[c0] : loop'[c0][i] = loop[c0][i]
      /\ loop'[c0][Len(loop[c0]) + 1] = f
  BY <1>2, <1>3
<1>5. \A c \in Channels : \A d \in Datas : Queued(c, d)' => Queued(c, d) \/ (c = c0 /\ d = d0)
  BY <1>2, <1>4 DEF Queued
<1>6. \A c \in Chans : \A d \in Datas : On(c, d)' => On(c, d)
  BY <1>1, <1>5 DEF On, Sent, Shrinks, Chans
<1>7. NothingNew
  BY <1>1, <1>6 DEF NothingNew, Known
<1>8. (OneCarrier /\ OneUse)'
  <2>1. EpochsRise
    BY <1>1, ConstantFacts DEF EpochsRise, GatewayInv, TypeOK
  <2> QED
    BY <1>7, <2>1, CarriersKept
<1>9. \A d \in Datas : Held(d)' => Held(d)
  BY <1>1 DEF Held, Shrinks
<1>10. Held(d0) /\ On(c0, d0)
  BY <1>1 DEF Held, On
<1>11. EndedOnWire'
  BY <1>1, <1>5, <1>9, <1>10 DEF Ordered, EndedOnWire
<1>12. EndedInLoop'
  <2> SUFFICES ASSUME NEW c \in Channels, NEW d \in Datas, NEW i \in DOMAIN loop'[c],
                      loop'[c][i] = Frame("offline", d, 0)
               PROVE  /\ \A k \in DOMAIN loop'[c] : i < k => loop'[c][k].data # d
                      /\ ~Held(d)'
    BY DEF EndedInLoop
  <2>1. CASE c # c0
    BY <1>4, <1>9, <2>1 DEF Ordered, EndedInLoop
  <2>2. CASE c = c0 /\ i \in DOMAIN loop[c0]
    <3>1. /\ \A k \in DOMAIN loop[c0] : i < k => loop[c0][k].data # d
          /\ ~Held(d)
      BY <1>4, <2>2 DEF Ordered, EndedInLoop
    <3>2. d # d0
      BY <1>10, <3>1
    <3> QED
      BY <1>2, <1>4, <1>9, <2>2, <3>1, <3>2
  <2>3. CASE c = c0 /\ i = Len(loop[c0]) + 1
    <3>1. d = d0 /\ kind = "offline"
      BY <1>2, <1>4, <2>3 DEF Frame
    <3> QED
      BY <1>1, <1>4, <2>3, <3>1
  <2> QED
    BY <1>4, <2>1, <2>2, <2>3
<1>13. (IndexAgrees /\ EofIsLast /\ DeclaredFirst)'
  BY <1>1 DEF Ordered, IndexAgrees, EofIsLast, DeclaredFirst
<1>14. GoneIsGone'
  <2>1. \A p \in Players : scene.latest[p] # NoData => scene.latest[p] \in Datas
    BY OrderTypes
  <2> QED
    BY <1>1, <1>6, <2>1 DEF Ordered, GoneIsGone, Sent
<1>15. ShownIsDeclared'
  <2> SUFFICES ASSUME NEW c \in Channels, NEW d \in Datas, chan[c] = "up", Shown(c, d)',
                      Holds(c, d)' \/ Queued(c, d)'
               PROVE  Declared(c, d)'
    BY <1>1 DEF ShownIsDeclared
  <2>1. Shown(c, d) /\ (Holds(c, d) \/ Queued(c, d))
    BY <1>1, <1>5 DEF Shrinks, Shown, Chans
  <2>2. Declared(c, d)
    BY <1>1, <2>1 DEF Ordered, ShownIsDeclared
  <2> QED
    BY <1>1, <2>2 DEF Declared
<1> QED
  BY <1>8, <1>11, <1>12, <1>13, <1>14, <1>15 DEF Bracket


\* A step that leaves sessions and threads alone, but for a session that
\* becomes declared, leaves what they hold.
LEMMA HoldsKept ==
    ASSUME conn' = conn, job' = job,
           \A s \in Sessions : /\ sess'[s].authed <=> sess[s].authed
                               /\ sess'[s].player = sess[s].player /\ sess'[s].epoch = sess[s].epoch
                               /\ sess'[s].chan = sess[s].chan
    PROVE  \A d \in Datas : /\ \A c \in Chans : Holds(c, d)' <=> Holds(c, d)
                            /\ Held(d)' <=> Held(d)
<1>1. \A d \in Datas : d.clientSession \in Sessions
  BY DataFacts
<1>2. \A d \in Datas : \A c \in Chans : Holds(c, d)' <=> Holds(c, d)
  BY <1>1 DEF Holds, Has
<1> QED
  BY <1>2 DEF Held

LEMMA EpochsStay == ASSUME GatewayInv, playerEpoch' = playerEpoch PROVE EpochsRise
BY ConstantFacts DEF EpochsRise, GatewayInv, TypeOK

\* A channel is registered: no session was bound to it.
LEMMA ChannelUpOrdered ==
    ASSUME Ordered, GatewayInv, GatewayInv', NEW c0 \in Channels, ChannelUp(c0)
    PROVE  Bracket'
<1>1. /\ chan[c0] = "new" /\ chan' = [chan EXCEPT ![c0] = "up"]
      /\ loop' = loop /\ wire' = wire /\ scene' = scene /\ conn' = conn /\ job' = job /\ sess' = sess
      /\ playerEpoch' = playerEpoch
  BY DEF ChannelUp, table
<1>2. \A d \in Datas : /\ \A c \in Chans : Holds(c, d)' <=> Holds(c, d)
                       /\ Held(d)' <=> Held(d)
  BY <1>1, HoldsKept
<1>3. \A c \in Chans : \A d \in Datas : On(c, d)' => On(c, d)
  BY <1>1, <1>2 DEF On, Queued, Sent
<1>4. NothingNew
  BY <1>1, <1>3 DEF NothingNew, Known
<1>5. (OneCarrier /\ OneUse)'
  BY <1>1, <1>4, EpochsStay, CarriersKept
<1>6. (EndedOnWire /\ EndedInLoop)'
  BY <1>1, <1>2 DEF Ordered, EndedOnWire, EndedInLoop, Queued
<1>7. \A c \in Channels : /\ chan[c] = "down" => chan'[c] = "down"
                          /\ chan'[c] = "up" => chan[c] = "up" \/ c = c0
  BY <1>1, OrderTypes
<1>8. (IndexAgrees /\ EofIsLast /\ DeclaredFirst)'
  BY <1>1, <1>7 DEF Ordered, IndexAgrees, EofIsLast, DeclaredFirst
<1>9. GoneIsGone'
  <2>1. \A p \in Players : scene.latest[p] # NoData => scene.latest[p] \in Datas
    BY OrderTypes
  <2> QED
    BY <1>1, <1>3, <1>7, <2>1 DEF Ordered, GoneIsGone, Sent, Chans
<1>10. ShownIsDeclared'
  <2> SUFFICES ASSUME NEW c \in Channels, NEW d \in Datas, chan'[c] = "up", Shown(c, d)',
                      Holds(c, d)' \/ Queued(c, d)'
               PROVE  Declared(c, d)'
    BY DEF ShownIsDeclared
  <2>1. Shown(c, d) /\ (Holds(c, d) \/ Queued(c, d))
    BY <1>1, <1>2 DEF Shown, Queued, Chans
  <2>2. c # c0
    BY <1>1, <2>1, DataFacts, ConstantFacts DEF Ordered, BoundToChannel, Shown, Has
  <2>3. Declared(c, d)
    BY <1>7, <2>1, <2>2 DEF Ordered, ShownIsDeclared
  <2> QED
    BY <1>1, <2>3 DEF Declared
<1> QED
  BY <1>5, <1>6, <1>8, <1>9, <1>10 DEF Bracket

\* A channel goes, with the end of what was on the wire.
LEMMA ChannelDownOrdered ==
    ASSUME Ordered, GatewayInv, GatewayInv', NEW c0 \in Channels, ChannelDown(c0)
    PROVE  Bracket'
<1>1. /\ chan[c0] = "up" /\ chan' = [chan EXCEPT ![c0] = "down"]
      /\ loop' = loop /\ scene' = scene /\ conn' = conn /\ job' = job /\ sess' = sess
      /\ playerEpoch' = playerEpoch
  BY DEF ChannelDown, table
<1>2. PICK n \in 0..Len(wire[c0]) : wire' = [wire EXCEPT ![c0] = Append(SubSeq(@, 1, n), EOF)]
  BY DEF ChannelDown
<1>3. wire \in [Channels -> Seq(FrameType)] /\ chan \in [Channels -> {"new", "up", "down"}]
  BY OrderTypes
<1>4. PICK e \in FrameType : e = EOF
  BY DEF FrameType
<1>5. e.kind = "eof" /\ e.data = NoData
  BY <1>4 DEF EOF, Frame, NoData
<1>6. /\ Len(wire[c0]) \in Nat /\ DOMAIN wire[c0] = 1..Len(wire[c0])
      /\ SubSeq(wire[c0], 1, n) \in Seq(FrameType) /\ Len(SubSeq(wire[c0], 1, n)) = n
      /\ \A i \in 1..n : SubSeq(wire[c0], 1, n)[i] = wire[c0][i]
  BY <1>3, SubSeqProperties
<1>7. /\ \A c \in Channels : c # c0 => wire'[c] = wire[c]
      /\ Len(wire'[c0]) = n + 1 /\ DOMAIN wire'[c0] = 1..(n + 1)
      /\ \A i \in 1..n : wire'[c0][i] = wire[c0][i] /\ i \in DOMAIN wire[c0]
      /\ wire'[c0][n + 1] = e
  BY <1>2, <1>3, <1>4, <1>6
<1>8. \A c \in Channels : \A d \in Datas : Sent(c, d)' => Sent(c, d)
  BY <1>2, <1>5, <1>7, DataFacts DEF Sent
<1>9. \A d \in Datas : /\ \A c \in Chans : Holds(c, d)' <=> Holds(c, d)
                       /\ Held(d)' <=> Held(d)
  BY <1>1, HoldsKept
<1>10. \A c \in Chans : \A d \in Datas : On(c, d)' => On(c, d)
  BY <1>1, <1>8, <1>9 DEF On, Queued, Chans
<1>11. NothingNew
  BY <1>1, <1>10 DEF NothingNew, Known
<1>12. (OneCarrier /\ OneUse)'
  BY <1>1, <1>11, EpochsStay, CarriersKept
<1>13. EndedOnWire'
  <2> SUFFICES ASSUME NEW c \in Channels, NEW d \in Datas, NEW i \in DOMAIN wire'[c],
                      wire'[c][i] = Frame("offline", d, 0)
               PROVE  /\ \A k \in DOMAIN wire'[c] : i < k => wire'[c][k].data # d
                      /\ ~Queued(c, d)' /\ ~Held(d)'
    BY DEF EndedOnWire
  <2>1. ~Queued(c, d)' <=> ~Queued(c, d)
    BY <1>1 DEF Queued
  <2>2. CASE c # c0
    BY <1>7, <1>9, <2>1, <2>2 DEF Ordered, EndedOnWire
  <2>3. CASE c = c0
    <3>1. i \in 1..n
      BY <1>2, <1>5, <1>7, <2>3 DEF Frame
    <3>2. /\ \A k \in DOMAIN wire[c] : i < k => wire[c][k].data # d
          /\ ~Queued(c, d) /\ ~Held(d)
      BY <1>7, <2>3, <3>1 DEF Ordered, EndedOnWire
    <3> QED
      BY <1>2, <1>5, <1>7, <1>9, <2>1, <2>3, <3>2, DataFacts
  <2> QED
    BY <2>2, <2>3
<1>14. EndedInLoop'
  BY <1>1, <1>9 DEF Ordered, EndedInLoop
<1>15. IndexAgrees'
  BY <1>1 DEF Ordered, IndexAgrees
<1>16. EofIsLast'
  <2>1. \A i \in DOMAIN wire[c0] : wire[c0][i].kind # "eof"
    BY <1>1 DEF Ordered, EofIsLast
  <2> QED
    BY <1>1, <1>2, <1>3, <1>7, <2>1 DEF Ordered, EofIsLast
<1>17. DeclaredFirst'
  <2> SUFFICES ASSUME NEW c \in Channels, NEW i \in DOMAIN wire'[c], wire'[c][i].kind = "business"
               PROVE  LET d == wire'[c][i].data IN
                      \/ \E k \in 1..(i - 1) : wire'[c][k] = Frame("online", d, 0)
                      \/ SceneIndex!Matches(scene', c, d)
                      \/ scene'.latest[d.player].epoch > d.epoch
    BY DEF DeclaredFirst
  <2>1. CASE c # c0
    BY <1>1, <1>7, <2>1 DEF Ordered, DeclaredFirst
  <2>2. CASE c = c0
    <3>1. i \in 1..n
      BY <1>2, <1>5, <1>7, <2>2
    <3>2. i \in DOMAIN wire[c] /\ wire'[c][i] = wire[c][i] /\ \A k \in 1..(i - 1) : wire'[c][k] = wire[c][k]
      BY <1>2, <1>7, <2>2, <3>1
    <3> QED
      BY <1>1, <3>2 DEF Ordered, DeclaredFirst
  <2> QED
    BY <2>1, <2>2
<1>18. GoneIsGone'
  <2>1. \A p \in Players : scene.latest[p] # NoData => scene.latest[p] \in Datas
    BY OrderTypes
  <2>2. \A c \in Channels : chan[c] = "down" => chan'[c] = "down"
    BY <1>1, <1>3
  <2> QED
    BY <1>1, <1>8, <1>10, <2>1, <2>2 DEF Ordered, GoneIsGone, Chans
<1>19. ShownIsDeclared'
  <2> SUFFICES ASSUME NEW c \in Channels, NEW d \in Datas, chan'[c] = "up", Shown(c, d)',
                      Holds(c, d)' \/ Queued(c, d)'
               PROVE  Declared(c, d)'
    BY DEF ShownIsDeclared
  <2>1. c # c0 /\ chan[c] = "up" /\ wire'[c] = wire[c]
    BY <1>1, <1>3, <1>7
  <2>2. Shown(c, d) /\ (Holds(c, d) \/ Queued(c, d))
    BY <1>1, <1>9 DEF Shown, Queued, Chans
  <2>3. Declared(c, d)
    BY <2>1, <2>2 DEF Ordered, ShownIsDeclared
  <2> QED
    BY <1>1, <2>1, <2>3 DEF Declared
<1> QED
  BY <1>12, <1>13, <1>14, <1>15, <1>16, <1>17, <1>18, <1>19 DEF Bracket


\* The rest of a queue.
LEMMA TailFacts ==
    ASSUME NEW S, NEW q \in Seq(S), q # <<>>
    PROVE  /\ Len(q) \in Nat /\ Len(q) >= 1 /\ DOMAIN q = 1..Len(q) /\ Head(q) = q[1]
           /\ Len(Tail(q)) = Len(q) - 1 /\ DOMAIN Tail(q) = 1..(Len(q) - 1)
           /\ \A i \in 1..(Len(q) - 1) : Tail(q)[i] = q[i + 1] /\ i + 1 \in DOMAIN q
OBVIOUS

\* The frames of a submission: its OFFLINE alone, or business behind an ONLINE
\* unless the session is declared.
LEMMA FramesOrder ==
    ASSUME NEW item \in Submissions, NEW declared \in BOOLEAN
    PROVE  LET f == Frames(item, declared) IN
           /\ f \in Seq(FrameType)
           /\ \A j \in 1..Len(f) : f[j].data = item.data /\ f[j].kind # "eof"
           /\ item.kind = "offline" => f = <<Frame("offline", item.data, 0)>>
           /\ item.kind = "online" => \A j \in 1..Len(f) : f[j].kind # "offline"
           /\ item.kind = "online" /\ ~declared =>
                /\ Len(f) >= 1 /\ f[1] = Frame("online", item.data, 0)
                /\ \A j \in 1..Len(f) : f[j].kind = "business" => j > 1
<1>1. /\ item.kind \in {"online", "offline"} /\ item.data \in Datas /\ item.seq \in 0..MaxSeq
      /\ item.kind = "offline" => item.seq = 0
  BY ConstantFacts DEF Submissions
<1>2. PICK a : a = Frame(item.kind, item.data, 0)
  OBVIOUS
<1>3. PICK b : b = Frame("business", item.data, item.seq)
  OBVIOUS
<1>4. a \in FrameType /\ a.kind = item.kind /\ a.data = item.data
  BY <1>1, <1>2, ConstantFacts DEF Frame, FrameType
<1>5. b.kind = "business" /\ b.data = item.data /\ (item.seq # 0 => b \in FrameType)
  BY <1>1, <1>3 DEF Frame, FrameType
<1>6. PICK x \in Seq(FrameType) : x = <<a>> /\ Len(x) = 1 /\ x[1] = a
  <2>1. <<a>> \in Seq(FrameType) /\ Len(<<a>>) = 1 /\ <<a>>[1] = a
    BY <1>4
  <2> QED
    BY <2>1
<1>7. PICK z \in Seq(FrameType) : z = <<>> /\ Len(z) = 0
  <2>1. <<>> \in Seq(FrameType) /\ Len(<<>>) = 0
    OBVIOUS
  <2> QED
    BY <2>1
<1>8. x \o z = x /\ z \o z = z
  BY <1>6, <1>7, ConcatEmptySeq
<1>9. CASE item.kind = "offline"
  <2>1. Frames(item, declared) = x
    BY <1>1, <1>2, <1>6, <1>7, <1>8, <1>9 DEF Frames
  <2>2. \A j \in 1..Len(x) : x[j] = a
    BY <1>6
  <2> QED
    BY <1>2, <1>4, <1>6, <1>9, <2>1, <2>2
<1>10. CASE item.kind = "online" /\ item.seq = 0
  <2>1. Frames(item, declared) = IF declared THEN z ELSE x
    BY <1>2, <1>6, <1>7, <1>8, <1>10 DEF Frames
  <2>2. (\A j \in 1..Len(x) : x[j] = a) /\ (\A j \in 1..Len(z) : FALSE)
    BY <1>6, <1>7
  <2> QED
    BY <1>2, <1>4, <1>6, <1>7, <1>10, <2>1, <2>2
<1>11. CASE item.kind = "online" /\ item.seq # 0
  <2>1. PICK y \in Seq(FrameType) : y = <<b>> /\ Len(y) = 1 /\ y[1] = b
    <3>1. <<b>> \in Seq(FrameType) /\ Len(<<b>>) = 1 /\ <<b>>[1] = b
      BY <1>5, <1>11
    <3> QED
      BY <3>1
  <2>2. Frames(item, declared) = IF declared THEN z \o y ELSE x \o y
    <3>1. PICK u : u = IF declared THEN z ELSE x
      OBVIOUS
    <3>2. u = IF item.kind = "offline" \/ ~declared THEN <<Frame(item.kind, item.data, 0)>> ELSE <<>>
      BY <1>2, <1>6, <1>7, <1>11, <3>1
    <3>3. Frames(item, declared) = u \o y
      BY <1>3, <1>11, <2>1, <3>2 DEF Frames
    <3> QED
      BY <3>1, <3>3
  <2>3. z \o y = y /\ \A j \in 1..Len(y) : y[j] = b
    BY <1>7, <2>1, ConcatEmptySeq
  <2>4. /\ x \o y \in Seq(FrameType) /\ Len(x \o y) = 2
        /\ \A j \in 1..2 : (x \o y)[j] = IF j <= 1 THEN a ELSE b
    BY <1>6, <2>1, ConcatProperties
  <2> QED
    BY <1>2, <1>4, <1>5, <1>11, <2>1, <2>2, <2>3, <2>4
<1> QED
  BY <1>1, <1>9, <1>10, <1>11

\* What SubmitScene does with the first submission of a loop.
Submits(c, item, declared, f) ==
    /\ loop[c] # <<>> /\ item = loop[c][1] /\ item \in Submissions
    /\ loop' = [loop EXCEPT ![c] = Tail(@)]
    /\ UNCHANGED <<chan, scene, conn, job, playerEpoch>>
    /\ declared = sess[item.data.clientSession].online
    /\ \/ f = <<>> /\ sess' = sess /\ ~(chan[c] = "up" /\ item.kind = "offline")
       \/ /\ chan[c] = "up" /\ item.kind = "offline"
          /\ f = Frames(item, declared) /\ sess' = sess
       \/ /\ chan[c] = "up" /\ item.kind = "online" /\ Has(sess[item.data.clientSession], c, item.data)
          /\ f = Frames(item, declared)
          /\ sess' = [sess EXCEPT ![item.data.clientSession].online = TRUE]
    /\ wire' = [wire EXCEPT ![c] = @ \o f]

LEMMA SubmitSubmits ==
    ASSUME GatewayInv, NEW c \in Channels, Submit(c)
    PROVE  \E item \in Submissions : \E declared \in BOOLEAN : \E f \in Seq(FrameType) :
             Submits(c, item, declared, f)
<1>1. /\ loop \in [Channels -> Seq(Submissions)] /\ wire \in [Channels -> Seq(FrameType)]
      /\ sess \in [Sessions -> SessionType]
  BY OrderTypes
<1>2. PICK item : item = Head(loop[c])
  OBVIOUS
<1>3. loop[c] # <<>> /\ item \in Submissions /\ item.data.clientSession \in Sessions /\ item = loop[c][1]
  BY <1>1, <1>2, SubmitFacts, TailFacts DEF GatewayInv
<1>4. PICK s \in Sessions : s = item.data.clientSession
  BY <1>3
<1>5. PICK declared \in BOOLEAN : declared = sess[s].online
  BY <1>1 DEF SessionType
<1>6. PICK accepted \in BOOLEAN :
         accepted = (chan[c] = "up" /\ (item.kind = "offline" \/ Current(item, c)))
  OBVIOUS
<1>7. /\ loop' = [loop EXCEPT ![c] = Tail(@)]
      /\ UNCHANGED <<chan, scene, conn, job, playerEpoch>>
      /\ wire' = IF accepted THEN [wire EXCEPT ![c] = @ \o Frames(item, declared)] ELSE wire
      /\ sess' = IF accepted /\ item.kind = "online" THEN [sess EXCEPT ![s].online = TRUE] ELSE sess
  BY <1>2, <1>4, <1>5, <1>6 DEF Submit
<1>8. item.kind \in {"online", "offline"}
  BY <1>3 DEF Submissions
<1>9. CASE ~accepted
  <2>1. wire[c] \o <<>> = wire[c]
    BY <1>1
  <2>2. wire' = [wire EXCEPT ![c] = @ \o <<>>]
    BY <1>1, <1>7, <1>9, <2>1
  <2>3. Submits(c, item, declared, <<>>)
    BY <1>3, <1>4, <1>5, <1>6, <1>7, <1>9, <2>2 DEF Submits
  <2>4. <<>> \in Seq(FrameType)
    OBVIOUS
  <2> QED
    BY <1>3, <2>3, <2>4
<1>10. CASE accepted
  <2>1. PICK f \in Seq(FrameType) : f = Frames(item, declared)
    BY <1>3, FramesOrder
  <2>2. item.kind = "online" => Has(sess[s], c, item.data)
    BY <1>4, <1>6, <1>10 DEF Current, Has
  <2>3. Submits(c, item, declared, f)
    BY <1>3, <1>4, <1>5, <1>6, <1>7, <1>8, <1>10, <2>1, <2>2 DEF Submits
  <2> QED
    BY <1>3, <2>3
<1> QED
  BY <1>9, <1>10


\* The queues a submission moves between.
LEMMA SubmitMoves ==
    ASSUME GatewayInv, NEW c0 \in Channels, NEW item \in Submissions, NEW declared,
           NEW f \in Seq(FrameType), Submits(c0, item, declared, f)
    PROVE  /\ \A c \in Channels : c # c0 => loop'[c] = loop[c] /\ wire'[c] = wire[c]
           /\ Len(loop[c0]) \in Nat /\ DOMAIN loop[c0] = 1..Len(loop[c0]) /\ 1 \in DOMAIN loop[c0]
           /\ DOMAIN loop'[c0] = 1..(Len(loop[c0]) - 1)
           /\ \A i \in DOMAIN loop'[c0] : loop'[c0][i] = loop[c0][i + 1] /\ i + 1 \in DOMAIN loop[c0]
           /\ Len(wire[c0]) \in Nat /\ DOMAIN wire[c0] = 1..Len(wire[c0]) /\ Len(f) \in Nat
           /\ DOMAIN wire'[c0] = 1..(Len(wire[c0]) + Len(f)) /\ Len(wire'[c0]) = Len(wire[c0]) + Len(f)
           /\ \A i \in 1..Len(wire[c0]) : wire'[c0][i] = wire[c0][i]
           /\ \A i \in 1..Len(f) : wire'[c0][Len(wire[c0]) + i] = f[i]
           /\ \A i \in DOMAIN wire'[c0] :
                i \in 1..Len(wire[c0]) \/ \E j \in 1..Len(f) : i = Len(wire[c0]) + j
<1>1. loop \in [Channels -> Seq(Submissions)] /\ wire \in [Channels -> Seq(FrameType)]
  BY OrderTypes
<1>2. /\ loop[c0] # <<>> /\ loop' = [loop EXCEPT ![c0] = Tail(@)]
      /\ wire' = [wire EXCEPT ![c0] = @ \o f]
  BY DEF Submits
<1>3. /\ \A c \in Channels : c # c0 => loop'[c] = loop[c]
      /\ Len(loop[c0]) \in Nat /\ DOMAIN loop[c0] = 1..Len(loop[c0]) /\ 1 \in DOMAIN loop[c0]
      /\ DOMAIN loop'[c0] = 1..(Len(loop[c0]) - 1)
      /\ \A i \in DOMAIN loop'[c0] : loop'[c0][i] = loop[c0][i + 1] /\ i + 1 \in DOMAIN loop[c0]
  <2>1. loop'[c0] = Tail(loop[c0]) /\ loop[c0] \in Seq(Submissions)
    BY <1>1, <1>2
  <2> QED
    BY <1>1, <1>2, <2>1, TailFacts
<1>4. /\ \A c \in Channels : c # c0 => wire'[c] = wire[c]
      /\ Len(wire[c0]) \in Nat /\ DOMAIN wire[c0] = 1..Len(wire[c0]) /\ Len(f) \in Nat
      /\ DOMAIN wire'[c0] = 1..(Len(wire[c0]) + Len(f)) /\ Len(wire'[c0]) = Len(wire[c0]) + Len(f)
      /\ \A i \in 1..Len(wire[c0]) : wire'[c0][i] = wire[c0][i]
      /\ \A i \in 1..Len(f) : wire'[c0][Len(wire[c0]) + i] = f[i]
  <2>1. wire'[c0] = wire[c0] \o f /\ wire[c0] \in Seq(FrameType)
    BY <1>1, <1>2
  <2>2. /\ wire[c0] \o f \in Seq(FrameType) /\ Len(wire[c0] \o f) = Len(wire[c0]) + Len(f)
        /\ \A i \in 1..(Len(wire[c0]) + Len(f)) :
             (wire[c0] \o f)[i] = IF i <= Len(wire[c0]) THEN wire[c0][i] ELSE f[i - Len(wire[c0])]
    BY <2>1, ConcatProperties
  <2>3. Len(wire[c0]) \in Nat /\ Len(f) \in Nat /\ DOMAIN wire[c0] = 1..Len(wire[c0])
        /\ DOMAIN (wire[c0] \o f) = 1..Len(wire[c0] \o f)
    BY <2>1, <2>2
  <2> QED
    BY <1>1, <1>2, <2>1, <2>2, <2>3
<1>5. \A i \in DOMAIN wire'[c0] :
         i \in 1..Len(wire[c0]) \/ \E j \in 1..Len(f) : i = Len(wire[c0]) + j
  <2> SUFFICES ASSUME NEW i \in DOMAIN wire'[c0], i \notin 1..Len(wire[c0])
               PROVE  \E j \in 1..Len(f) : i = Len(wire[c0]) + j
    OBVIOUS
  <2>1. i \in Int /\ i > Len(wire[c0]) /\ i <= Len(wire[c0]) + Len(f)
    BY <1>4
  <2>2. i - Len(wire[c0]) \in 1..Len(f) /\ i = Len(wire[c0]) + (i - Len(wire[c0]))
    BY <1>4, <2>1
  <2> QED
    BY <2>2
<1> QED
  BY <1>3, <1>4, <1>5

\* SubmitScene takes the first submission of its loop; what it sends goes
\* behind all that was sent before.
LEMMA SubmitOrdered ==
    ASSUME Ordered, GatewayInv, GatewayInv', NEW c0 \in Channels, NEW item \in Submissions,
           NEW declared \in BOOLEAN, NEW f \in Seq(FrameType), Submits(c0, item, declared, f)
    PROVE  Bracket'
<1>1. /\ loop \in [Channels -> Seq(Submissions)] /\ wire \in [Channels -> Seq(FrameType)]
      /\ sess \in [Sessions -> SessionType]
  BY OrderTypes
<1>2. PICK d0 : d0 = item.data
  OBVIOUS
<1>3. d0 \in Datas /\ d0.clientSession \in Sessions
  BY <1>2, DataFacts DEF Submissions
<1>4. /\ loop[c0] # <<>> /\ item = loop[c0][1] /\ loop' = [loop EXCEPT ![c0] = Tail(@)]
      /\ chan' = chan /\ scene' = scene /\ conn' = conn /\ job' = job /\ playerEpoch' = playerEpoch
      /\ wire' = [wire EXCEPT ![c0] = @ \o f]
      /\ declared = sess[d0.clientSession].online
  BY <1>2 DEF Submits
<1>5. /\ \A c \in Channels : c # c0 => loop'[c] = loop[c]
      /\ Len(loop[c0]) \in Nat /\ DOMAIN loop[c0] = 1..Len(loop[c0]) /\ 1 \in DOMAIN loop[c0]
      /\ DOMAIN loop'[c0] = 1..(Len(loop[c0]) - 1)
      /\ \A i \in DOMAIN loop'[c0] : loop'[c0][i] = loop[c0][i + 1] /\ i + 1 \in DOMAIN loop[c0]
  BY SubmitMoves
<1>6. /\ \A c \in Channels : c # c0 => wire'[c] = wire[c]
      /\ Len(wire[c0]) \in Nat /\ DOMAIN wire[c0] = 1..Len(wire[c0]) /\ Len(f) \in Nat
      /\ DOMAIN wire'[c0] = 1..(Len(wire[c0]) + Len(f)) /\ Len(wire'[c0]) = Len(wire[c0]) + Len(f)
      /\ \A i \in 1..Len(wire[c0]) : wire'[c0][i] = wire[c0][i]
      /\ \A i \in 1..Len(f) : wire'[c0][Len(wire[c0]) + i] = f[i]
  BY SubmitMoves
<1>6a. \A i \in DOMAIN wire'[c0] :
         i \in 1..Len(wire[c0]) \/ \E j \in 1..Len(f) : i = Len(wire[c0]) + j
  BY SubmitMoves
<1>7. /\ \A j \in 1..Len(f) : f[j].data = d0 /\ f[j].kind # "eof" /\ chan[c0] = "up"
      /\ \A j \in 1..Len(f) : f[j].kind = "offline" =>
           item = Frame("offline", d0, 0) /\ j = Len(f)
      /\ \A j \in 1..Len(f) : f[j].kind = "business" =>
           /\ Has(sess[d0.clientSession], c0, d0)
           /\ declared \/ (j > 1 /\ f[1] = Frame("online", d0, 0))
  <2>1. item.kind = "offline" => item = Frame("offline", d0, 0)
    BY <1>2 DEF Submissions, Frame
  <2>2. CASE f = <<>>
    BY <2>2
  <2>3. CASE chan[c0] = "up" /\ item.kind = "offline" /\ f = Frames(item, declared)
    <3>1. f = <<Frame("offline", d0, 0)>>
      BY <1>2, <2>3, FramesOrder
    <3>2. Len(f) = 1 /\ f[1] = Frame("offline", d0, 0)
      BY <3>1
    <3>3. f[1].kind = "offline" /\ f[1].data = d0
      BY <3>2 DEF Frame
    <3> QED
      BY <2>1, <2>3, <3>2, <3>3
  <2>4. CASE /\ chan[c0] = "up" /\ item.kind = "online" /\ Has(sess[d0.clientSession], c0, d0)
             /\ f = Frames(item, declared)
    BY <1>2, <2>4, FramesOrder
  <2> QED
    BY <1>2, <2>2, <2>3, <2>4 DEF Submits
<1>8. \A d \in Datas : /\ \A c \in Chans : Holds(c, d)' <=> Holds(c, d)
                       /\ Held(d)' <=> Held(d)
  <2>1. \A s \in Sessions : /\ sess'[s].authed <=> sess[s].authed
                            /\ sess'[s].player = sess[s].player /\ sess'[s].epoch = sess[s].epoch
                            /\ sess'[s].chan = sess[s].chan
    <3>1. sess' = sess \/ sess' = [sess EXCEPT ![d0.clientSession].online = TRUE]
      BY <1>2 DEF Submits
    <3>2. \A s \in Sessions : sess'[s] = sess[s] \/ sess'[s] = [sess[s] EXCEPT !.online = TRUE]
      BY <1>1, <1>3, <3>1
    <3>3. \A s \in Sessions : sess[s] \in SessionType
      BY <1>1
    <3> QED
      BY <3>2, <3>3 DEF SessionType
  <2> QED
    BY <1>4, <2>1, HoldsKept
<1>9. Queued(c0, d0)
  BY <1>2, <1>4, <1>5 DEF Queued
<1>10. \A c \in Channels : \A d \in Datas :
         /\ Queued(c, d)' => Queued(c, d)
         /\ Sent(c, d)' => Sent(c, d) \/ (c = c0 /\ d = d0 /\ chan[c0] = "up")
  <2>1. ASSUME NEW c \in Channels, NEW d \in Datas, Queued(c, d)' PROVE Queued(c, d)
    BY <1>5, <2>1 DEF Queued
  <2>2. ASSUME NEW c \in Channels, NEW d \in Datas, Sent(c, d)', c # c0 PROVE Sent(c, d)
    BY <1>6, <2>2 DEF Sent
  <2>3. ASSUME NEW d \in Datas, Sent(c0, d)' PROVE Sent(c0, d) \/ (d = d0 /\ chan[c0] = "up")
    <3>1. PICK i \in DOMAIN wire'[c0] : wire'[c0][i].data = d
      BY <2>3 DEF Sent
    <3>2. CASE i \in 1..Len(wire[c0])
      BY <1>6, <3>1, <3>2 DEF Sent
    <3>3. ASSUME NEW j \in 1..Len(f), i = Len(wire[c0]) + j PROVE d = d0 /\ chan[c0] = "up"
      BY <1>6, <1>7, <3>1, <3>3
    <3> QED
      BY <1>6a, <3>2, <3>3
  <2> QED
    BY <2>1, <2>2, <2>3
<1>11. \A c \in Chans : \A d \in Datas : On(c, d)' => On(c, d)
  BY <1>4, <1>8, <1>9, <1>10, ConstantFacts DEF On, Chans
<1>12. NothingNew
  BY <1>4, <1>11 DEF NothingNew, Known
<1>13. (OneCarrier /\ OneUse)'
  BY <1>4, <1>12, EpochsStay, CarriersKept
<1>14. EndedInLoop'
  <2> SUFFICES ASSUME NEW c \in Channels, NEW d \in Datas, NEW i \in DOMAIN loop'[c],
                      loop'[c][i] = Frame("offline", d, 0)
               PROVE  /\ \A k \in DOMAIN loop'[c] : i < k => loop'[c][k].data # d
                      /\ ~Held(d)'
    BY DEF EndedInLoop
  <2>1. CASE c # c0
    BY <1>5, <1>8, <2>1 DEF Ordered, EndedInLoop
  <2>2. CASE c = c0
    <3>1. i + 1 \in DOMAIN loop[c0] /\ loop[c0][i + 1] = Frame("offline", d, 0)
      BY <1>5, <2>2
    <3>2. /\ \A k \in DOMAIN loop[c0] : i + 1 < k => loop[c0][k].data # d
          /\ ~Held(d)
      BY <3>1 DEF Ordered, EndedInLoop
    <3> QED
      BY <1>5, <1>8, <2>2, <3>2
  <2> QED
    BY <2>1, <2>2
<1>15. EndedOnWire'
  <2> SUFFICES ASSUME NEW c \in Channels, NEW d \in Datas, NEW i \in DOMAIN wire'[c],
                      wire'[c][i] = Frame("offline", d, 0)
               PROVE  /\ \A k \in DOMAIN wire'[c] : i < k => wire'[c][k].data # d
                      /\ ~Queued(c, d)' /\ ~Held(d)'
    BY DEF EndedOnWire
  <2>1. CASE c # c0
    <3>1. /\ \A k \in DOMAIN wire[c] : i < k => wire[c][k].data # d
          /\ ~Queued(c, d) /\ ~Held(d)
      BY <1>6, <2>1 DEF Ordered, EndedOnWire
    <3> QED
      BY <1>6, <1>8, <1>10, <2>1, <3>1
  <2>2. CASE c = c0 /\ i \in 1..Len(wire[c0])
    <3>1. /\ \A k \in DOMAIN wire[c0] : i < k => wire[c0][k].data # d
          /\ ~Queued(c0, d) /\ ~Held(d)
      BY <1>6, <2>2 DEF Ordered, EndedOnWire
    <3>2. d # d0
      BY <1>9, <3>1
    <3>3. ASSUME NEW k \in DOMAIN wire'[c0], i < k PROVE wire'[c0][k].data # d
      <4>1. CASE k \in 1..Len(wire[c0])
        BY <1>6, <3>1, <3>3, <4>1
      <4>2. CASE k \notin 1..Len(wire[c0])
        <5>1. PICK j : j = k - Len(wire[c0])
          OBVIOUS
        <5>2. j \in 1..Len(f) /\ k = Len(wire[c0]) + j
          BY <1>6, <4>2, <5>1
        <5> QED
          BY <1>6, <1>7, <3>2, <5>2
      <4> QED
        BY <4>1, <4>2
    <3> QED
      BY <1>8, <1>10, <2>2, <3>1, <3>3
  <2>3. CASE c = c0 /\ i \notin 1..Len(wire[c0])
    <3>1. PICK j \in 1..Len(f) : i = Len(wire[c0]) + j
      BY <1>6a, <2>3
    <3>2. j \in 1..Len(f) /\ i = Len(wire[c0]) + j
      BY <3>1
    <3>3. f[j].kind = "offline" /\ f[j].data = d
      BY <1>6, <2>3, <3>2 DEF Frame
    <3>4. d = d0 /\ item = Frame("offline", d0, 0) /\ j = Len(f)
      BY <1>7, <3>2, <3>3
    <3>5. /\ \A k \in DOMAIN loop[c0] : 1 < k => loop[c0][k].data # d0
          /\ ~Held(d0)
      BY <1>3, <1>4, <1>5, <3>4 DEF Ordered, EndedInLoop
    <3>6. ~Queued(c0, d0)'
      BY <1>5, <3>5 DEF Queued
    <3> QED
      BY <1>3, <1>6, <1>8, <2>3, <3>2, <3>4, <3>5, <3>6
  <2> QED
    BY <2>1, <2>2, <2>3

<1>16. IndexAgrees'
  BY <1>4 DEF Ordered, IndexAgrees
<1>17. EofIsLast'
  <2> SUFFICES ASSUME NEW c \in Channels, NEW i \in DOMAIN wire'[c], wire'[c][i].kind = "eof"
               PROVE  i = Len(wire'[c]) /\ chan'[c] = "down"
    BY DEF EofIsLast
  <2>1. CASE c # c0
    BY <1>4, <1>6, <2>1 DEF Ordered, EofIsLast
  <2>2. CASE c = c0 /\ i \in 1..Len(wire[c0])
    <3>1. i = Len(wire[c0]) /\ chan[c0] = "down"
      BY <1>6, <2>2 DEF Ordered, EofIsLast
    <3>2. Len(f) = 0
      BY <1>6, <1>7, <3>1
    <3> QED
      BY <1>4, <1>6, <2>2, <3>1, <3>2
  <2>3. CASE c = c0 /\ i \notin 1..Len(wire[c0])
    <3>1. PICK j \in 1..Len(f) : i = Len(wire[c0]) + j
      BY <1>6a, <2>3
    <3>2. j \in 1..Len(f) /\ i = Len(wire[c0]) + j
      BY <3>1
    <3> QED
      BY <1>6, <1>7, <2>3, <3>2
  <2> QED
    BY <2>1, <2>2, <2>3
<1>18. GoneIsGone'
  <2> SUFFICES ASSUME NEW p \in Players, scene.latest[p] # NoData, scene.route[p] = 0, NEW c \in Chans,
                      NEW d \in Datas, d = scene.latest[p], On(c, d)'
               PROVE  c # 0 /\ chan[c] = "down" /\ ~Sent(c, d)'
    <3>1. \A p \in Players : scene.latest[p] \in Datas \/ scene.latest[p] = NoData
      BY OrderTypes
    <3> QED
      BY <1>4, <3>1, OrderTypes DEF GoneIsGone
  <2>1. c # 0 /\ chan[c] = "down" /\ ~Sent(c, d)
    BY <1>11 DEF Ordered, GoneIsGone
  <2> QED
    BY <1>10, <2>1 DEF Chans
<1>19. ASSUME NEW c \in Channels, NEW d \in Datas, Declared(c, d) PROVE Declared(c, d)'
  <2>1. ASSUME NEW i \in DOMAIN wire[c], wire[c][i] = Frame("online", d, 0)
        PROVE  i \in DOMAIN wire'[c] /\ wire'[c][i] = Frame("online", d, 0)
    BY <1>6, <2>1
  <2> QED
    BY <1>4, <1>19, <2>1 DEF Declared
<1>20. ShownIsDeclared'
  <2> SUFFICES ASSUME NEW c \in Channels, NEW d \in Datas, chan[c] = "up", Shown(c, d)',
                      Holds(c, d)' \/ Queued(c, d)'
               PROVE  Declared(c, d)'
    BY <1>4 DEF ShownIsDeclared
  <2>1. Holds(c, d) \/ Queued(c, d)
    BY <1>8, <1>10 DEF Chans
  <2>2. CASE Shown(c, d)
    <3>1. Declared(c, d)
      BY <2>1, <2>2 DEF Ordered, ShownIsDeclared
    <3> QED
      BY <1>19, <3>1
  <2>3. CASE ~Shown(c, d)
    <3>1. PICK s \in Sessions : s = d0.clientSession
      BY <1>3
    <3>2. d.clientSession \in Sessions
      BY DataFacts
    <3>3. /\ sess' # sess /\ item.kind = "online" /\ Has(sess[s], c0, d0)
          /\ f = Frames(item, declared) /\ sess' = [sess EXCEPT ![s].online = TRUE]
      BY <1>2, <2>3, <3>1 DEF Submits, Shown
    <3>4. d.clientSession = s /\ ~sess[s].online /\ Has(sess[s], c, d)
      BY <1>1, <2>3, <3>2, <3>3 DEF Shown, Has, SessionType
    <3>5. c = c0 /\ d = d0
      BY <1>3, <3>1, <3>3, <3>4, DataFacts DEF Has
    <3>6. ~declared
      BY <1>4, <3>1, <3>4
    <3>7. Len(f) >= 1 /\ f[1] = Frame("online", d0, 0)
      BY <1>2, <3>3, <3>6, FramesOrder
    <3>8. Len(wire[c0]) + 1 \in DOMAIN wire'[c0] /\ wire'[c0][Len(wire[c0]) + 1] = Frame("online", d0, 0)
      BY <1>6, <3>7
    <3> QED
      BY <3>5, <3>8 DEF Declared
  <2> QED
    BY <2>2, <2>3
<1>21. DeclaredFirst'
  <2> SUFFICES ASSUME NEW c \in Channels, NEW i \in DOMAIN wire'[c], wire'[c][i].kind = "business",
                      NEW d, d = wire'[c][i].data
               PROVE  \/ \E k \in 1..(i - 1) : wire'[c][k] = Frame("online", d, 0)
                      \/ d \in scene.byConn[c]
                      \/ scene.latest[d.player].epoch > d.epoch
    BY <1>4 DEF DeclaredFirst, SceneIndex!Matches
  <2>1. CASE c # c0
    BY <1>6, <2>1 DEF Ordered, DeclaredFirst, SceneIndex!Matches
  <2>2. CASE c = c0 /\ i \in 1..Len(wire[c0])
    <3>1. i \in DOMAIN wire[c] /\ wire[c][i] = wire'[c][i] /\ \A k \in 1..(i - 1) : wire'[c][k] = wire[c][k]
      BY <1>6, <2>2
    <3> QED
      BY <3>1 DEF Ordered, DeclaredFirst, SceneIndex!Matches
  <2>3. CASE c = c0 /\ i \notin 1..Len(wire[c0])
    <3>1. PICK j \in 1..Len(f) : i = Len(wire[c0]) + j
      BY <1>6a, <2>3
    <3>2. j \in 1..Len(f) /\ i = Len(wire[c0]) + j
      BY <3>1
    <3>3. f[j].kind = "business" /\ d = d0
      BY <1>6, <1>7, <2>3, <3>2
    <3>4. CASE j > 1 /\ f[1] = Frame("online", d0, 0)
      <4>1. 1 \in 1..Len(f) /\ Len(wire[c0]) + 1 \in 1..(i - 1)
        BY <1>6, <3>2, <3>4
      <4>2. wire'[c0][Len(wire[c0]) + 1] = Frame("online", d0, 0)
        BY <1>6, <3>4, <4>1
      <4> QED
        BY <2>3, <3>3, <4>1, <4>2
    <3>5. CASE declared
      <4>1. Shown(c0, d0) /\ chan[c0] = "up"
        BY <1>4, <1>7, <3>2, <3>3, <3>5 DEF Shown
      <4>2. Declared(c0, d0)
        BY <1>3, <1>9, <4>1 DEF Ordered, ShownIsDeclared
      <4>3. ASSUME NEW k \in DOMAIN wire[c0], wire[c0][k] = Frame("online", d0, 0)
            PROVE  k \in 1..(i - 1) /\ wire'[c0][k] = Frame("online", d0, 0)
        BY <1>6, <3>2, <4>3
      <4> QED
        BY <2>3, <3>3, <4>2, <4>3 DEF Declared
    <3> QED
      BY <1>7, <3>2, <3>3, <3>4, <3>5
  <2> QED
    BY <2>1, <2>2, <2>3
<1> QED
  BY <1>13, <1>14, <1>15, <1>16, <1>17, <1>18, <1>20, <1>21 DEF Bracket


-----------------------------------------------------------------------------
(* The scene reads the next frame of a channel.                            *)

\* GatewayClientIndex::Bind accepts d on channel c.
Acceptable(c, d) ==
    LET old == scene.latest[d.player] IN
    old = NoData \/ d.epoch > old.epoch \/ (old = d /\ scene.route[d.player] = c)

\* What frame m of channel c does to the index.
SceneStays(c, m) ==
    /\ scene' = scene /\ m.kind # "eof"
    /\ m.kind = "offline" => m.data \notin scene.byConn[c]
    /\ m.kind = "online" => m.data \in Datas /\ ~Acceptable(c, m.data)

SceneCloses(c, m) ==
    /\ m.kind = "eof" /\ scene'.latest = scene.latest
    /\ \A p \in Players :
         scene'.route[p] = IF \E d \in scene.byConn[c] : d.player = p THEN 0 ELSE scene.route[p]
    /\ \A k \in Channels : scene'.byConn[k] = IF k = c THEN {} ELSE scene.byConn[k]

SceneBinds(c, m) ==
    LET d == m.data IN
    /\ m.kind = "online" /\ d \in Datas /\ Acceptable(c, d)
    /\ \A p \in Players : /\ scene'.latest[p] = IF p = d.player THEN d ELSE scene.latest[p]
                          /\ scene'.route[p] = IF p = d.player THEN c ELSE scene.route[p]
    /\ \A k \in Channels : \A b \in Datas :
         b \in scene'.byConn[k] <=>
           (b \in scene.byConn[k] /\ b.player # d.player) \/ (k = c /\ b = d)

SceneUnbinds(c, m) ==
    LET d == m.data IN
    /\ d \in Datas /\ m = Frame("offline", d, 0) /\ d \in scene.byConn[c]
    /\ scene'.latest = scene.latest
    /\ \A p \in Players : scene'.route[p] = IF p = d.player THEN 0 ELSE scene.route[p]
    /\ \A k \in Channels : scene'.byConn[k] = IF k = c THEN scene.byConn[k] \ {d} ELSE scene.byConn[k]

Receives(c, m) ==
    /\ m \in FrameType /\ wire[c] # <<>> /\ m = wire[c][1]
    /\ wire' = [wire EXCEPT ![c] = Tail(@)]
    /\ UNCHANGED <<chan, loop, conn, job, sess, playerEpoch>>
    /\ SceneStays(c, m) \/ SceneCloses(c, m) \/ SceneBinds(c, m) \/ SceneUnbinds(c, m)

LEMMA ReceiveReceives ==
    ASSUME GatewayInv, NEW c \in Channels, SceneReceive(c)
    PROVE  \E m \in FrameType : Receives(c, m)
<1>1. /\ wire \in [Channels -> Seq(FrameType)] /\ scene \in SceneType
      /\ scene.latest \in [Players -> Datas \cup {NoData}]
      /\ scene.route \in [Players -> Channels \cup {0}] /\ scene.byConn \in [Channels -> SUBSET Datas]
  BY OrderTypes
<1>2. wire[c] # <<>> /\ wire' = [wire EXCEPT ![c] = Tail(@)]
      /\ UNCHANGED <<chan, loop, conn, job, sess, playerEpoch>>
  BY DEF SceneReceive, table
<1>3. PICK m : m = Head(wire[c])
  OBVIOUS
<1>4. m \in FrameType /\ m = wire[c][1]
  BY <1>1, <1>2, <1>3
<1>5. /\ m.kind \in {"online", "offline"} => m.data \in Datas /\ m = Frame(m.kind, m.data, 0)
      /\ m.kind \in {"online", "offline", "business", "eof"}
  BY <1>4 DEF FrameType, EOF, Frame
<1>6. m.kind = "online" =>
        (SceneIndex!Bindable(scene, c, m.data) <=> Acceptable(c, m.data))
  <2> SUFFICES ASSUME m.kind = "online"
               PROVE  SceneIndex!Bindable(scene, c, m.data) <=> Acceptable(c, m.data)
    OBVIOUS
  <2>1. PICK d \in Datas : d = m.data
    BY <1>5
  <2>2. PICK old \in Datas \cup {NoData} : old = scene.latest[d.player]
    BY <1>1, DataFacts
  <2>3. old # NoData => old.gateway = d.gateway
    BY <2>1, <2>2 DEF Datas
  <2> QED
    BY <2>1, <2>2, <2>3 DEF SceneIndex!Bindable, Acceptable, NoData
<1>7. CASE m.kind = "eof"
  <2>1. scene' = SceneIndex!CloseIndex(scene, c)
    BY <1>3, <1>7 DEF SceneReceive
  <2>2. /\ scene'.latest = scene.latest
        /\ scene'.route = [p \in Players |-> IF \E d \in scene.byConn[c] : d.player = p THEN 0 ELSE scene.route[p]]
        /\ scene'.byConn = [scene.byConn EXCEPT ![c] = {}]
    BY <1>1, <2>1 DEF SceneIndex!CloseIndex, SceneType
  <2>3. SceneCloses(c, m)
    BY <1>1, <1>7, <2>2 DEF SceneCloses
  <2> QED
    BY <1>2, <1>4, <2>3 DEF Receives
<1>8. CASE m.kind = "online" /\ Acceptable(c, m.data)
  <2>1. PICK d \in Datas : d = m.data
    BY <1>5, <1>8
  <2>2. scene' = SceneIndex!Bind(scene, c, d) /\ d.player \in Players
    BY <1>3, <1>6, <1>8, <2>1, DataFacts DEF SceneReceive
  <2>3. /\ scene'.latest = [scene.latest EXCEPT ![d.player] = d]
        /\ scene'.route = [scene.route EXCEPT ![d.player] = c]
        /\ \A k \in Channels :
             scene'.byConn[k] = IF k = c THEN {b \in scene.byConn[k] : b.player # d.player} \cup {d}
                                         ELSE {b \in scene.byConn[k] : b.player # d.player}
    BY <1>1, <2>2 DEF SceneIndex!Bind
  <2>4. \A p \in Players : /\ scene'.latest[p] = IF p = d.player THEN d ELSE scene.latest[p]
                           /\ scene'.route[p] = IF p = d.player THEN c ELSE scene.route[p]
    BY <1>1, <2>3
  <2>5. \A k \in Channels : \A b \in Datas :
          b \in scene'.byConn[k] <=>
            (b \in scene.byConn[k] /\ b.player # d.player) \/ (k = c /\ b = d)
    <3> SUFFICES ASSUME NEW k \in Channels, NEW b \in Datas
                 PROVE  b \in scene'.byConn[k] <=>
                          (b \in scene.byConn[k] /\ b.player # d.player) \/ (k = c /\ b = d)
      OBVIOUS
    <3>1. CASE k = c
      <4>1. scene'.byConn[k] = {z \in scene.byConn[k] : z.player # d.player} \cup {d}
        BY <2>3, <3>1
      <4> QED
        BY <3>1, <4>1, Zenon
    <3>2. CASE k # c
      <4>1. scene'.byConn[k] = {z \in scene.byConn[k] : z.player # d.player}
        BY <2>3, <3>2
      <4> QED
        BY <3>2, <4>1, Zenon
    <3> QED
      BY <3>1, <3>2
  <2>6. SceneBinds(c, m)
    BY <1>8, <2>1, <2>4, <2>5 DEF SceneBinds
  <2> QED
    BY <1>2, <1>4, <2>6 DEF Receives
<1>9. CASE m.kind = "offline" /\ m.data \in scene.byConn[c]
  <2>1. PICK d \in Datas : d = m.data
    BY <1>5, <1>9
  <2>2. scene' = SceneIndex!Unbind(scene, c, d) /\ d.player \in Players
    BY <1>3, <1>9, <2>1, DataFacts DEF SceneReceive, SceneIndex!Matches
  <2>3. /\ scene'.latest = scene.latest
        /\ scene'.route = [scene.route EXCEPT ![d.player] = 0]
        /\ scene'.byConn = [scene.byConn EXCEPT ![c] = @ \ {d}]
    BY <1>1, <2>2 DEF SceneIndex!Unbind, SceneType
  <2>4. SceneUnbinds(c, m)
    BY <1>1, <1>5, <1>9, <2>1, <2>3 DEF SceneUnbinds
  <2> QED
    BY <1>2, <1>4, <2>4 DEF Receives
<1>10. CASE /\ m.kind # "eof" /\ ~(m.kind = "online" /\ Acceptable(c, m.data))
            /\ ~(m.kind = "offline" /\ m.data \in scene.byConn[c])
  <2>1. scene' = scene
    BY <1>3, <1>6, <1>10 DEF SceneReceive, SceneIndex!Matches
  <2>2. SceneStays(c, m)
    BY <1>5, <1>10, <2>1 DEF SceneStays
  <2> QED
    BY <1>2, <1>4, <2>2 DEF Receives
<1> QED
  BY <1>7, <1>8, <1>9, <1>10


\* What is left on the wires and what the step leaves alone.
LEMMA ReceiveFacts ==
    ASSUME GatewayInv, NEW c0 \in Channels, NEW m, Receives(c0, m)
    PROVE  /\ \A c \in Channels : c # c0 => wire'[c] = wire[c]
           /\ Len(wire[c0]) \in Nat /\ DOMAIN wire[c0] = 1..Len(wire[c0]) /\ 1 \in DOMAIN wire[c0]
           /\ DOMAIN wire'[c0] = 1..(Len(wire[c0]) - 1) /\ Len(wire'[c0]) = Len(wire[c0]) - 1
           /\ \A i \in DOMAIN wire'[c0] : wire'[c0][i] = wire[c0][i + 1] /\ i + 1 \in DOMAIN wire[c0]
           /\ \A c \in Channels : \A d \in Datas :
                /\ Sent(c, d)' => Sent(c, d)
                /\ Queued(c, d)' <=> Queued(c, d)
                /\ Shown(c, d)' <=> Shown(c, d)
           /\ \A d \in Datas : /\ \A c \in Chans : Holds(c, d)' <=> Holds(c, d)
                               /\ Held(d)' <=> Held(d)
           /\ \A d \in Datas : m.data = d => Sent(c0, d)
<1>1. wire \in [Channels -> Seq(FrameType)]
  BY OrderTypes
<1>2. /\ wire[c0] # <<>> /\ m = wire[c0][1] /\ wire' = [wire EXCEPT ![c0] = Tail(@)]
      /\ chan' = chan /\ loop' = loop /\ conn' = conn /\ job' = job /\ sess' = sess
  BY DEF Receives
<1>3. /\ \A c \in Channels : c # c0 => wire'[c] = wire[c]
      /\ Len(wire[c0]) \in Nat /\ DOMAIN wire[c0] = 1..Len(wire[c0]) /\ 1 \in DOMAIN wire[c0]
      /\ DOMAIN wire'[c0] = 1..(Len(wire[c0]) - 1) /\ Len(wire'[c0]) = Len(wire[c0]) - 1
      /\ \A i \in DOMAIN wire'[c0] : wire'[c0][i] = wire[c0][i + 1] /\ i + 1 \in DOMAIN wire[c0]
  <2>1. wire'[c0] = Tail(wire[c0]) /\ wire[c0] \in Seq(FrameType)
    BY <1>1, <1>2
  <2> QED
    BY <1>1, <1>2, <2>1, TailFacts
<1>4. \A c \in Channels : \A d \in Datas :
        /\ Sent(c, d)' => Sent(c, d)
        /\ Queued(c, d)' <=> Queued(c, d)
        /\ Shown(c, d)' <=> Shown(c, d)
  BY <1>2, <1>3 DEF Sent, Queued, Shown
<1>5. \A d \in Datas : /\ \A c \in Chans : Holds(c, d)' <=> Holds(c, d)
                       /\ Held(d)' <=> Held(d)
  BY <1>2, HoldsKept
<1>6. \A d \in Datas : m.data = d => Sent(c0, d)
  BY <1>2, <1>3 DEF Sent
<1> QED
  BY <1>3, <1>4, <1>5, <1>6

\* The index stays consistent.
LEMMA ReceiveIndex ==
    ASSUME Ordered, GatewayInv, GatewayInv', NEW c0 \in Channels, NEW m, Receives(c0, m)
    PROVE  IndexAgrees'
<1>1. /\ scene.latest \in [Players -> Datas \cup {NoData}]
      /\ scene.route \in [Players -> Channels \cup {0}] /\ scene.byConn \in [Channels -> SUBSET Datas]
      /\ scene'.latest \in [Players -> Datas \cup {NoData}]
      /\ scene'.route \in [Players -> Channels \cup {0}] /\ scene'.byConn \in [Channels -> SUBSET Datas]
  BY OrderTypes DEF GatewayInv, TypeOK, SceneType, NoData
<1>2. /\ \A c \in Channels : \A d \in scene.byConn[c] :
           scene.latest[d.player] = d /\ scene.route[d.player] = c
      /\ \A p \in Players : scene.route[p] # 0 => scene.latest[p] \in scene.byConn[scene.route[p]]
      /\ \A p \in Players : scene.latest[p] # NoData => scene.latest[p].player = p
  BY DEF Ordered, IndexAgrees
<1>3. CASE SceneStays(c0, m)
  BY <1>2, <1>3 DEF SceneStays, IndexAgrees
<1>4. CASE SceneCloses(c0, m)
  <2>1. ASSUME NEW c \in Channels, NEW d \in scene'.byConn[c]
        PROVE  scene'.latest[d.player] = d /\ scene'.route[d.player] = c
    <3>1. c # c0 /\ d \in scene.byConn[c] /\ d \in Datas /\ d.player \in Players
      BY <1>1, <1>4, <2>1, DataFacts DEF SceneCloses
    <3>2. scene.latest[d.player] = d /\ scene.route[d.player] = c
      BY <1>2, <3>1
    <3>3. ~\E b \in scene.byConn[c0] : b.player = d.player
      BY <1>2, <3>1, <3>2
    <3> QED
      BY <1>4, <3>1, <3>2, <3>3 DEF SceneCloses
  <2>2. ASSUME NEW p \in Players, scene'.route[p] # 0
        PROVE  scene'.latest[p] \in scene'.byConn[scene'.route[p]]
    <3>1. /\ scene'.route[p] = scene.route[p] /\ scene.route[p] # 0
          /\ ~\E d \in scene.byConn[c0] : d.player = p
      BY <1>4, <2>2 DEF SceneCloses
    <3>2. scene.latest[p] \in scene.byConn[scene.route[p]] /\ scene.route[p] \in Channels
      BY <1>1, <1>2, <3>1
    <3>3. scene.latest[p] \in Datas /\ scene.latest[p].player = p
      BY <1>1, <1>2, <3>2, DataFacts
    <3>4. scene.route[p] # c0
      BY <3>1, <3>2, <3>3
    <3> QED
      BY <1>4, <3>1, <3>2, <3>4 DEF SceneCloses
  <2> QED
    BY <1>2, <1>4, <2>1, <2>2 DEF SceneCloses, IndexAgrees
<1>5. CASE SceneBinds(c0, m)
  <2>1. PICK d0 \in Datas : d0 = m.data
    BY <1>5 DEF SceneBinds
  <2>2. /\ d0.player \in Players
        /\ \A p \in Players : /\ scene'.latest[p] = IF p = d0.player THEN d0 ELSE scene.latest[p]
                              /\ scene'.route[p] = IF p = d0.player THEN c0 ELSE scene.route[p]
        /\ \A k \in Channels : \A b \in Datas :
             b \in scene'.byConn[k] <=>
               (b \in scene.byConn[k] /\ b.player # d0.player) \/ (k = c0 /\ b = d0)
    BY <1>5, <2>1, DataFacts DEF SceneBinds
  <2>3. ASSUME NEW c \in Channels, NEW d \in scene'.byConn[c]
        PROVE  scene'.latest[d.player] = d /\ scene'.route[d.player] = c
    <3>1. d \in Datas /\ d.player \in Players
      BY <1>1, <2>3, DataFacts
    <3>2. (d \in scene.byConn[c] /\ d.player # d0.player) \/ (c = c0 /\ d = d0)
      BY <2>2, <2>3, <3>1
    <3> QED
      BY <1>2, <2>2, <3>1, <3>2
  <2>4. ASSUME NEW p \in Players, scene'.route[p] # 0
        PROVE  scene'.latest[p] \in scene'.byConn[scene'.route[p]]
    <3>1. CASE p = d0.player
      BY <2>2, <3>1
    <3>2. CASE p # d0.player
      <4>1. /\ scene'.route[p] = scene.route[p] /\ scene'.latest[p] = scene.latest[p] /\ scene.route[p] \in Channels
            /\ scene.latest[p] \in scene.byConn[scene.route[p]]
        BY <1>1, <1>2, <2>2, <2>4, <3>2
      <4>2. scene.latest[p] \in Datas /\ scene.latest[p].player = p
        BY <1>1, <1>2, <4>1, DataFacts
      <4> QED
        BY <2>2, <3>2, <4>1, <4>2
    <3> QED
      BY <3>1, <3>2
  <2> QED
    BY <1>2, <2>2, <2>3, <2>4 DEF IndexAgrees
<1>6. CASE SceneUnbinds(c0, m)
  <2>1. PICK d0 \in Datas : d0 = m.data
    BY <1>6 DEF SceneUnbinds
  <2>2. /\ d0.player \in Players /\ d0 \in scene.byConn[c0] /\ scene'.latest = scene.latest
        /\ \A p \in Players : scene'.route[p] = IF p = d0.player THEN 0 ELSE scene.route[p]
        /\ \A k \in Channels : scene'.byConn[k] = IF k = c0 THEN scene.byConn[k] \ {d0} ELSE scene.byConn[k]
    BY <1>6, <2>1, DataFacts DEF SceneUnbinds
  <2>3. scene.latest[d0.player] = d0 /\ scene.route[d0.player] = c0
    BY <1>2, <2>2
  <2>4. ASSUME NEW c \in Channels, NEW d \in scene'.byConn[c]
        PROVE  scene'.latest[d.player] = d /\ scene'.route[d.player] = c
    <3>1. d \in scene.byConn[c] /\ (c = c0 => d # d0) /\ d.player \in Players
      <4>1. d \in scene.byConn[c] /\ (c = c0 => d # d0)
        BY <2>2, <2>4
      <4>2. d \in Datas
        BY <1>1, <4>1
      <4> QED
        BY <4>1, <4>2, DataFacts
    <3>2. scene.latest[d.player] = d /\ scene.route[d.player] = c
      BY <1>2, <3>1
    <3>3. d.player # d0.player
      BY <2>3, <3>1, <3>2
    <3> QED
      BY <2>2, <3>1, <3>2, <3>3
  <2>5. ASSUME NEW p \in Players, scene'.route[p] # 0
        PROVE  scene'.latest[p] \in scene'.byConn[scene'.route[p]]
    <3>1. p # d0.player /\ scene'.route[p] = scene.route[p] /\ scene.route[p] \in Channels
      BY <1>1, <2>2, <2>5
    <3>2. scene.latest[p] \in scene.byConn[scene.route[p]]
      BY <1>2, <2>5, <3>1
    <3>3. scene.latest[p] # d0
      BY <1>2, <3>1, DataFacts
    <3> QED
      BY <2>2, <3>1, <3>2, <3>3
  <2> QED
    BY <1>2, <2>2, <2>4, <2>5 DEF IndexAgrees
<1> QED
  BY <1>3, <1>4, <1>5, <1>6 DEF Receives


\* The index gets to know only what was on the channel.
LEMMA ReceiveNothingNew ==
    ASSUME Ordered, GatewayInv, GatewayInv', NEW c0 \in Channels, NEW m, Receives(c0, m)
    PROVE  NothingNew
<1>1. scene'.byConn \in [Channels -> SUBSET Datas]
  BY DEF GatewayInv, TypeOK, SceneType
<1>2. \A c \in Channels : \A d \in Datas : d \in scene'.byConn[c] =>
        d \in scene.byConn[c] \/ (c = c0 /\ Sent(c0, d))
  <2>1. \A d \in Datas : m.data = d => Sent(c0, d)
    BY ReceiveFacts
  <2> QED
    BY <2>1 DEF Receives, SceneStays, SceneCloses, SceneBinds, SceneUnbinds
<1>3. \A c \in Chans : \A d \in Datas : On(c, d)' => On(c, d)
  BY <1>2, ReceiveFacts, ConstantFacts DEF On, Chans
<1>4. ASSUME NEW d \in Datas, Known(d)' PROVE Known(d)
  <2>1. CASE \E c \in Chans : On(c, d)'
    BY <1>3, <2>1 DEF Known
  <2>2. CASE scene'.latest[d.player] = d
    <3>1. scene.latest[d.player] = d \/ Sent(c0, d)
      <4>1. \A b \in Datas : m.data = b => Sent(c0, b)
        BY ReceiveFacts
      <4> QED
        BY <2>2, <4>1, DataFacts DEF Receives, SceneStays, SceneCloses, SceneBinds, SceneUnbinds
    <3>2. Sent(c0, d) => On(c0, d)
      BY ConstantFacts DEF On
    <3> QED
      BY <3>1, <3>2 DEF Known, Chans
  <2> QED
    BY <1>4, <2>1, <2>2 DEF Known
<1> QED
  BY <1>3, <1>4 DEF NothingNew

LEMMA ReceiveEnded ==
    ASSUME Ordered, GatewayInv, GatewayInv', NEW c0 \in Channels, NEW m, Receives(c0, m)
    PROVE  (EndedOnWire /\ EndedInLoop /\ EofIsLast)'
<1>1. /\ chan' = chan /\ loop' = loop
      /\ \A c \in Channels : c # c0 => wire'[c] = wire[c]
      /\ Len(wire[c0]) \in Nat /\ DOMAIN wire[c0] = 1..Len(wire[c0])
      /\ DOMAIN wire'[c0] = 1..(Len(wire[c0]) - 1) /\ Len(wire'[c0]) = Len(wire[c0]) - 1
      /\ \A i \in DOMAIN wire'[c0] : wire'[c0][i] = wire[c0][i + 1] /\ i + 1 \in DOMAIN wire[c0]
      /\ \A c \in Channels : \A d \in Datas : Queued(c, d)' <=> Queued(c, d)
      /\ \A d \in Datas : Held(d)' <=> Held(d)
  BY ReceiveFacts DEF Receives
<1>2. EndedOnWire'
  <2> SUFFICES ASSUME NEW c \in Channels, NEW d \in Datas, NEW i \in DOMAIN wire'[c],
                      wire'[c][i] = Frame("offline", d, 0)
               PROVE  /\ \A k \in DOMAIN wire'[c] : i < k => wire'[c][k].data # d
                      /\ ~Queued(c, d)' /\ ~Held(d)'
    BY DEF EndedOnWire
  <2>1. CASE c # c0
    BY <1>1, <2>1 DEF Ordered, EndedOnWire
  <2>2. CASE c = c0
    <3>1. i + 1 \in DOMAIN wire[c0] /\ wire[c0][i + 1] = Frame("offline", d, 0)
      BY <1>1, <2>2
    <3>2. /\ \A k \in DOMAIN wire[c0] : i + 1 < k => wire[c0][k].data # d
          /\ ~Queued(c0, d) /\ ~Held(d)
      BY <3>1 DEF Ordered, EndedOnWire
    <3>3. ASSUME NEW k \in DOMAIN wire'[c0], i < k PROVE wire'[c0][k].data # d
      BY <1>1, <2>2, <3>2, <3>3
    <3> QED
      BY <1>1, <2>2, <3>2, <3>3
  <2> QED
    BY <2>1, <2>2
<1>3. EndedInLoop'
  BY <1>1 DEF Ordered, EndedInLoop
<1>4. EofIsLast'
  <2> SUFFICES ASSUME NEW c \in Channels, NEW i \in DOMAIN wire'[c], wire'[c][i].kind = "eof"
               PROVE  i = Len(wire'[c]) /\ chan'[c] = "down"
    BY DEF EofIsLast
  <2>1. CASE c # c0
    BY <1>1, <2>1 DEF Ordered, EofIsLast
  <2>2. CASE c = c0
    <3>1. i + 1 \in DOMAIN wire[c0] /\ wire[c0][i + 1].kind = "eof"
      BY <1>1, <2>2
    <3>2. i + 1 = Len(wire[c0]) /\ chan[c0] = "down"
      BY <3>1 DEF Ordered, EofIsLast
    <3> QED
      BY <1>1, <2>2, <3>2
  <2> QED
    BY <2>1, <2>2
<1> QED
  BY <1>2, <1>3, <1>4

\* A binding leaves the index for good: with its OFFLINE nothing of it is left,
\* with the end of its channel nothing of it is on the wire.
LEMMA ReceiveGone ==
    ASSUME Ordered, GatewayInv, GatewayInv', NEW c0 \in Channels, NEW m, Receives(c0, m)
    PROVE  GoneIsGone'
<1>1. /\ \A c \in Chans : \A d \in Datas : On(c, d)' => On(c, d)
      /\ \A c \in Channels : \A d \in Datas : Sent(c, d)' => Sent(c, d)
      /\ chan' = chan
  BY ReceiveNothingNew, ReceiveFacts DEF NothingNew, Receives
<1>2. scene'.latest \in [Players -> Datas \cup {NoData}] /\ scene.route \in [Players -> Channels \cup {0}]
      /\ scene.byConn \in [Channels -> SUBSET Datas]
  BY OrderTypes DEF GatewayInv, TypeOK, SceneType, NoData
<1> SUFFICES ASSUME NEW p \in Players, NEW d \in Datas, d = scene'.latest[p], scene'.route[p] = 0,
                    NEW c \in Chans, On(c, d)'
             PROVE  c # 0 /\ chan[c] = "down" /\ ~Sent(c, d)'
  BY <1>1, <1>2 DEF GoneIsGone
<1>3. On(c, d)
  BY <1>1
<1>4. CASE scene.latest[p] = d /\ scene.route[p] = 0
  <2>1. c # 0 /\ chan[c] = "down" /\ ~Sent(c, d)
    BY <1>3, <1>4, DataFacts DEF Ordered, GoneIsGone
  <2> QED
    BY <1>1, <2>1 DEF Chans
<1>5. CASE SceneStays(c0, m)
  BY <1>4, <1>5 DEF SceneStays
<1>6. CASE SceneCloses(c0, m) /\ scene.route[p] # 0
  <2>1. PICK b \in scene.byConn[c0] : b.player = p
    BY <1>6 DEF SceneCloses
  <2>2. scene.latest[p] = b /\ b = d
    BY <1>6, <2>1 DEF SceneCloses, Ordered, IndexAgrees
  <2>3. c = c0
    <3>1. On(c0, d)
      BY <2>1, <2>2, ConstantFacts DEF On
    <3> QED
      BY <1>3, <3>1 DEF Ordered, OneCarrier, Chans
  <2>4. Len(wire[c0]) = 1 /\ chan[c0] = "down"
    <3>1. 1 \in DOMAIN wire[c0]
      BY ReceiveFacts
    <3>2. wire[c0][1].kind = "eof"
      BY <1>6 DEF Receives, SceneCloses
    <3> QED
      BY <3>1, <3>2 DEF Ordered, EofIsLast
  <2>5. ~Sent(c0, d)'
    BY <2>4, ReceiveFacts DEF Sent
  <2> QED
    BY <2>3, <2>4, <2>5, ConstantFacts
<1>7. CASE SceneBinds(c0, m)
  <2>1. p # m.data.player
    BY <1>7, ConstantFacts DEF SceneBinds
  <2> QED
    BY <1>4, <1>7, <2>1 DEF SceneBinds
<1>8. CASE SceneUnbinds(c0, m) /\ scene.route[p] # 0
  <2>1. PICK d0 \in Datas : d0 = m.data
    BY <1>8 DEF SceneUnbinds
  <2>2. /\ p = d0.player /\ d0 \in scene.byConn[c0] /\ d = scene.latest[p]
        /\ wire[c0][1] = Frame("offline", d0, 0)
        /\ scene'.byConn[c0] = scene.byConn[c0] \ {d0}
    BY <1>8, <2>1 DEF SceneUnbinds, Receives
  <2>3. d = d0
    BY <2>2 DEF Ordered, IndexAgrees
  <2>4. c = c0
    <3>1. On(c0, d)
      BY <2>2, <2>3, ConstantFacts DEF On
    <3> QED
      BY <1>3, <3>1 DEF Ordered, OneCarrier, Chans
  <2>5. /\ \A k \in DOMAIN wire[c0] : 1 < k => wire[c0][k].data # d0
        /\ ~Queued(c0, d0) /\ ~Held(d0)
    <3>1. 1 \in DOMAIN wire[c0]
      BY ReceiveFacts
    <3> QED
      BY <2>2, <3>1 DEF Ordered, EndedOnWire
  <2>6. ~Sent(c0, d0)'
    BY <2>5, ReceiveFacts DEF Sent
  <2>7. ~Queued(c0, d0)' /\ ~Holds(c0, d0)'
    BY <2>5, ReceiveFacts DEF Held, Chans
  <2>8. ~On(c0, d0)'
    BY <2>2, <2>6, <2>7 DEF On
  <2> QED
    BY <2>3, <2>4, <2>8
<1> QED
  BY <1>4, <1>5, <1>6, <1>7, <1>8 DEF Receives, SceneCloses, SceneUnbinds


\* The scene learns of a binding from its ONLINE, or already knows something newer.
LEMMA OnlineDeclares ==
    ASSUME Ordered, GatewayInv, GatewayInv', NEW c0 \in Channels, NEW m, Receives(c0, m),
           NEW d \in Datas, m = Frame("online", d, 0)
    PROVE  d \in scene'.byConn[c0] \/ scene'.latest[d.player].epoch > d.epoch
<1>1. m.kind = "online" /\ m.data = d /\ d.player \in Players /\ Sent(c0, d)
  BY DataFacts, ReceiveFacts DEF Frame
<1>2. CASE SceneBinds(c0, m)
  BY <1>1, <1>2 DEF SceneBinds
<1>3. CASE SceneStays(c0, m)
  <2>1. PICK old : old = scene.latest[d.player]
    OBVIOUS
  <2>2. /\ old # NoData /\ ~(d.epoch > old.epoch) /\ ~(old = d /\ scene.route[d.player] = c0)
        /\ scene' = scene
    BY <1>1, <1>3, <2>1 DEF SceneStays, Acceptable
  <2>3. old \in Datas /\ old.player = d.player
    BY <1>1, <2>1, <2>2, OrderTypes DEF Ordered, IndexAgrees
  <2>4. CASE old = d
    <3>1. On(c0, d) /\ c0 \in Chans
      BY <1>1, ConstantFacts DEF On, Chans
    <3>2. CASE scene.route[d.player] = 0
      BY <1>1, <2>1, <2>2, <2>4, <3>1, <3>2 DEF Ordered, GoneIsGone
    <3>3. CASE scene.route[d.player] # 0
      <4>1. PICK k \in Channels : k = scene.route[d.player]
        BY <1>1, <3>3, OrderTypes
      <4>2. d \in scene.byConn[k]
        <5>1. \A p \in Players : scene.route[p] # 0 => scene.latest[p] \in scene.byConn[scene.route[p]]
          BY DEF Ordered, IndexAgrees
        <5>2. scene.latest[d.player] \in scene.byConn[scene.route[d.player]]
          BY <1>1, <3>3, <5>1
        <5>3. scene.latest[d.player] = d
          BY <2>1, <2>4
        <5> QED
          BY <4>1, <5>2, <5>3
      <4>3. On(k, d) /\ k \in Chans
        BY <4>2, ConstantFacts DEF On, Chans
      <4> QED
        BY <2>2, <2>4, <3>1, <4>1, <4>3 DEF Ordered, OneCarrier
    <3> QED
      BY <3>2, <3>3
  <2>5. CASE old # d
    <3>1. Known(old) /\ Known(d)
      <4>1. On(c0, d) /\ c0 \in Chans
        BY <1>1, ConstantFacts DEF On, Chans
      <4> QED
        BY <2>1, <2>3, <4>1 DEF Known
    <3>2. old.epoch # d.epoch
      BY <2>3, <2>5, <3>1 DEF Ordered, OneUse
    <3> QED
      BY <2>1, <2>2, <2>3, <3>2, DataFacts
  <2> QED
    BY <2>4, <2>5
<1>4. ~SceneCloses(c0, m) /\ ~SceneUnbinds(c0, m)
  BY <1>1 DEF SceneCloses, SceneUnbinds, Frame
<1> QED
  BY <1>2, <1>3, <1>4 DEF Receives

\* What the scene knows of a binding it keeps, or knows newer, as long as
\* something of the binding is still to come.
LEMMA DeclarationStays ==
    ASSUME Ordered, GatewayInv, GatewayInv', NEW c0 \in Channels, NEW m, Receives(c0, m),
           NEW c \in Channels, NEW d \in Datas,
           d \in scene.byConn[c] \/ scene.latest[d.player].epoch > d.epoch,
           Sent(c, d)' \/ (chan[c] = "up" /\ (Held(d) \/ Queued(c, d)))
    PROVE  d \in scene'.byConn[c] \/ scene'.latest[d.player].epoch > d.epoch
<1>1. d.player \in Players /\ d.epoch \in Nat
  BY DataFacts
<1>2. CASE SceneStays(c0, m)
  BY <1>2 DEF SceneStays
<1>3. CASE SceneCloses(c0, m)
  <2>1. c # c0
    <3>1. 1 \in DOMAIN wire[c0] /\ wire[c0][1].kind = "eof"
      BY <1>3, ReceiveFacts DEF Receives, SceneCloses
    <3>2. Len(wire[c0]) = 1 /\ chan[c0] = "down"
      BY <3>1 DEF Ordered, EofIsLast
    <3>3. ~Sent(c0, d)'
      BY <3>2, ReceiveFacts DEF Sent
    <3> QED
      BY <3>2, <3>3
  <2> QED
    BY <1>3, <2>1 DEF SceneCloses
<1>4. CASE SceneBinds(c0, m)
  <2>1. PICK d0 \in Datas : d0 = m.data
    BY <1>4 DEF SceneBinds
  <2>2. /\ Acceptable(c0, d0)
        /\ \A p \in Players : scene'.latest[p] = IF p = d0.player THEN d0 ELSE scene.latest[p]
        /\ \A k \in Channels : \A b \in Datas :
             b \in scene'.byConn[k] <=>
               (b \in scene.byConn[k] /\ b.player # d0.player) \/ (k = c0 /\ b = d0)
    BY <1>4, <2>1 DEF SceneBinds
  <2>3. CASE d.player # d0.player
    BY <1>1, <2>2, <2>3
  <2>4. CASE d.player = d0.player /\ d \in scene.byConn[c]
    <3>1. scene.latest[d0.player] = d /\ scene.route[d0.player] = c /\ d # NoData
      BY <2>4, DataFacts DEF Ordered, IndexAgrees
    <3>2. d0.epoch > d.epoch \/ (d = d0 /\ c = c0)
      BY <2>2, <3>1 DEF Acceptable
    <3> QED
      BY <1>1, <2>2, <2>4, <3>2
  <2>5. CASE d.player = d0.player /\ scene.latest[d.player].epoch > d.epoch
    <3>1. PICK old \in Datas \cup {NoData} : old = scene.latest[d0.player]
      BY <1>1, <2>5, OrderTypes
    <3>2. old # NoData
      BY <1>1, <2>5, <3>1 DEF NoData, SceneIndex!NoData
    <3>3. d0.epoch > old.epoch \/ old = d0
      BY <2>2, <3>1, <3>2 DEF Acceptable
    <3>4. d0.epoch \in Nat /\ old.epoch \in Nat
      BY <3>1, <3>2, DataFacts
    <3> QED
      BY <1>1, <2>2, <2>5, <3>1, <3>3, <3>4
  <2> QED
    BY <2>3, <2>4, <2>5
<1>5. CASE SceneUnbinds(c0, m)
  <2>1. PICK d0 \in Datas : d0 = m.data
    BY <1>5 DEF SceneUnbinds
  <2>2. /\ wire[c0][1] = Frame("offline", d0, 0) /\ scene'.latest = scene.latest
        /\ \A k \in Channels : scene'.byConn[k] = IF k = c0 THEN scene.byConn[k] \ {d0} ELSE scene.byConn[k]
    BY <1>5, <2>1 DEF SceneUnbinds, Receives
  <2>3. /\ \A k \in DOMAIN wire[c0] : 1 < k => wire[c0][k].data # d0
        /\ ~Queued(c0, d0) /\ ~Held(d0)
    <3>1. 1 \in DOMAIN wire[c0]
      BY ReceiveFacts
    <3> QED
      BY <2>2, <3>1 DEF Ordered, EndedOnWire
  <2>4. ~Sent(c0, d0)'
    BY <2>3, ReceiveFacts DEF Sent
  <2>5. ~(c = c0 /\ d = d0)
    BY <2>3, <2>4
  <2> QED
    BY <2>2, <2>5
<1> QED
  BY <1>2, <1>3, <1>4, <1>5 DEF Receives

LEMMA ReceiveOrdered ==
    ASSUME Ordered, GatewayInv, GatewayInv', NEW c0 \in Channels, NEW m, Receives(c0, m)
    PROVE  Bracket'
<1>1. /\ chan' = chan /\ playerEpoch' = playerEpoch
      /\ \A c \in Channels : c # c0 => wire'[c] = wire[c]
      /\ Len(wire[c0]) \in Nat /\ DOMAIN wire[c0] = 1..Len(wire[c0]) /\ m = wire[c0][1]
      /\ DOMAIN wire'[c0] = 1..(Len(wire[c0]) - 1)
      /\ \A i \in DOMAIN wire'[c0] : wire'[c0][i] = wire[c0][i + 1] /\ i + 1 \in DOMAIN wire[c0]
  BY ReceiveFacts DEF Receives
<1>2. (OneCarrier /\ OneUse)'
  BY <1>1, EpochsStay, ReceiveNothingNew, CarriersKept
<1>3. ShownIsDeclared'
  <2> SUFFICES ASSUME NEW c \in Channels, NEW d \in Datas, chan[c] = "up", Shown(c, d)',
                      Holds(c, d)' \/ Queued(c, d)'
               PROVE  Declared(c, d)'
    BY <1>1 DEF ShownIsDeclared
  <2>1. Shown(c, d) /\ (Holds(c, d) \/ Queued(c, d)) /\ (Held(d) \/ Queued(c, d))
    BY ReceiveFacts DEF Chans, Held
  <2>2. Declared(c, d)
    BY <2>1 DEF Ordered, ShownIsDeclared
  <2>3. CASE d \in scene.byConn[c] \/ scene.latest[d.player].epoch > d.epoch
    BY <2>1, <2>3, DeclarationStays DEF Declared
  <2>4. ASSUME NEW i \in DOMAIN wire[c], wire[c][i] = Frame("online", d, 0) PROVE Declared(c, d)'
    <3>1. CASE c # c0
      BY <1>1, <2>4, <3>1 DEF Declared
    <3>2. CASE c = c0 /\ i = 1
      BY <1>1, <2>4, <3>2, OnlineDeclares DEF Declared
    <3>3. CASE c = c0 /\ i # 1
      <4>1. PICK k \in DOMAIN wire'[c0] : i = k + 1
        <5>1. i - 1 \in DOMAIN wire'[c0] /\ i = (i - 1) + 1
          BY <1>1, <2>4, <3>3
        <5> QED
          BY <5>1
      <4>2. wire'[c0][k] = Frame("online", d, 0)
        BY <1>1, <2>4, <3>3, <4>1
      <4> QED
        BY <3>3, <4>1, <4>2 DEF Declared
    <3> QED
      BY <3>1, <3>2, <3>3
  <2> QED
    BY <2>2, <2>3, <2>4 DEF Declared
<1>4. DeclaredFirst'
  <2> SUFFICES ASSUME NEW c \in Channels, NEW i \in DOMAIN wire'[c], wire'[c][i].kind = "business",
                      NEW d, d = wire'[c][i].data
               PROVE  \/ \E k \in 1..(i - 1) : wire'[c][k] = Frame("online", d, 0)
                      \/ d \in scene'.byConn[c]
                      \/ scene'.latest[d.player].epoch > d.epoch
    BY DEF DeclaredFirst, SceneIndex!Matches
  <2>1. d \in Datas /\ Sent(c, d)'
    <3>1. wire'[c][i] \in FrameType
      BY DEF GatewayInv, TypeOK
    <3>2. PICK f \in FrameType : f = wire'[c][i]
      BY <3>1
    <3>3. f.data \in Datas
      BY <3>2 DEF FrameType, EOF, Frame
    <3> QED
      BY <3>2, <3>3 DEF Sent
  <2>2. CASE d \in scene.byConn[c] \/ scene.latest[d.player].epoch > d.epoch
    BY <2>1, <2>2, DeclarationStays
  <2>3. CASE c # c0
    <3>1. \/ \E k \in 1..(i - 1) : wire[c][k] = Frame("online", d, 0)
          \/ d \in scene.byConn[c] \/ scene.latest[d.player].epoch > d.epoch
      BY <1>1, <2>3 DEF Ordered, DeclaredFirst, SceneIndex!Matches
    <3> QED
      BY <1>1, <2>2, <2>3, <3>1
  <2>4. CASE c = c0
    <3>1. i + 1 \in DOMAIN wire[c0] /\ wire[c0][i + 1] = wire'[c0][i] /\ i \in Nat
      BY <1>1, <2>4
    <3>2. \/ \E k \in 1..((i + 1) - 1) : wire[c0][k] = Frame("online", d, 0)
          \/ d \in scene.byConn[c] \/ scene.latest[d.player].epoch > d.epoch
      BY <2>4, <3>1 DEF Ordered, DeclaredFirst, SceneIndex!Matches
    <3>3. ASSUME NEW k \in 1..((i + 1) - 1), wire[c0][k] = Frame("online", d, 0)
          PROVE  \/ \E j \in 1..(i - 1) : wire'[c0][j] = Frame("online", d, 0)
                 \/ d \in scene'.byConn[c0] \/ scene'.latest[d.player].epoch > d.epoch
      <4>1. CASE k = 1
        BY <1>1, <2>1, <3>3, <4>1, OnlineDeclares
      <4>2. CASE k # 1
        <5>1. k - 1 \in 1..(i - 1) /\ k - 1 \in DOMAIN wire'[c0] /\ (k - 1) + 1 = k
          <6>1. i \in DOMAIN wire'[c0] /\ i \in Nat /\ k \in 1..((i + 1) - 1)
            BY <2>4, <3>1, <3>3
          <6>2. k - 1 \in 1..(i - 1) /\ (k - 1) + 1 = k
            BY <4>2, <6>1
          <6>3. \A j \in 1..(i - 1) : j \in DOMAIN wire'[c0]
            BY <1>1, <6>1
          <6> QED
            BY <6>2, <6>3
        <5>2. wire'[c0][k - 1] = Frame("online", d, 0)
          BY <1>1, <3>3, <5>1
        <5> QED
          BY <5>1, <5>2
      <4> QED
        BY <4>1, <4>2
    <3> QED
      BY <2>2, <2>4, <3>2, <3>3
  <2> QED
    BY <2>3, <2>4
<1> QED
  BY <1>2, <1>3, <1>4, ReceiveIndex, ReceiveEnded, ReceiveGone DEF Bracket


-----------------------------------------------------------------------------
(* The client side: sessions and threads.                                  *)

\* A session, or a thread's copy, is a binding only if it was.
SessLess(t) ==
    conn'[t] \in Open /\ sess'[t].authed =>
      /\ conn[t] \in Open /\ sess[t].authed
      /\ sess'[t].player = sess[t].player /\ sess'[t].epoch = sess[t].epoch
      /\ sess'[t].chan = sess[t].chan

JobLess(t) ==
    job'[t].at \in Carrying =>
      \/ job[t].at \in Carrying /\ job'[t].copy = job[t].copy
      \/ conn[t] \in Open /\ job'[t].copy = sess[t]

ShownLess(t) ==
    sess'[t].online /\ sess'[t].authed =>
      /\ sess[t].online /\ sess[t].authed
      /\ sess'[t].player = sess[t].player /\ sess'[t].epoch = sess[t].epoch
      /\ sess'[t].chan = sess[t].chan

LEMMA Lessens ==
    ASSUME NEW d \in Datas, NEW t \in Sessions, t = d.clientSession,
           SessLess(t), JobLess(t), ShownLess(t)
    PROVE  /\ \A c \in Chans : Holds(c, d)' => Holds(c, d)
           /\ \A c \in Channels : Shown(c, d)' => Shown(c, d)
<1>1. \A c \in Chans : Holds(c, d)' => Holds(c, d)
  BY DEF Holds, Has, SessLess, JobLess
<1>2. \A c \in Channels : Shown(c, d)' => Shown(c, d)
  BY DEF Shown, Has, ShownLess
<1> QED
  BY <1>1, <1>2

\* A session is kept, demoted or erased.
Lesser(t) ==
    /\ conn'[t] \in Open => conn[t] \in Open
    /\ sess'[t].live => sess[t].live /\ sess'[t].dst = sess[t].dst
    /\ sess'[t].authed => /\ sess[t].authed
                          /\ sess'[t].player = sess[t].player /\ sess'[t].epoch = sess[t].epoch
                          /\ sess'[t].chan = sess[t].chan
    /\ sess'[t].online => sess[t].online /\ sess'[t].chan = sess[t].chan
    /\ sess'[t].chan # 0 => sess'[t].chan = sess[t].chan

\* A thread goes on as it was, or with a copy of its session, or with nothing.
JobKept(t) ==
    job'[t].at \in Carrying =>
      \/ job'[t] = job[t]
      \/ conn[t] \in Open /\ job'[t].copy = sess[t] /\ job'[t].at # "moved"

LEMMA CopyCurrentKept ==
    ASSUME Ordered, NEW t \in Sessions, Lesser(t), JobKept(t)
    PROVE  LET j == job'[t] IN
           /\ j.at = "setDst" /\ sess'[t].live => j.copy.dst = sess'[t].dst
           /\ j.at = "moved" /\ j.arg # j.copy.dst /\ j.copy.authed /\ sess'[t].authed =>
                ~(sess'[t].player = j.copy.player /\ sess'[t].epoch = j.copy.epoch)
<1>1. LET j == job[t] IN
      /\ j.at = "setDst" /\ sess[t].live => j.copy.dst = sess[t].dst
      /\ j.at = "moved" /\ j.arg # j.copy.dst /\ j.copy.authed /\ sess[t].authed =>
           ~(sess[t].player = j.copy.player /\ sess[t].epoch = j.copy.epoch)
  BY DEF Ordered, CopyCurrent
<1>2. CASE job'[t].at \notin Carrying
  BY <1>2 DEF Carrying
<1>3. CASE job'[t] = job[t]
  BY <1>1, <1>3 DEF Lesser
<1>4. CASE job'[t].copy = sess[t] /\ job'[t].at # "moved"
  BY <1>4 DEF Lesser
<1> QED
  BY <1>2, <1>3, <1>4 DEF JobKept

\* A step after which no session and no thread has anything new.
LEMMA LesserOrdered ==
    ASSUME Ordered, GatewayInv, GatewayInv', QuietScene, EpochsRise,
           \A t \in Sessions : Lesser(t) /\ JobKept(t)
    PROVE  Ordered'
<1>1. \A t \in Sessions : SessLess(t) /\ JobLess(t) /\ ShownLess(t)
  BY DEF Lesser, JobKept, SessLess, JobLess, ShownLess
<1>2. Shrinks /\ ShownKept
  BY <1>1, Lessens, DataFacts DEF Shrinks, ShownKept
<1>3. Bracket'
  BY <1>2, QuietShrinks
<1>4. CopyCurrent'
  BY CopyCurrentKept DEF CopyCurrent
<1>5. BoundToChannel'
  <2>1. \A t \in Sessions : /\ sess[t].online => sess[t].chan # 0
                            /\ sess[t].chan # 0 => chan[sess[t].chan] # "new"
    BY DEF Ordered, BoundToChannel
  <2> QED
    BY <2>1 DEF Lesser, BoundToChannel, QuietScene
<1> QED
  BY <1>3, <1>4, <1>5 DEF Bracket, Ordered

\* A thread hands something over and has nothing left in hand.
LEMMA HandingOrdered ==
    ASSUME Ordered, GatewayInv, GatewayInv', NEW s \in Sessions, NEW c0 \in Channels, NEW d0 \in Datas,
           NEW kind, NEW seq, Frame(kind, d0, seq) \in Submissions, Queue(c0, kind, d0, seq),
           chan[c0] = "up", Holds(c0, d0), d0.clientSession = s,
           kind = "offline" => ~(conn[s] \in Open /\ sess[s].authed /\ sess[s].player = d0.player
                                   /\ sess[s].epoch = d0.epoch),
           UNCHANGED <<chan, wire, scene, sess, conn, playerEpoch>>,
           \A t \in Sessions : job'[t] = job[t] \/ (t = s /\ job'[t].at \notin Carrying),
           job'[s].at \notin Carrying
    PROVE  Ordered'
<1>1. \A t \in Sessions : Lesser(t) /\ JobKept(t)
  BY DEF Lesser, JobKept
<1>2. \A t \in Sessions : SessLess(t) /\ JobLess(t) /\ ShownLess(t)
  BY <1>1 DEF Lesser, JobKept, SessLess, JobLess, ShownLess
<1>3. Shrinks
  BY <1>2, Lessens, DataFacts DEF Shrinks
<1>4. kind = "offline" => ~Held(d0)'
  BY DEF Held, Holds, Has
<1>5. Hands(c0, kind, d0, seq)
  BY <1>3, <1>4 DEF Hands
<1>6. Bracket'
  BY <1>5, HandsOrdered
<1>7. CopyCurrent'
  BY <1>1, CopyCurrentKept DEF CopyCurrent
<1>8. BoundToChannel'
  BY DEF Ordered, BoundToChannel
<1> QED
  BY <1>6, <1>7, <1>8 DEF Bracket, Ordered


\* NotifySceneBinding with the copy a thread works on, as the last thing the
\* thread does with it; an OFFLINE is for a binding the session has no more.
LEMMA NotifyOrdered ==
    ASSUME Ordered, GatewayInv, GatewayInv', NEW s \in Sessions, NEW copy \in SessionType,
           NEW kind \in {"online", "offline"}, Notify(s, copy, kind),
           \/ conn[s] \in Open /\ copy = sess[s]
           \/ job[s].at \in Carrying /\ copy = job[s].copy,
           copy.authed => copy.player \in Players /\ copy.epoch >= 1,
           kind = "offline" /\ copy.authed =>
             ~(conn[s] \in Open /\ sess[s].authed /\ sess[s].player = copy.player
                 /\ sess[s].epoch = copy.epoch),
           UNCHANGED <<chan, wire, scene, sess, conn, playerEpoch>>,
           \A t \in Sessions : job'[t] = job[t] \/ (t = s /\ job'[t].at \notin Carrying),
           job'[s].at \notin Carrying
    PROVE  Ordered'
<1>1. CASE UNCHANGED loop
  <2>1. \A t \in Sessions : Lesser(t) /\ JobKept(t)
    BY DEF Lesser, JobKept
  <2>2. EpochsRise /\ QuietScene
    BY <1>1, EpochsStay DEF QuietScene
  <2> QED
    BY <2>1, <2>2, LesserOrdered
<1>2. CASE /\ copy.authed /\ copy.chan # 0 /\ chan[copy.chan] = "up"
           /\ Queue(copy.chan, kind, Data(s, copy.player, copy.epoch), 0)
  <2>1. copy.chan \in Channels /\ copy.epoch \in 1..EpochLimit
    BY <1>2, ConstantFacts DEF SessionType
  <2>2. PICK d \in Datas : /\ d = Data(s, copy.player, copy.epoch) /\ d.player = copy.player
                           /\ d.epoch = copy.epoch /\ d.clientSession = s
    BY <1>2, <2>1 DEF Data, Datas
  <2>3. Frame(kind, d, 0) \in Submissions
    BY ConstantFacts DEF Frame, Submissions
  <2>4. Holds(copy.chan, d)
    BY <1>2, <2>2 DEF Holds, Has
  <2> QED
    BY <1>2, <2>1, <2>2, <2>3, <2>4, HandingOrdered
<1> QED
  BY <1>1, <1>2 DEF Notify

\* The facts about a session and its thread that the notifications rest on.
LEMMA ThreadFacts ==
    ASSUME GatewayInv, NEW s \in Sessions
    PROVE  /\ sess[s] \in SessionType /\ job[s].copy \in SessionType
           /\ sess[s].authed => sess[s].player \in Players /\ sess[s].epoch >= 1
           /\ job[s].copy.authed => job[s].copy.player \in Players /\ job[s].copy.epoch >= 1
           /\ job[s].at \in RequestSteps => conn[s] \in Open
           /\ job[s].at \in CloseSteps => conn[s] = "closed"
BY DEF GatewayInv, TypeOK, Jobs, EpochIsNewest, CopiesValid, CopyValid, HandlersOpen, Open

LEMMA AuthNotifyOrdered ==
    ASSUME Ordered, GatewayInv, GatewayInv', NEW s \in Sessions, AuthNotify(s)
    PROVE  Ordered'
<1>1. /\ job[s].at = "notify"
      /\ Notify(s, sess[s], "online") \/ loop' = loop
      /\ UNCHANGED <<chan, wire, scene, sess, conn, playerEpoch>>
  BY DEF AuthNotify, table
<1>2. (\A t \in Sessions : job'[t] = job[t] \/ (t = s /\ job'[t].at \notin Carrying))
      /\ job'[s].at \notin Carrying
  BY DoneFacts DEF AuthNotify, GatewayInv, Idle, Carrying
<1>3. conn[s] \in Open
  BY <1>1, ThreadFacts DEF RequestSteps
<1>4. CASE loop' = loop
  <2>1. \A t \in Sessions : Lesser(t) /\ JobKept(t)
    BY <1>1, <1>2 DEF Lesser, JobKept
  <2>2. EpochsRise /\ QuietScene
    BY <1>1, <1>4, EpochsStay DEF QuietScene
  <2> QED
    BY <2>1, <2>2, LesserOrdered
<1>5. CASE Notify(s, sess[s], "online")
  BY <1>1, <1>2, <1>3, <1>5, ThreadFacts, NotifyOrdered
<1> QED
  BY <1>1, <1>4, <1>5

LEMMA BindServiceNotifyOrdered ==
    ASSUME Ordered, GatewayInv, GatewayInv', NEW s \in Sessions, BindServiceNotify(s)
    PROVE  Ordered'
<1>1. /\ job[s].at = "moved"
      /\ \/ job[s].arg # job[s].copy.dst /\ Notify(s, job[s].copy, "offline")
         \/ Notify(s, sess[s], "online")
         \/ loop' = loop
      /\ UNCHANGED <<chan, wire, scene, sess, conn, playerEpoch>>
  BY DEF BindServiceNotify, table
<1>2. (\A t \in Sessions : job'[t] = job[t] \/ (t = s /\ job'[t].at \notin Carrying))
      /\ job'[s].at \notin Carrying
  BY DoneFacts DEF BindServiceNotify, GatewayInv, Idle, Carrying
<1>3. conn[s] \in Open /\ job[s].at \in Carrying
  BY <1>1, ThreadFacts DEF RequestSteps, Carrying
<1>4. CASE loop' = loop
  <2>1. \A t \in Sessions : Lesser(t) /\ JobKept(t)
    BY <1>1, <1>2 DEF Lesser, JobKept
  <2>2. EpochsRise /\ QuietScene
    BY <1>1, <1>4, EpochsStay DEF QuietScene
  <2> QED
    BY <2>1, <2>2, LesserOrdered
<1>5. CASE Notify(s, sess[s], "online")
  BY <1>1, <1>2, <1>3, <1>5, ThreadFacts, NotifyOrdered
<1>6. CASE job[s].arg # job[s].copy.dst /\ Notify(s, job[s].copy, "offline")
  <2>1. job[s].copy.authed =>
          ~(conn[s] \in Open /\ sess[s].authed /\ sess[s].player = job[s].copy.player
              /\ sess[s].epoch = job[s].copy.epoch)
    BY <1>1, <1>6 DEF Ordered, CopyCurrent
  <2> QED
    BY <1>1, <1>2, <1>3, <1>6, <2>1, ThreadFacts, NotifyOrdered
<1> QED
  BY <1>1, <1>4, <1>5, <1>6

LEMMA CloseNotifyOrdered ==
    ASSUME Ordered, GatewayInv, GatewayInv', NEW s \in Sessions, CloseNotify(s)
    PROVE  Ordered'
<1>1. /\ job[s].at = "closeNotify"
      /\ Notify(s, job[s].copy, "offline") \/ loop' = loop
      /\ UNCHANGED <<chan, wire, scene, sess, conn, playerEpoch>>
      /\ Continue(s, "closeErase", NoSession, Scene, 0)
  BY DEF CloseNotify, table
<1>2. (\A t \in Sessions : job'[t] = job[t] \/ (t = s /\ job'[t].at \notin Carrying))
      /\ job'[s].at \notin Carrying
  BY <1>1, OrderTypes DEF Continue, Carrying
<1>3. conn[s] \notin Open /\ job[s].at \in Carrying
  BY <1>1, ThreadFacts DEF CloseSteps, Carrying, Open
<1>4. CASE loop' = loop
  <2>1. \A t \in Sessions : Lesser(t) /\ JobKept(t)
    BY <1>1, <1>2 DEF Lesser, JobKept
  <2>2. EpochsRise /\ QuietScene
    BY <1>1, <1>4, EpochsStay DEF QuietScene
  <2> QED
    BY <2>1, <2>2, LesserOrdered
<1>5. CASE Notify(s, job[s].copy, "offline")
  BY <1>1, <1>2, <1>3, <1>5, ThreadFacts, NotifyOrdered
<1> QED
  BY <1>1, <1>4, <1>5


\* Where a thread is after a step, as far as what it holds goes.
LEMMA ContinueKept ==
    ASSUME GatewayInv, NEW s \in Sessions, NEW at, NEW copy, NEW arg, NEW old,
           Continue(s, at, copy, arg, old),
           \/ at \notin Carrying
           \/ conn[s] \in Open /\ copy = sess[s] /\ at # "moved"
    PROVE  \A t \in Sessions : JobKept(t)
<1>1. /\ \A t \in Sessions \ {s} : job'[t] = job[t]
      /\ job'[s].at = at /\ job'[s].copy = copy
  BY OrderTypes DEF Continue
<1> QED
  BY <1>1 DEF JobKept

LEMMA DoneKept ==
    ASSUME GatewayInv, NEW s \in Sessions, Done(s) PROVE \A t \in Sessions : JobKept(t)
<1>1. /\ \A t \in Sessions \ {s} : job'[t] = job[t]
      /\ job'[s].at = "idle"
  BY DoneFacts DEF GatewayInv
<1> QED
  BY <1>1 DEF JobKept, Carrying

\* A step of a thread that leaves the sessions and connections alone.
LEMMA ThreadOrdered ==
    ASSUME Ordered, GatewayInv, GatewayInv', QuietScene, UNCHANGED <<sess, conn, playerEpoch>>,
           \A t \in Sessions : JobKept(t)
    PROVE  Ordered'
<1>1. \A t \in Sessions : Lesser(t)
  BY DEF Lesser
<1> QED
  BY <1>1, EpochsStay, LesserOrdered

\* A session is erased, and the connection of another at most half closed.
LEMMA EraseOrdered ==
    ASSUME Ordered, GatewayInv, GatewayInv', QuietScene, NEW s \in Sessions, Erase(s),
           \A t \in Sessions : conn'[t] \in Open => conn[t] \in Open,
           \A t \in Sessions : JobKept(t)
    PROVE  Ordered'
<1>1. /\ sess'[s] = NoSession /\ playerEpoch' = playerEpoch
      /\ \A t \in Sessions \ {s} : sess'[t] = sess[t]
  BY EraseFacts DEF GatewayInv
<1>2. ~NoSession.live /\ ~NoSession.authed /\ ~NoSession.online /\ NoSession.chan = 0
  BY DEF NoSession
<1>3. \A t \in Sessions : Lesser(t)
  BY <1>1, <1>2 DEF Lesser
<1> QED
  BY <1>1, <1>3, EpochsStay, LesserOrdered

LEMMA KickCloseOrdered ==
    ASSUME Ordered, GatewayInv, GatewayInv', NEW s \in Sessions, KickClose(s)
    PROVE  Ordered'
<1>1. PICK old : old = job[s].old
  OBVIOUS
<1>2. old \in Sessions
  BY <1>1 DEF KickClose, GatewayInv, CopiesValid, CopyValid
<1>3. /\ Erase(old) /\ Continue(s, "notify", NoSession, Scene, 0) /\ QuietScene
      /\ conn' = conn \/ (conn[old] = "open" /\ conn' = [conn EXCEPT ![old] = "closing"])
  BY <1>1 DEF KickClose, backend, QuietScene
<1>4. \A t \in Sessions : conn'[t] \in Open => conn[t] \in Open
  BY <1>2, <1>3 DEF Open, GatewayInv, TypeOK
<1>5. \A t \in Sessions : JobKept(t)
  BY <1>3, ContinueKept DEF Carrying
<1> QED
  BY <1>2, <1>3, <1>4, <1>5, EraseOrdered

LEMMA CloseEraseOrdered ==
    ASSUME Ordered, GatewayInv, GatewayInv', NEW s \in Sessions, CloseErase(s)
    PROVE  Ordered'
<1>1. Erase(s) /\ Continue(s, "closeRoutes", NoSession, Scene, 0) /\ QuietScene /\ conn' = conn
  BY DEF CloseErase, backend, QuietScene
<1>2. \A t \in Sessions : JobKept(t)
  BY <1>1, ContinueKept DEF Carrying
<1> QED
  BY <1>1, <1>2, EraseOrdered

\* OnClientClosed begins: the thread holds what its session was.
LEMMA CloseOrdered ==
    ASSUME Ordered, GatewayInv, GatewayInv', NEW s \in Sessions, Close(s)
    PROVE  Ordered'
<1>1. /\ Continue(s, "closeNotify", sess[s], Scene, 0) /\ QuietScene
      /\ UNCHANGED <<sess, playerEpoch>>
      /\ conn[s] \in Open /\ conn' = [conn EXCEPT ![s] = "closed"]
  BY DEF Close, backend, table, QuietScene, Open
<1>2. \A t \in Sessions : JobKept(t)
  BY <1>1, ContinueKept
<1>3. \A t \in Sessions : conn'[t] \in Open => conn[t] \in Open
  BY <1>1 DEF Open, GatewayInv, TypeOK
<1>4. \A t \in Sessions : Lesser(t)
  BY <1>1, <1>3 DEF Lesser
<1> QED
  BY <1>1, <1>2, <1>4, EpochsStay, LesserOrdered

\* A frame of the client is begun: the thread holds what its session is.
LEMMA RequestOrdered ==
    ASSUME Ordered, GatewayInv, GatewayInv', NEW s \in Sessions, NEW service \in Services,
           BindService(s, service) \/ Business(s, service)
    PROVE  Ordered'
<1>1. /\ QuietScene /\ UNCHANGED <<sess, conn, playerEpoch>>
      /\ conn[s] \in Open /\ sess[s].authed
      /\ \E at \in {"setDst", "select", "forward"} : Continue(s, at, sess[s], service, 0)
  BY DEF BindService, Business, Ready, backend, table, QuietScene, Open
<1>2. \A t \in Sessions : JobKept(t)
  BY <1>1, ContinueKept
<1> QED
  BY <1>1, <1>2, ThreadOrdered

\* The steps that only end a request, or void routes.
LEMMA ReturnOrdered ==
    ASSUME Ordered, GatewayInv, GatewayInv', NEW s \in Sessions,
           KickRoutes(s) \/ Unavailable(s) \/ Refuse(s) \/ CloseRoutes(s)
    PROVE  Ordered'
<1>1. QuietScene /\ UNCHANGED <<sess, conn, playerEpoch>>
  BY DEF KickRoutes, Unavailable, Refuse, CloseRoutes, backend, table, QuietScene
<1>2. Done(s) \/ Continue(s, "kickClose", NoSession, Scene, job[s].old)
  BY DEF KickRoutes, Unavailable, Refuse, CloseRoutes
<1>3. \A t \in Sessions : JobKept(t)
  BY <1>2, ContinueKept, DoneKept DEF Carrying
<1> QED
  BY <1>1, <1>3, ThreadOrdered

\* A channel is chosen: the thread holds nothing until it reads the session again.
LEMMA SelectOrdered ==
    ASSUME Ordered, GatewayInv, GatewayInv', NEW s \in Sessions, NEW c \in Channels, Select(s, c)
    PROVE  Ordered'
<1>1. /\ QuietScene /\ UNCHANGED <<sess, conn, playerEpoch>>
      /\ Continue(s, "bind", [job[s].copy EXCEPT !.chan = c], Scene, 0)
  BY DEF Select, backend, table, QuietScene
<1>2. \A t \in Sessions : JobKept(t)
  BY <1>1, ContinueKept DEF Carrying
<1> QED
  BY <1>1, <1>2, ThreadOrdered

\* The session is read again: the thread holds what it is now.
LEMMA RereadOrdered ==
    ASSUME Ordered, GatewayInv, GatewayInv', NEW s \in Sessions, Reread(s)
    PROVE  Ordered'
<1>1. /\ QuietScene /\ UNCHANGED <<sess, conn, playerEpoch>> /\ job[s].at = "reread"
      /\ Done(s) \/ Continue(s, "forward", sess[s], Scene, 0)
  BY DEF Reread, backend, table, QuietScene
<1>2. conn[s] \in Open
  BY <1>1, ThreadFacts DEF RequestSteps
<1>3. \A t \in Sessions : JobKept(t)
  BY <1>1, <1>2, ContinueKept, DoneKept
<1> QED
  BY <1>1, <1>3, ThreadOrdered

\* A request that will be refused: the thread holds nothing any more.
LEMMA ForwardInvalidOrdered ==
    ASSUME Ordered, GatewayInv, GatewayInv', NEW s \in Sessions, ForwardInvalid(s)
    PROVE  Ordered'
<1>1. QuietScene /\ UNCHANGED <<sess, conn, playerEpoch>>
  BY DEF ForwardInvalid, AddRoute, table, QuietScene
<1>2. \A t \in Sessions : JobKept(t)
  BY RefusingFacts DEF JobKept, Carrying
<1> QED
  BY <1>1, <1>2, ThreadOrdered

\* A request is forwarded: through the loop of the channel its copy has, or
\* past the scene.
LEMMA ForwardOrdered ==
    ASSUME Ordered, GatewayInv, GatewayInv', NEW s \in Sessions, Forward(s)
    PROVE  Ordered'
<1>1. PICK copy \in SessionType : copy = job[s].copy
  BY OrderTypes
<1>2. /\ job[s].at = "forward" /\ Done(s) /\ copy.epoch >= 1
      /\ UNCHANGED <<chan, wire, scene, sess, conn, playerEpoch>>
      /\ copy.player # 0 => copy.authed
  BY <1>1 DEF Forward, AddRoute, table, GatewayInv, CopiesValid, CopyValid
<1>3. CASE job[s].arg = Scene
  <2>1. /\ copy.chan # 0 /\ chan[copy.chan] = "up" /\ copy.player \in Players /\ copy.authed
        /\ Queue(copy.chan, "online", Data(s, copy.player, copy.epoch), nextSeq)
    BY <1>1, <1>2, <1>3 DEF Forward, AddRoute, CarriesPlayer, SessionType
  <2>2. copy.chan \in Channels /\ copy.epoch \in 1..EpochLimit
    BY <1>2, <2>1, ConstantFacts DEF SessionType
  <2>3. PICK d \in Datas : /\ d = Data(s, copy.player, copy.epoch) /\ d.player = copy.player
                           /\ d.epoch = copy.epoch /\ d.clientSession = s
    BY <1>2, <2>1, <2>2 DEF Data, Datas
  <2>4. nextSeq \in 1..MaxSeq
    BY <1>2, ForwardingSeq
  <2>5. Frame("online", d, nextSeq) \in Submissions
    BY <2>4, ConstantFacts DEF Frame, Submissions
  <2>6. Holds(copy.chan, d)
    BY <1>1, <1>2, <2>1, <2>3 DEF Holds, Has, Carrying
  <2>7. (\A t \in Sessions : job'[t] = job[t] \/ (t = s /\ job'[t].at \notin Carrying))
        /\ job'[s].at \notin Carrying
    BY <1>2, DoneFacts DEF GatewayInv, Carrying
  <2> QED
    BY <1>2, <2>1, <2>2, <2>3, <2>5, <2>6, <2>7, HandingOrdered
<1>4. CASE job[s].arg # Scene
  <2>1. QuietScene
    BY <1>4 DEF Forward, AddRoute, QuietScene
  <2>2. \A t \in Sessions : JobKept(t)
    BY <1>2, DoneKept
  <2> QED
    BY <1>2, <2>1, <2>2, ThreadOrdered
<1> QED
  BY <1>3, <1>4


-----------------------------------------------------------------------------
(* The steps after which a session is another binding.                     *)

\* A session s has none of its thread's old bindings, and is itself at most d0
\* on c0; the other sessions and threads are as they were, or less.
BecomesOnly(s, c0, d0) ==
    /\ \A t \in Sessions \ {s} : SessLess(t) /\ JobLess(t) /\ ShownLess(t)
    /\ ~sess'[s].online
    /\ sess'[s].authed => sess'[s].player = d0.player /\ sess'[s].epoch = d0.epoch /\ sess'[s].chan = c0
    /\ job'[s].at \in Carrying =>
         \/ job[s].at \in Carrying /\ job'[s].copy = job[s].copy
         \/ job'[s].copy = sess'[s]

LEMMA BecomesAdds ==
    ASSUME NEW s \in Sessions, NEW c0 \in Chans, NEW d0 \in Datas, d0.clientSession = s,
           BecomesOnly(s, c0, d0)
    PROVE  Adds(c0, d0) /\ ShownKept /\ \A c \in Chans : ~Shown(c, d0)'
<1>1. ASSUME NEW d \in Datas, d.clientSession # s
      PROVE  /\ \A c \in Chans : Holds(c, d)' => Holds(c, d)
             /\ \A c \in Channels : Shown(c, d)' => Shown(c, d)
  BY <1>1, DataFacts, Lessens DEF BecomesOnly
<1>2. ASSUME NEW d \in Datas, d.clientSession = s, NEW c \in Chans, Holds(c, d)'
      PROVE  Holds(c, d) \/ (c = c0 /\ d = d0)
  <2>1. Has(sess'[s], c, d) \/ (job[s].at \in Carrying /\ Has(job[s].copy, c, d))
    BY <1>2 DEF Holds, BecomesOnly
  <2>2. CASE Has(sess'[s], c, d)
    BY <1>2, <2>2, DataFacts DEF Has, BecomesOnly
  <2>3. CASE job[s].at \in Carrying /\ Has(job[s].copy, c, d)
    BY <1>2, <2>3 DEF Holds
  <2> QED
    BY <2>1, <2>2, <2>3
<1>3. \A d \in Datas : d.clientSession = s => \A c \in Chans : ~Shown(c, d)'
  BY DEF Shown, BecomesOnly
<1> QED
  BY <1>1, <1>2, <1>3 DEF Adds, ShownKept, Chans

\* OnClientConnected: the new session is nobody's yet.
LEMMA ConnectOrdered ==
    ASSUME Ordered, GatewayInv, GatewayInv', Connect
    PROVE  Ordered'
<1>1. PICK n \in Sessions : n = nextSession
  BY DEF Connect
<1>2. /\ sess' = [sess EXCEPT ![n] = [NoSession EXCEPT !.live = TRUE]]
      /\ \A t \in Sessions \ {n} : conn'[t] = conn[t]
      /\ job' = job /\ playerEpoch' = playerEpoch /\ QuietScene
  BY <1>1 DEF Connect, QuietScene, backend, GatewayInv, TypeOK
<1>3. job[n].at \notin RequestSteps \cup CloseSteps
  <2>1. n \in Nat /\ n >= nextSession
    BY <1>1, ConstantFacts
  <2>2. conn[n] = "none"
    BY <2>1 DEF GatewayInv, HandlersOpen
  <2> QED
    BY <2>2 DEF GatewayInv, HandlersOpen
<1>4. job[n].at \notin Carrying
  BY <1>3 DEF RequestSteps, CloseSteps, Carrying
<1>5. /\ \A t \in Sessions \ {n} : sess'[t] = sess[t]
      /\ ~sess'[n].authed /\ ~sess'[n].online /\ sess'[n].chan = 0
  BY <1>2, OrderTypes DEF NoSession
<1>6. \A t \in Sessions : SessLess(t) /\ JobLess(t) /\ ShownLess(t)
  BY <1>2, <1>4, <1>5 DEF SessLess, JobLess, ShownLess
<1>7. Bracket'
  <2>1. Shrinks /\ ShownKept
    BY <1>6, Lessens, DataFacts DEF Shrinks, ShownKept
  <2> QED
    BY <1>2, <2>1, EpochsStay, QuietShrinks
<1>8. CopyCurrent'
  BY <1>2, <1>4, <1>5 DEF Ordered, CopyCurrent, Carrying
<1>9. BoundToChannel'
  BY <1>2, <1>5 DEF Ordered, BoundToChannel, QuietScene
<1> QED
  BY <1>7, <1>8, <1>9 DEF Bracket, Ordered

\* Bind declares nothing.
LEMMA BindOnline ==
    ASSUME GatewayInv, NEW s \in Sessions, NEW p \in Players, Bind(s, p)
    PROVE  /\ ~sess'[s].online
           /\ \A t \in Sessions \ {s} : sess'[t].online <=> sess[t].online
           /\ playerEpoch' = [playerEpoch EXCEPT ![p] = playerEpoch[p] + 1]
<1>1. PICK e : e = playerEpoch[p] + 1
  OBVIOUS
<1>2. PICK old : old = index[p]
  OBVIOUS
<1>3. PICK demoted : demoted = IF old \in Sessions \ {s} /\ sess[old].live
                               THEN [sess EXCEPT ![old].authed = FALSE, ![old].player = 0] ELSE sess
  OBVIOUS
<1>4. /\ sess' = [demoted EXCEPT ![s].player = p, ![s].authed = TRUE, ![s].epoch = e, ![s].online = FALSE]
      /\ playerEpoch' = [playerEpoch EXCEPT ![p] = e]
  BY <1>1, <1>2, <1>3, OrderTypes DEF Bind
<1>5. DOMAIN demoted = Sessions /\ \A t \in Sessions : demoted[t].online <=> sess[t].online
  BY <1>3, OrderTypes DEF SessionType
<1>6. demoted \in [Sessions -> SessionType]
  <2>1. CASE old \in Sessions \ {s} /\ sess[old].live
    <3>1. sess \in [Sessions -> SessionType]
      BY OrderTypes
    <3>2. [sess[old] EXCEPT !.authed = FALSE, !.player = 0] \in SessionType
      BY <2>1, <3>1, SessionFields
    <3>3. demoted = [sess EXCEPT ![old] = [sess[old] EXCEPT !.authed = FALSE, !.player = 0]]
      BY <1>3, <2>1, <3>1, SessionFields
    <3> QED
      BY <2>1, <3>1, <3>2, <3>3
  <2> QED
    BY <1>3, <2>1, OrderTypes
<1>7. ~sess'[s].online /\ \A t \in Sessions \ {s} : sess'[t].online <=> demoted[t].online
  BY <1>4, <1>6 DEF SessionType
<1> QED
  BY <1>1, <1>4, <1>5, <1>7

\* kAuth: the session gets an epoch nobody has used.
LEMMA AuthOrdered ==
    ASSUME Ordered, GatewayInv, GatewayInv', NEW s \in Sessions, NEW p \in Players, Auth(s, p)
    PROVE  Ordered'
<1>1. /\ Bind(s, p) /\ playerEpoch[p] < EpochLimit /\ conn' = conn /\ QuietScene
      /\ TypeOK
  BY DEF Auth, QuietScene, backend, GatewayInv
<1>2. PICK e : e = playerEpoch[p] + 1
  OBVIOUS
<1>3. /\ playerEpoch[p] \in Nat /\ e \in 1..EpochLimit /\ e > playerEpoch[p]
      /\ playerEpoch' = [playerEpoch EXCEPT ![p] = e]
  BY <1>1, <1>2, BindOnline, ConstantFacts DEF TypeOK
<1>4. playerEpoch'[p] = e /\ EpochsRise
  BY <1>1, <1>3, ConstantFacts DEF TypeOK, EpochsRise
<1>5. PICK d0 \in Datas : d0.player = p /\ d0.clientSession = s /\ d0.epoch = e
  <2>1. Data(s, p, e) \in Datas
    BY <1>3 DEF Data, Datas
  <2> QED
    BY <2>1 DEF Data
<1>6. PICK c0 \in Chans : c0 = sess[s].chan
  BY OrderTypes DEF SessionType, Chans
<1>7. /\ sess'[s].player = p /\ sess'[s].epoch = e
      /\ \A t \in Sessions :
           /\ sess'[t].live <=> sess[t].live
           /\ sess'[t].chan = sess[t].chan /\ sess'[t].dst = sess[t].dst
           /\ t # s => /\ sess'[t].epoch = sess[t].epoch
                       /\ sess'[t].authed => sess[t].authed /\ sess'[t].player = sess[t].player
  BY <1>1, <1>2, BindFacts
<1>8. /\ ~sess'[s].online
      /\ \A t \in Sessions \ {s} : sess'[t].online <=> sess[t].online
  BY <1>1, BindOnline
<1>9. (\A t \in Sessions \ {s} : job'[t] = job[t]) /\ job'[s].at \in {"kick", "notify"}
  BY OrderTypes DEF Auth, Continue
<1>10. BecomesOnly(s, c0, d0)
  BY <1>1, <1>5, <1>6, <1>7, <1>8, <1>9 DEF BecomesOnly, SessLess, JobLess, ShownLess, Carrying
<1>11. Bracket'
  <2>1. Adds(c0, d0) /\ ShownKept /\ ~Shown(c0, d0)'
    BY <1>5, <1>10, BecomesAdds
  <2>2. d0.epoch > playerEpoch[d0.player] /\ d0.epoch <= playerEpoch'[d0.player]
    BY <1>3, <1>4, <1>5
  <2> QED
    BY <1>1, <1>4, <2>1, <2>2, QuietFresh
<1>12. CopyCurrent'
  BY <1>7, <1>9 DEF Ordered, CopyCurrent
<1>13. BoundToChannel'
  BY <1>1, <1>7, <1>8 DEF Ordered, BoundToChannel, QuietScene
<1> QED
  BY <1>11, <1>12, <1>13 DEF Bracket, Ordered


\* SetDstService: another service is another epoch, and no channel.
LEMMA SetDstMoves ==
    ASSUME GatewayInv, NEW s \in Sessions, NEW service \in Services, sess[s].dst # service,
           ~EpochsUsedUp(s, service), SetDstService(s, service)
    PROVE  /\ sess'[s].dst = service /\ sess'[s].chan = 0 /\ ~sess'[s].online
           /\ ~sess[s].authed => playerEpoch' = playerEpoch
           /\ sess[s].authed => LET p == sess[s].player IN
                /\ p \in Players /\ playerEpoch[p] # EpochLimit
                /\ playerEpoch' = [playerEpoch EXCEPT ![p] = playerEpoch[p] + 1]
                /\ sess'[s].epoch = playerEpoch[p] + 1
<1>1. sess \in [Sessions -> SessionType]
  BY OrderTypes
<1>2. PICK e : e = IF sess[s].authed THEN playerEpoch[sess[s].player] + 1 ELSE sess[s].epoch
  OBVIOUS
<1>3. sess' = [sess EXCEPT ![s].dst = service, ![s].chan = 0, ![s].online = FALSE, ![s].epoch = e]
  BY <1>2 DEF SetDstService
<1>4. sess'[s].dst = service /\ sess'[s].chan = 0 /\ ~sess'[s].online /\ sess'[s].epoch = e
  BY <1>1, <1>3 DEF SessionType
<1>5. sess[s].authed => sess[s].player \in Players /\ playerEpoch[sess[s].player] # EpochLimit
  BY DEF EpochsUsedUp, GatewayInv, EpochIsNewest
<1>6. playerEpoch' = IF sess[s].authed
                     THEN [playerEpoch EXCEPT ![sess[s].player] = playerEpoch[sess[s].player] + 1]
                     ELSE playerEpoch
  BY DEF SetDstService
<1> QED
  BY <1>2, <1>4, <1>5, <1>6

\* kBindService: a session that moves gets an epoch nobody has used, and the
\* thread still holds the binding it had.
LEMMA BindServiceSetOrdered ==
    ASSUME Ordered, GatewayInv, GatewayInv', NEW s \in Sessions, BindServiceSet(s)
    PROVE  Ordered'
<1>1. /\ job[s].at = "setDst" /\ conn' = conn /\ QuietScene /\ TypeOK /\ EpochIsNewest
      /\ job \in [Sessions -> Jobs]
  BY DEF BindServiceSet, QuietScene, backend, GatewayInv, TypeOK
<1>2. CASE UNCHANGED table /\ Done(s)
  <2>1. UNCHANGED <<sess, conn, playerEpoch>>
    BY <1>1, <1>2 DEF table
  <2> QED
    BY <1>1, <1>2, <2>1, DoneKept, ThreadOrdered
<1>3. CASE /\ sess[s].live /\ ~EpochsUsedUp(s, job[s].arg) /\ SetDstService(s, job[s].arg)
           /\ Continue(s, "moved", job[s].copy, job[s].arg, 0)
  <2>1. PICK service \in Services : service = job[s].arg
    BY <1>1 DEF Jobs
  <2>2. PICK copy \in SessionType : copy = job[s].copy
    BY <1>1 DEF Jobs
  <2>3. /\ \A t \in Sessions \ {s} : job'[t] = job[t]
        /\ job'[s].at = "moved" /\ job'[s].copy = copy /\ job'[s].arg = service
    BY <1>1, <1>3, <2>1, <2>2 DEF Continue
  <2>4. copy.dst = sess[s].dst
    BY <1>1, <1>3, <2>2 DEF Ordered, CopyCurrent
  <2>5. /\ \A t \in Sessions \ {s} : sess'[t] = sess[t]
        /\ sess'[s].live <=> sess[s].live
        /\ sess'[s].authed <=> sess[s].authed
        /\ sess'[s].player = sess[s].player
    BY <1>1, <1>3, <2>1, SetDstFacts
  <2>6. \A t \in Sessions \ {s} : SessLess(t) /\ JobLess(t) /\ ShownLess(t)
    BY <1>1, <2>3, <2>5 DEF SessLess, JobLess, ShownLess
  <2>7. JobLess(s)
    BY <1>1, <2>2, <2>3 DEF JobLess, Carrying
  <2>8. CASE sess[s].dst = service
    <3>1. sess' = sess /\ playerEpoch' = playerEpoch
      BY <1>3, <2>1, <2>8 DEF SetDstService
    <3>2. SessLess(s) /\ ShownLess(s)
      BY <1>1, <3>1 DEF SessLess, ShownLess
    <3>3. Shrinks /\ ShownKept
      BY <2>6, <2>7, <3>2, Lessens, DataFacts DEF Shrinks, ShownKept
    <3>4. Bracket'
      BY <1>1, <3>1, <3>3, EpochsStay, QuietShrinks
    <3>5. CopyCurrent'
      BY <2>3, <2>4, <2>8, <3>1 DEF Ordered, CopyCurrent
    <3>6. BoundToChannel'
      BY <1>1, <3>1 DEF Ordered, BoundToChannel, QuietScene
    <3> QED
      BY <3>4, <3>5, <3>6 DEF Bracket, Ordered
  <2>9. CASE sess[s].dst # service /\ ~sess[s].authed
    <3>1. sess'[s].chan = 0 /\ ~sess'[s].online /\ playerEpoch' = playerEpoch
      BY <1>3, <2>1, <2>9, SetDstMoves
    <3>2. SessLess(s) /\ ShownLess(s)
      BY <2>5, <2>9 DEF SessLess, ShownLess
    <3>3. Shrinks /\ ShownKept
      BY <2>6, <2>7, <3>2, Lessens, DataFacts DEF Shrinks, ShownKept
    <3>4. Bracket'
      BY <1>1, <3>1, <3>3, EpochsStay, QuietShrinks
    <3>5. CopyCurrent'
      BY <2>3, <2>5, <2>9 DEF Ordered, CopyCurrent
    <3>6. BoundToChannel'
      BY <1>1, <2>5, <3>1 DEF Ordered, BoundToChannel, QuietScene
    <3> QED
      BY <3>4, <3>5, <3>6 DEF Bracket, Ordered
  <2>10. CASE sess[s].dst # service /\ sess[s].authed
    <3>1. PICK p : p = sess[s].player
      OBVIOUS
    <3>2. PICK e : e = playerEpoch[p] + 1
      OBVIOUS
    <3>3. /\ p \in Players /\ playerEpoch[p] # EpochLimit
          /\ playerEpoch' = [playerEpoch EXCEPT ![p] = e]
          /\ sess'[s].epoch = e /\ sess'[s].chan = 0 /\ ~sess'[s].online
      BY <1>3, <2>1, <2>10, <3>1, <3>2, SetDstMoves
    <3>4. /\ playerEpoch[p] \in Nat /\ e \in 1..EpochLimit /\ e > playerEpoch[p]
          /\ playerEpoch'[p] = e /\ EpochsRise
      BY <1>1, <3>2, <3>3, ConstantFacts DEF TypeOK, EpochsRise
    <3>5. PICK d0 \in Datas : d0.player = p /\ d0.clientSession = s /\ d0.epoch = e
      <4>1. Data(s, p, e) \in Datas
        BY <3>3, <3>4 DEF Data, Datas
      <4> QED
        BY <4>1 DEF Data
    <3>6. 0 \in Chans
      BY DEF Chans
    <3>7. BecomesOnly(s, 0, d0)
      BY <1>1, <2>2, <2>3, <2>5, <2>6, <3>1, <3>3, <3>5 DEF BecomesOnly, Carrying
    <3>8. Bracket'
      <4>1. Adds(0, d0) /\ ShownKept /\ ~Shown(0, d0)'
        BY <3>5, <3>6, <3>7, BecomesAdds
      <4>2. d0.epoch > playerEpoch[d0.player] /\ d0.epoch <= playerEpoch'[d0.player]
        BY <3>4, <3>5
      <4> QED
        BY <1>1, <3>4, <3>6, <4>1, <4>2, QuietFresh
    <3>9. copy.authed => ~(copy.player = p /\ copy.epoch = e)
      <4> SUFFICES ASSUME copy.authed, copy.player = p, copy.epoch = e PROVE FALSE
        OBVIOUS
      <4>1. Holds(copy.chan, d0) /\ copy.chan \in Chans
        BY <1>1, <2>2, <3>5 DEF Holds, Has, Carrying, SessionType, Chans
      <4>2. d0.epoch <= playerEpoch[p]
        BY <3>5, <4>1 DEF Ordered, OneUse, Known, On
      <4> QED
        BY <3>4, <3>5, <4>2
    <3>10. CopyCurrent'
      BY <2>3, <2>5, <3>1, <3>3, <3>9 DEF Ordered, CopyCurrent
    <3>11. BoundToChannel'
      BY <1>1, <2>5, <3>3 DEF Ordered, BoundToChannel, QuietScene
    <3> QED
      BY <3>8, <3>10, <3>11 DEF Bracket, Ordered
  <2> QED
    BY <2>8, <2>9, <2>10
<1> QED
  BY <1>2, <1>3 DEF BindServiceSet

\* The first scene request of a binding: its session gets a channel.
LEMMA BindSceneOrdered ==
    ASSUME Ordered, GatewayInv, GatewayInv', NEW s \in Sessions, BindScene(s)
    PROVE  Ordered'
<1> job[s].at = "bind"
  BY DEF BindScene
<1> PICK c \in Channels : c = job[s].copy.chan /\ chan[c] # "new"
  BY ChosenFacts
<1>1. /\ job[s].at = "bind" /\ conn' = conn /\ QuietScene /\ TypeOK
      /\ SetSceneBinding(s, c) /\ playerEpoch' = playerEpoch
      /\ Continue(s, "reread", NoSession, Scene, 0)
      /\ chan[c] # "new"
  BY DEF BindScene, QuietScene, backend, GatewayInv, SetSceneBinding
<1>2. conn[s] \in Open /\ sess[s].chan = 0
  BY <1>1, ThreadFacts DEF RequestSteps, GatewayInv, CopiesValid, CopyValid
<1>3. CASE sess' = sess
  <2>1. \A t \in Sessions : JobKept(t)
    BY <1>1, ContinueKept DEF Carrying
  <2> QED
    BY <1>1, <1>3, <2>1, ThreadOrdered
<1>4. CASE sess[s].live /\ sess[s].authed /\ sess' = [sess EXCEPT ![s].chan = c]
  <2>1. /\ \A t \in Sessions \ {s} : sess'[t] = sess[t]
        /\ sess'[s].live /\ sess'[s].authed /\ sess'[s].chan = c
        /\ sess'[s].player = sess[s].player /\ sess'[s].epoch = sess[s].epoch
        /\ sess'[s].online <=> sess[s].online
    BY <1>4, OrderTypes DEF SessionType
  <2>2. /\ \A t \in Sessions \ {s} : job'[t] = job[t]
        /\ job'[s].at = "reread"
    BY <1>1, OrderTypes DEF Continue
  <2>3. ~sess[s].online
    BY <1>2 DEF Ordered, BoundToChannel
  <2>4. PICK d0 \in Datas : /\ d0.player = sess[s].player /\ d0.clientSession = s
                            /\ d0.epoch = sess[s].epoch
    <3>1. sess[s].player \in Players /\ sess[s].epoch \in 1..EpochLimit
      BY <1>4, ThreadFacts, ConstantFacts DEF SessionType
    <3>2. Data(s, sess[s].player, sess[s].epoch) \in Datas
      BY <3>1 DEF Data, Datas
    <3> QED
      BY <3>2 DEF Data
  <2>5. Holds(0, d0)
    BY <1>2, <1>4, <2>4 DEF Holds, Has
  <2>6. ~Holds(0, d0)'
    BY <2>1, <2>2, <2>4, ConstantFacts DEF Holds, Has, Carrying
  <2>7. BecomesOnly(s, c, d0)
    BY <1>1, <2>1, <2>2, <2>3, <2>4 DEF BecomesOnly, SessLess, JobLess, ShownLess, Carrying
  <2>8. c \in Chans
    BY DEF Chans
  <2>9. Bracket'
    <3>1. Adds(c, d0) /\ ShownKept /\ ~Shown(c, d0)'
      BY <2>4, <2>7, <2>8, BecomesAdds
    <3> QED
      BY <1>1, <2>5, <2>6, <3>1, EpochsStay, QuietRebound
  <2>10. CopyCurrent'
    BY <2>1, <2>2 DEF Ordered, CopyCurrent
  <2>11. BoundToChannel'
    BY <1>1, <2>1, <2>3 DEF Ordered, BoundToChannel, QuietScene
  <2> QED
    BY <2>9, <2>10, <2>11 DEF Bracket, Ordered
<1> QED
  BY <1>1, <1>3, <1>4 DEF SetSceneBinding

-----------------------------------------------------------------------------
(* Every step keeps the order.                                             *)

LEMMA ClientStepOrdered ==
    ASSUME Ordered, GatewayInv, GatewayInv', NEW s \in Sessions, ClientStep(s)
    PROVE  Ordered'
BY AuthOrdered, RequestOrdered, CloseOrdered DEF ClientStep

LEMMA HandlerStepOrdered ==
    ASSUME Ordered, GatewayInv, GatewayInv', NEW s \in Sessions, HandlerStep(s)
    PROVE  Ordered'
BY ReturnOrdered, KickCloseOrdered, AuthNotifyOrdered, BindServiceSetOrdered,
   BindServiceNotifyOrdered, SelectOrdered, BindSceneOrdered, RereadOrdered, ForwardOrdered,
   ForwardInvalidOrdered, CloseNotifyOrdered, CloseEraseOrdered
   DEF HandlerStep

\* The channel side leaves the threads alone.
LEMMA ChannelStepOrdered ==
    ASSUME Ordered, GatewayInv, GatewayInv', NEW c \in Channels,
           ChannelUp(c) \/ ChannelDown(c) \/ Submit(c) \/ SceneReceive(c)
    PROVE  Ordered'
<1>1. CASE ChannelUp(c) \/ ChannelDown(c)
  <2>1. Bracket'
    BY <1>1, ChannelUpOrdered, ChannelDownOrdered
  <2>2. /\ sess' = sess /\ job' = job
        /\ \E v \in {"up", "down"} : chan' = [chan EXCEPT ![c] = v]
    BY <1>1 DEF ChannelUp, ChannelDown, table
  <2>3. CopyCurrent'
    BY <2>2 DEF Ordered, CopyCurrent
  <2>4. \A k \in Channels : chan[k] # "new" => chan'[k] # "new"
    BY <2>2, OrderTypes
  <2>5. BoundToChannel'
    BY <2>2, <2>4, OrderTypes DEF Ordered, BoundToChannel, SessionType
  <2> QED
    BY <2>1, <2>3, <2>5 DEF Bracket, Ordered
<1>2. CASE SceneReceive(c)
  <2>1. Bracket'
    BY <1>2, ReceiveReceives, ReceiveOrdered
  <2>2. sess' = sess /\ job' = job /\ chan' = chan
    BY <1>2 DEF SceneReceive, table
  <2>3. CopyCurrent' /\ BoundToChannel'
    BY <2>2 DEF Ordered, CopyCurrent, BoundToChannel
  <2> QED
    BY <2>1, <2>3 DEF Bracket, Ordered
<1>3. CASE Submit(c)
  <2>1. PICK item \in Submissions, declared \in BOOLEAN, f \in Seq(FrameType) :
               Submits(c, item, declared, f)
    BY <1>3, SubmitSubmits
  <2>2. Bracket'
    BY <2>1, SubmitOrdered
  <2>3. PICK s \in Sessions : s = item.data.clientSession
    <3>1. item.data \in Datas
      BY DEF Submissions
    <3> QED
      BY <3>1, DataFacts
  <2>4. /\ job' = job /\ chan' = chan
        /\ \/ sess' = sess
           \/ sess[s].chan = c /\ sess' = [sess EXCEPT ![s].online = TRUE]
    BY <2>1, <2>3 DEF Submits, Has
  <2>5. \A t \in Sessions :
          /\ sess'[t].live <=> sess[t].live
          /\ sess'[t].authed <=> sess[t].authed
          /\ sess'[t].player = sess[t].player /\ sess'[t].epoch = sess[t].epoch
          /\ sess'[t].chan = sess[t].chan /\ sess'[t].dst = sess[t].dst
          /\ sess'[t].online => sess[t].online \/ sess[t].chan = c
    <3>1. sess \in [Sessions -> SessionType]
      BY OrderTypes
    <3>2. CASE sess' = sess
      BY <3>2
    <3>3. CASE sess[s].chan = c /\ sess' = [sess EXCEPT ![s].online = TRUE]
      <4>1. \A t \in Sessions \ {s} : sess'[t] = sess[t]
        BY <3>1, <3>3
      <4>2. sess'[s] = [sess[s] EXCEPT !.online = TRUE]
        BY <3>1, <3>3
      <4>3. /\ sess'[s].live = sess[s].live /\ sess'[s].authed = sess[s].authed
            /\ sess'[s].player = sess[s].player /\ sess'[s].epoch = sess[s].epoch
            /\ sess'[s].chan = sess[s].chan /\ sess'[s].dst = sess[s].dst
        BY <3>1, <4>2, Zenon DEF SessionType
      <4> QED
        BY <3>3, <4>1, <4>3
    <3> QED
      BY <2>4, <3>2, <3>3
  <2>6. CopyCurrent'
    BY <2>4, <2>5 DEF Ordered, CopyCurrent
  <2>7. BoundToChannel'
    BY <2>4, <2>5, ConstantFacts DEF Ordered, BoundToChannel
  <2> QED
    BY <2>2, <2>6, <2>7 DEF Bracket, Ordered
<1> QED
  BY <1>1, <1>2, <1>3

LEMMA OrderedStep == Ordered /\ GatewayInv /\ GatewayInv' /\ [Next]_vars => Ordered'
<1> SUFFICES ASSUME Ordered, GatewayInv, GatewayInv', [Next]_vars PROVE Ordered'
  OBVIOUS
<1>1. ASSUME NEW r \in routes, Respond(r) \/ Expire(r) PROVE Ordered'
  <2>1. QuietScene /\ UNCHANGED <<sess, conn, playerEpoch>> /\ job' = job
    BY <1>1 DEF Respond, Expire, backend, table, QuietScene
  <2> QED
    BY <2>1, ThreadOrdered DEF JobKept
<1>2. CASE Quiescent \/ UNCHANGED vars
  <2>1. QuietScene /\ UNCHANGED <<sess, conn, playerEpoch>> /\ job' = job
    BY <1>2 DEF Quiescent, vars, backend, table, QuietScene
  <2> QED
    BY <2>1, ThreadOrdered DEF JobKept
<1> QED
  BY <1>1, <1>2, ConnectOrdered, ClientStepOrdered, HandlerStepOrdered, ChannelStepOrdered DEF Next

\* The scene sees the business of a binding between its ONLINE and its OFFLINE
\* and never ignores it for want of a declaration, although the frames of a
\* session are queued by its IO thread (NotifySceneBinding, HandleClientFrame,
\* OnClientClosed) while another thread may replace the session, and sent by
\* the event loop (QueueSceneSubmission, SubmitScene) to a scene that routes by
\* what it has read (GatewayClientIndex::Bind, Unbind).
THEOREM BracketedBindings == Spec => []BindingBracketed
<1>1. Init => GatewayInv /\ AnsweredOnce /\ Ordered
  BY InitInv, InitOrdered
<1>2. GatewayInv /\ AnsweredOnce /\ Ordered /\ [Next]_vars => (GatewayInv /\ AnsweredOnce /\ Ordered)'
  BY InvStep, OrderedStep
<1>3. GatewayInv /\ AnsweredOnce /\ Ordered => BindingBracketed
  BY OrderedIsBracketed
<1> QED
  BY <1>1, <1>2, <1>3, PTL DEF Spec


-----------------------------------------------------------------------------
(* No ghost, as long as no player has two logins.                          *)

\* No two clients log in as the same player, and none logs in again.
LoginsApart == ~Reauth /\ \A s, t \in Sessions : s # t => Logins[s] \cap Logins[t] = {}

SameBinding(a, b) ==
    /\ a.live = b.live /\ a.authed = b.authed /\ a.player = b.player /\ a.epoch = b.epoch
    /\ a.dst = b.dst /\ a.chan = b.chan

\* The steps at which a thread's copy is still what its session is ...
Agrees(j) ==
    \/ j.at \in {"setDst", "closeNotify"}
    \/ j.at = "moved" /\ j.arg = j.copy.dst
    \/ j.at = "forward" /\ j.copy.chan # 0

\* ... and those at which it is about to end the binding it has copied.
Ends(j) == j.at = "closeNotify" \/ (j.at = "moved" /\ j.arg # j.copy.dst)

\* Nobody replaces session s, and its thread works on what the session is.
Apart(s) ==
    /\ job[s].at \notin {"kick", "kickClose"}
    /\ sess[s].authed => sess[s].player \in Logins[s]
    /\ Agrees(job[s]) => SameBinding(job[s].copy, sess[s])
    /\ sess[s].chan # 0 => sess[s].dst = Scene
    /\ job[s].at # "bind" /\ job[s].copy.chan # 0 => job[s].copy.dst = Scene

IndexApart == \A p \in Players : index[p] # 0 => p \in Logins[index[p]]

\* Binding d of channel c has a session, or a thread that will end it.
Tended(c, d) ==
    LET s == d.clientSession IN
    \/ conn[s] \in Open /\ Has(sess[s], c, d)
    \/ Ends(job[s]) /\ Has(job[s].copy, c, d)

\* The OFFLINE of d is on its way.
Ending(c, d) ==
    \/ \E i \in DOMAIN loop[c] : loop[c][i] = Frame("offline", d, 0)
    \/ \E i \in DOMAIN wire[c] : wire[c][i] = Frame("offline", d, 0)

Attended ==
    \A c \in Channels : \A d \in Datas :
      chan[c] = "up" /\ (Queued(c, d) \/ Sent(c, d) \/ d \in scene.byConn[c]) =>
        Tended(c, d) \/ Ending(c, d)

\* A channel that is gone takes its bindings along.
ChannelEnds ==
    \A c \in Channels :
      /\ chan[c] = "new" => loop[c] = <<>> /\ wire[c] = <<>> /\ scene.byConn[c] = {}
      /\ chan[c] = "down" => \/ wire[c] = <<>> /\ scene.byConn[c] = {}
                             \/ \E i \in DOMAIN wire[c] : wire[c][i].kind = "eof"

NothingForgotten ==
    /\ \A s \in Sessions : Apart(s)
    /\ IndexApart
    /\ Attended
    /\ ChannelEnds

LEMMA NothingForgottenNoGhost ==
    ASSUME GatewayInv, Ordered, NothingForgotten PROVE NoGhost
<1> SUFFICES ASSUME Drained, NEW p \in Players, scene.route[p] # 0, NEW d, d = scene.latest[p]
             PROVE  /\ sess[d.clientSession].live
                    /\ sess[d.clientSession].player = p /\ sess[d.clientSession].epoch = d.epoch
  BY DEF NoGhost
<1>1. PICK c \in Channels : c = scene.route[p]
  BY OrderTypes
<1>2. d \in scene.byConn[c]
  BY <1>1 DEF Ordered, IndexAgrees
<1>3. d \in Datas
  BY <1>2, OrderTypes
<1>4. d.player = p /\ d.clientSession \in Sessions
  BY <1>3, DataFacts DEF Ordered, IndexAgrees
<1>5. loop[c] = <<>> /\ wire[c] = <<>> /\ job[d.clientSession] = Idle
  BY <1>4 DEF Drained
<1>6. chan[c] = "up"
  <2>1. ~\E i \in DOMAIN wire[c] : wire[c][i].kind = "eof"
    BY <1>5
  <2>2. chan[c] \notin {"new", "down"}
    BY <1>2, <2>1 DEF NothingForgotten, ChannelEnds
  <2>3. chan[c] \in {"new", "up", "down"}
    BY OrderTypes
  <2> QED
    BY <2>2, <2>3
<1>7. ~Ending(c, d)
  BY <1>5 DEF Ending
<1>8. Tended(c, d)
  BY <1>2, <1>3, <1>6, <1>7 DEF NothingForgotten, Attended
<1>9. Has(sess[d.clientSession], c, d)
  BY <1>5, <1>8 DEF Tended, Ends, Idle
<1> QED
  BY <1>4, <1>9 DEF Has, GatewayInv, OneSessionPerPlayer

LEMMA InitNothingForgotten == Init => NothingForgotten
<1> SUFFICES ASSUME Init PROVE NothingForgotten
  OBVIOUS
<1>1. /\ sess = [s \in Sessions |-> NoSession] /\ job = [s \in Sessions |-> Idle]
      /\ index = [p \in Players |-> 0]
      /\ loop = [c \in Channels |-> <<>>] /\ wire = [c \in Channels |-> <<>>]
      /\ chan = [c \in Channels |-> "new"]
      /\ scene.byConn = [c \in Channels |-> {}]
  BY DEF Init, SceneIndex!EmptyIndex
<1>2. /\ NoSession.authed = FALSE /\ NoSession.chan = 0 /\ Idle.at = "idle" /\ Idle.copy = NoSession
  BY DEF NoSession, Idle
<1>3. \A s \in Sessions : Apart(s)
  BY <1>1, <1>2 DEF Apart, Agrees
<1>4. IndexApart /\ Attended /\ ChannelEnds
  BY <1>1 DEF IndexApart, Attended, ChannelEnds
<1> QED
  BY <1>3, <1>4 DEF NothingForgotten

\* What was tended on a channel that is registered still is.
TendsOn == \A c \in Channels : \A d \in Datas : chan[c] = "up" /\ Tended(c, d) => Tended(c, d)'

\* A session keeps its binding or leaves it to its thread, and its thread does
\* not forget one it has to end.
Keeps(t) ==
    /\ conn[t] \in Open /\ sess[t].authed /\ sess[t].chan # 0 =>
         \/ conn'[t] \in Open /\ SameBinding(sess'[t], sess[t])
         \/ Ends(job'[t]) /\ SameBinding(job'[t].copy, sess[t])
    /\ Ends(job[t]) /\ job[t].copy.authed /\ job[t].copy.chan # 0 /\ chan[job[t].copy.chan] = "up" =>
         job'[t] = job[t]

LEMMA KeepsTended == ASSUME \A t \in Sessions : Keeps(t) PROVE TendsOn
<1> SUFFICES ASSUME NEW c \in Channels, NEW d \in Datas, chan[c] = "up", Tended(c, d)
             PROVE  Tended(c, d)'
  BY DEF TendsOn
<1>1. PICK t \in Sessions : t = d.clientSession
  BY DataFacts
<1>2. c # 0
  BY ConstantFacts
<1>3. CASE conn[t] \in Open /\ Has(sess[t], c, d)
  BY <1>1, <1>2, <1>3 DEF Keeps, Has, Tended, SameBinding
<1>4. CASE Ends(job[t]) /\ Has(job[t].copy, c, d)
  BY <1>1, <1>2, <1>4 DEF Keeps, Has, Tended
<1> QED
  BY <1>1, <1>3, <1>4 DEF Tended

\* A step of one session and its thread.
OnlyOf(s) == \A t \in Sessions \ {s} : job'[t] = job[t] /\ conn'[t] = conn[t] /\ sess'[t] = sess[t]

LEMMA OnlyOfApart ==
    ASSUME NothingForgotten, NEW s \in Sessions, OnlyOf(s), Apart(s)',
           \A p \in Players : index'[p] \in {index[p], 0} \/ (index'[p] = s /\ p \in Logins[s])
    PROVE  (\A t \in Sessions : Apart(t)') /\ IndexApart'
<1>1. ASSUME NEW t \in Sessions, t # s PROVE Apart(t)'
  <2>1. Apart(t) /\ job'[t] = job[t] /\ sess'[t] = sess[t]
    BY <1>1 DEF NothingForgotten, OnlyOf
  <2> QED
    BY <2>1 DEF Apart
<1>2. IndexApart'
  BY DEF NothingForgotten, IndexApart
<1> QED
  BY <1>1, <1>2

LEMMA OwnStep ==
    ASSUME NothingForgotten, NEW s \in Sessions, OnlyOf(s), Apart(s)', Keeps(s), QuietScene,
           \A p \in Players : index'[p] \in {index[p], 0} \/ (index'[p] = s /\ p \in Logins[s])
    PROVE  NothingForgotten'
<1>1. \A t \in Sessions : Keeps(t)
  BY DEF OnlyOf, Keeps, SameBinding
<1>2. TendsOn
  BY <1>1, KeepsTended
<1>3. Attended' /\ ChannelEnds'
  BY <1>2 DEF NothingForgotten, Attended, ChannelEnds, TendsOn, QuietScene, Queued, Sent, Ending
<1> QED
  BY <1>3, OnlyOfApart DEF NothingForgotten

\* A step that changes neither sessions nor threads nor the channels.
LEMMA NothingMoves ==
    ASSUME NothingForgotten, QuietScene, UNCHANGED <<sess, conn, job, index>>
    PROVE  NothingForgotten'
<1>1. \A t \in Sessions : Keeps(t)
  BY DEF Keeps, SameBinding
<1>2. TendsOn
  BY <1>1, KeepsTended
<1>3. Attended' /\ ChannelEnds'
  BY <1>2 DEF NothingForgotten, Attended, ChannelEnds, TendsOn, QuietScene, Queued, Sent, Ending
<1>4. \A t \in Sessions : Apart(t)'
  BY DEF NothingForgotten, Apart
<1> QED
  BY <1>3, <1>4 DEF NothingForgotten, IndexApart

\* A thread that returns.
LEMMA DoneApart ==
    ASSUME GatewayInv, NothingForgotten, NEW s \in Sessions, Done(s), SameBinding(sess'[s], sess[s])
    PROVE  Apart(s)' /\ ~Ends(job'[s]) /\ \A t \in Sessions \ {s} : job'[t] = job[t]
<1>1. job'[s] = Idle /\ \A t \in Sessions \ {s} : job'[t] = job[t]
  BY DoneFacts DEF GatewayInv
<1>2. Idle.at = "idle" /\ Idle.copy.chan = 0
  BY DEF Idle, NoSession
<1>3. Apart(s)
  BY DEF NothingForgotten
<1> QED
  BY <1>1, <1>2, <1>3 DEF Apart, Agrees, Ends, SameBinding


LEMMA ConnectForgetsNothing ==
    ASSUME GatewayInv, NothingForgotten, Connect PROVE NothingForgotten'
<1>1. PICK n \in Sessions : n = nextSession
  BY DEF Connect
<1>2. /\ sess' = [sess EXCEPT ![n] = [NoSession EXCEPT !.live = TRUE]]
      /\ \A t \in Sessions \ {n} : conn'[t] = conn[t]
      /\ job' = job /\ index' = index /\ QuietScene
  BY <1>1 DEF Connect, QuietScene, backend, GatewayInv, TypeOK
<1>3. conn[n] = "none" /\ job[n].at \notin RequestSteps \cup CloseSteps
  <2>1. n \in Nat /\ n >= nextSession
    BY <1>1, ConstantFacts
  <2>2. conn[n] = "none"
    BY <2>1 DEF GatewayInv, HandlersOpen
  <2> QED
    BY <2>2 DEF GatewayInv, HandlersOpen
<1>4. ~Agrees(job[n]) /\ ~Ends(job[n])
  BY <1>3 DEF RequestSteps, CloseSteps, Agrees, Ends
<1>5. /\ \A t \in Sessions \ {n} : sess'[t] = sess[t]
      /\ ~sess'[n].authed /\ sess'[n].chan = 0
  BY <1>2, OrderTypes DEF NoSession
<1>6. Apart(n)'
  BY <1>2, <1>4, <1>5 DEF NothingForgotten, Apart
<1>7. Keeps(n)
  BY <1>3, <1>4 DEF Keeps, Open
<1>8. OnlyOf(n)
  BY <1>2, <1>5 DEF OnlyOf
<1> QED
  BY <1>2, <1>6, <1>7, <1>8, OwnStep

\* kAuth replaces nobody.
LEMMA AuthForgetsNothing ==
    ASSUME LoginsApart, GatewayInv, NothingForgotten, NEW s \in Sessions, NEW p \in Players, Auth(s, p)
    PROVE  NothingForgotten'
<1>1. /\ index[p] \in Sessions \cup {0} /\ p \in Logins[s] /\ ~sess[s].authed
      /\ job[s] = Idle /\ conn' = conn /\ QuietScene /\ Bind(s, p)
  BY DEF Auth, Ready, LoginsApart, QuietScene, backend, GatewayInv, TypeOK
<1>2. index[p] \notin Sessions \ {s}
  <2> SUFFICES ASSUME NEW t \in Sessions \ {s}, t = index[p] PROVE FALSE
    OBVIOUS
  <2>1. p \in Logins[t]
    BY ConstantFacts DEF NothingForgotten, IndexApart
  <2> QED
    BY <1>1, <2>1 DEF LoginsApart
<1>3. Continue(s, "notify", NoSession, Scene, 0)
  BY <1>2 DEF Auth
<1>4. (\A t \in Sessions \ {s} : job'[t] = job[t]) /\ job'[s].at = "notify" /\ job'[s].copy = NoSession
  BY <1>3, OrderTypes DEF Continue
<1>5. PICK e : e = playerEpoch[p] + 1
  OBVIOUS
<1>6. /\ sess' = [sess EXCEPT ![s].player = p, ![s].authed = TRUE, ![s].epoch = e, ![s].online = FALSE]
      /\ index' = [index EXCEPT ![p] = s]
  BY <1>1, <1>2, <1>5 DEF Bind
<1>7. /\ \A t \in Sessions \ {s} : sess'[t] = sess[t]
      /\ sess'[s].player = p /\ sess'[s].chan = sess[s].chan /\ sess'[s].dst = sess[s].dst
  BY <1>6, OrderTypes DEF SessionType
<1>8. Apart(s)'
  <2>1. NoSession.chan = 0
    BY DEF NoSession
  <2>2. sess[s].chan # 0 => sess[s].dst = Scene
    BY DEF NothingForgotten, Apart
  <2> QED
    BY <1>1, <1>4, <1>7, <2>1, <2>2 DEF Apart, Agrees
<1>9. Keeps(s)
  BY <1>1 DEF Keeps, Ends, Idle
<1>10. \A q \in Players : index'[q] = index[q] \/ (index'[q] = s /\ q \in Logins[s])
  <2>1. index \in [Players -> Sessions \cup {0}]
    BY DEF GatewayInv, TypeOK
  <2> QED
    BY <1>1, <1>6, <2>1
<1>11. OnlyOf(s)
  BY <1>1, <1>4, <1>7 DEF OnlyOf
<1> QED
  BY <1>1, <1>8, <1>9, <1>10, <1>11, OwnStep

\* A step that only moves a thread that had nothing to end.
LEMMA ThreadForgetsNothing ==
    ASSUME NothingForgotten, NEW s \in Sessions, QuietScene, UNCHANGED <<sess, conn, index>>,
           \A t \in Sessions \ {s} : job'[t] = job[t], Apart(s)',
           \/ ~Ends(job[s])
           \/ ~job[s].copy.authed \/ job[s].copy.chan = 0 \/ chan[job[s].copy.chan] # "up"
    PROVE  NothingForgotten'
<1>1. OnlyOf(s)
  BY DEF OnlyOf
<1>2. Keeps(s)
  BY DEF Keeps, SameBinding
<1> QED
  BY <1>1, <1>2, OwnStep

LEMMA RequestForgetsNothing ==
    ASSUME GatewayInv, NothingForgotten, NEW s \in Sessions, NEW service \in Services,
           BindService(s, service) \/ Business(s, service)
    PROVE  NothingForgotten'
<1>1. /\ job[s] = Idle /\ QuietScene /\ UNCHANGED <<sess, conn, index>>
      /\ \E at \in {"setDst", "select", "forward"} : Continue(s, at, sess[s], service, 0)
  BY DEF BindService, Business, Ready, QuietScene, backend, table
<1>2. PICK at \in {"setDst", "select", "forward"} : Continue(s, at, sess[s], service, 0)
  BY <1>1
<1>3. (\A t \in Sessions \ {s} : job'[t] = job[t]) /\ job'[s].at = at /\ job'[s].copy = sess[s]
  BY <1>2, OrderTypes DEF Continue
<1>4. Apart(s)'
  BY <1>1, <1>3 DEF NothingForgotten, Apart, SameBinding
<1>5. ~Ends(job[s])
  BY <1>1 DEF Ends, Idle
<1> QED
  BY <1>1, <1>3, <1>4, <1>5, ThreadForgetsNothing

LEMMA ReturnForgetsNothing ==
    ASSUME GatewayInv, NothingForgotten, NEW s \in Sessions,
           KickRoutes(s) \/ KickClose(s) \/ Unavailable(s) \/ Refuse(s) \/ CloseRoutes(s)
    PROVE  NothingForgotten'
<1>1. job[s].at \notin {"kick", "kickClose"}
  BY DEF NothingForgotten, Apart
<1>2. /\ QuietScene /\ UNCHANGED <<sess, conn, index>> /\ Done(s)
      /\ job[s].at \in {"select", "forward", "refuse", "closeRoutes"}
  BY <1>1 DEF KickRoutes, KickClose, Unavailable, Refuse, CloseRoutes, QuietScene, backend, table
<1>3. Apart(s)' /\ \A t \in Sessions \ {s} : job'[t] = job[t]
  BY <1>2, DoneApart DEF SameBinding
<1>4. ~Ends(job[s])
  BY <1>2 DEF Ends
<1> QED
  BY <1>2, <1>3, <1>4, ThreadForgetsNothing

LEMMA BindServiceSetForgetsNothing ==
    ASSUME GatewayInv, NothingForgotten, NEW s \in Sessions, BindServiceSet(s)
    PROVE  NothingForgotten'
<1>1. /\ job[s].at = "setDst" /\ conn' = conn /\ QuietScene /\ TypeOK /\ EpochIsNewest
      /\ job \in [Sessions -> Jobs] /\ index' = index /\ ~Ends(job[s])
      /\ Apart(s) /\ SameBinding(job[s].copy, sess[s])
  BY DEF BindServiceSet, QuietScene, backend, table, SetDstService, GatewayInv, TypeOK, Ends,
         NothingForgotten, Apart, Agrees
<1>2. CASE UNCHANGED table /\ Done(s)
  <2>1. sess' = sess
    BY <1>2 DEF table
  <2>2. Apart(s)' /\ \A t \in Sessions \ {s} : job'[t] = job[t]
    BY <1>2, <2>1, DoneApart DEF SameBinding
  <2> QED
    BY <1>1, <2>1, <2>2, ThreadForgetsNothing
<1>3. CASE /\ ~EpochsUsedUp(s, job[s].arg) /\ SetDstService(s, job[s].arg)
           /\ Continue(s, "moved", job[s].copy, job[s].arg, 0)
  <2>1. PICK service \in Services : service = job[s].arg
    BY <1>1 DEF Jobs
  <2>2. /\ \A t \in Sessions \ {s} : job'[t] = job[t]
        /\ job'[s].at = "moved" /\ job'[s].copy = job[s].copy /\ job'[s].arg = service
    BY <1>1, <1>3, <2>1 DEF Continue
  <2>3. CASE sess[s].dst = service
    <3>1. sess' = sess
      BY <1>3, <2>1, <2>3 DEF SetDstService
    <3>2. Apart(s)'
      BY <1>1, <2>2, <3>1 DEF Apart
    <3> QED
      BY <1>1, <2>2, <3>1, <3>2, ThreadForgetsNothing
  <2>4. CASE sess[s].dst # service
    <3>1. /\ \A t \in Sessions \ {s} : sess'[t] = sess[t]
          /\ sess'[s].authed <=> sess[s].authed
          /\ sess'[s].player = sess[s].player
      BY <1>1, <1>3, <2>1, SetDstFacts
    <3>2. sess'[s].chan = 0
      BY <1>3, <2>1, <2>4, SetDstMoves
    <3>3. Ends(job'[s]) /\ ~Agrees(job'[s])
      BY <1>1, <2>2, <2>4 DEF Ends, Agrees, SameBinding
    <3>4. Apart(s)'
      BY <1>1, <2>2, <3>1, <3>2, <3>3 DEF Apart
    <3>5. Keeps(s)
      BY <1>1, <2>2, <3>3 DEF Keeps
    <3>6. OnlyOf(s)
      BY <1>1, <2>2, <3>1 DEF OnlyOf
    <3> QED
      BY <1>1, <3>4, <3>5, <3>6, OwnStep
  <2> QED
    BY <2>3, <2>4
<1> QED
  BY <1>2, <1>3 DEF BindServiceSet

\* A thread chooses a channel, or reads its session again.
LEMMA SelectForgetsNothing ==
    ASSUME GatewayInv, NothingForgotten, NEW s \in Sessions,
           Reread(s) \/ \E c \in Channels : Select(s, c)
    PROVE  NothingForgotten'
<1>1. /\ job[s].at \in {"select", "reread"} /\ QuietScene /\ UNCHANGED <<sess, conn, index>> /\ Apart(s)
  BY DEF Select, Reread, QuietScene, backend, table, NothingForgotten
<1>2. ~Ends(job[s])
  BY <1>1 DEF Ends
<1>3. CASE Done(s)
  BY <1>1, <1>2, <1>3, DoneApart, ThreadForgetsNothing DEF SameBinding
<1>4. ASSUME NEW at \in {"bind", "forward"}, NEW copy, Continue(s, at, copy, Scene, 0), at = "forward" => copy = sess[s]
      PROVE  NothingForgotten'
  <2>1. (\A t \in Sessions \ {s} : job'[t] = job[t]) /\ job'[s].at = at /\ job'[s].copy = copy
    BY <1>4, OrderTypes DEF Continue
  <2>2. Apart(s)'
    BY <1>1, <1>4, <2>1 DEF Apart, Agrees, SameBinding
  <2> QED
    BY <1>1, <1>2, <2>1, <2>2, ThreadForgetsNothing
<1>5. ASSUME NEW c \in Channels, Select(s, c) PROVE NothingForgotten'
  BY <1>4, <1>5 DEF Select
<1>6. CASE Reread(s)
  BY <1>3, <1>4, <1>6 DEF Reread
<1> QED
  BY <1>5, <1>6

\* A request that will be refused leaves nothing in hand.
LEMMA ForwardInvalidForgetsNothing ==
    ASSUME GatewayInv, NothingForgotten, NEW s \in Sessions, ForwardInvalid(s)
    PROVE  NothingForgotten'
<1>1. /\ job[s].at = "forward" /\ QuietScene /\ UNCHANGED <<sess, conn, index>> /\ Apart(s)
  BY DEF ForwardInvalid, AddRoute, table, QuietScene, NothingForgotten
<1>2. ~Ends(job[s])
  BY <1>1 DEF Ends
<1>3. /\ job'[s].at = "refuse" /\ job'[s].copy.chan = 0
      /\ \A t \in Sessions \ {s} : job'[t] = job[t]
  BY RefusingFacts
<1>4. Apart(s)'
  BY <1>1, <1>3 DEF Apart, Agrees
<1> QED
  BY <1>1, <1>2, <1>3, <1>4, ThreadForgetsNothing

\* The session gets its channel, and the thread has nothing in hand.
LEMMA BindSceneForgetsNothing ==
    ASSUME GatewayInv, NothingForgotten, NEW s \in Sessions, BindScene(s)
    PROVE  NothingForgotten'
<1> PICK c : c = job[s].copy.chan
  OBVIOUS
<1>1. /\ job[s].at = "bind" /\ conn' = conn /\ QuietScene /\ SetSceneBinding(s, c)
      /\ index' = index /\ ~Ends(job[s]) /\ Apart(s)
      /\ Continue(s, "reread", NoSession, Scene, 0)
  BY DEF BindScene, QuietScene, backend, SetSceneBinding, Ends, NothingForgotten
<1>2. sess[s].chan = 0
  BY <1>1 DEF GatewayInv, CopiesValid, CopyValid
<1>3. /\ \A t \in Sessions \ {s} : job'[t] = job[t]
      /\ job'[s].at = "reread" /\ job'[s].copy = NoSession
  BY <1>1, OrderTypes DEF Continue
<1>4. NoSession.chan = 0
  BY DEF NoSession
<1>5. CASE sess' = sess
  <2>1. Apart(s)'
    BY <1>1, <1>2, <1>3, <1>4, <1>5 DEF Apart, Agrees
  <2> QED
    BY <1>1, <1>3, <1>5, <2>1, ThreadForgetsNothing
<1>6. CASE sess[s].dst = Scene /\ sess' = [sess EXCEPT ![s].chan = c]
  <2>1. /\ \A t \in Sessions \ {s} : sess'[t] = sess[t]
        /\ sess'[s].dst = Scene /\ sess'[s].player = sess[s].player
        /\ sess'[s].authed = sess[s].authed
    BY <1>6, OrderTypes DEF SessionType
  <2>2. Apart(s)'
    BY <1>1, <1>3, <1>4, <2>1 DEF Apart, Agrees, SameBinding
  <2>3. Keeps(s)
    BY <1>1, <1>2 DEF Keeps
  <2>4. OnlyOf(s)
    BY <1>1, <1>3, <2>1 DEF OnlyOf
  <2> QED
    BY <1>1, <2>2, <2>3, <2>4, OwnStep
<1> QED
  BY <1>1, <1>5, <1>6 DEF SetSceneBinding

LEMMA CloseForgetsNothing ==
    ASSUME GatewayInv, NothingForgotten, NEW s \in Sessions, Close(s)
    PROVE  NothingForgotten'
<1>1. /\ job[s] = Idle /\ QuietScene /\ sess' = sess /\ index' = index
      /\ \A t \in Sessions \ {s} : job'[t] = job[t] /\ conn'[t] = conn[t]
      /\ job'[s].at = "closeNotify" /\ job'[s].copy = sess[s]
      /\ Apart(s)
  BY OrderTypes DEF Close, Continue, QuietScene, backend, table, GatewayInv, TypeOK, NothingForgotten
<1>2. Apart(s)'
  BY <1>1 DEF Apart, SameBinding
<1>3. Keeps(s)
  BY <1>1 DEF Keeps, Ends, Idle, SameBinding
<1>4. OnlyOf(s)
  BY <1>1 DEF OnlyOf
<1> QED
  BY <1>1, <1>2, <1>3, <1>4, OwnStep

LEMMA CloseEraseForgetsNothing ==
    ASSUME GatewayInv, NothingForgotten, NEW s \in Sessions, CloseErase(s)
    PROVE  NothingForgotten'
<1>1. /\ job[s].at = "closeErase" /\ Erase(s) /\ QuietScene /\ conn' = conn
      /\ \A t \in Sessions \ {s} : job'[t] = job[t]
      /\ job'[s].at = "closeRoutes" /\ job'[s].copy = NoSession
  BY OrderTypes DEF CloseErase, Continue, QuietScene, backend
<1>2. sess'[s] = NoSession /\ \A t \in Sessions \ {s} : sess'[t] = sess[t]
  BY <1>1, EraseFacts DEF GatewayInv
<1>3. \A p \in Players : index'[p] \in {index[p], 0}
  BY <1>1 DEF Erase
<1>4. conn[s] \notin Open
  BY <1>1, ThreadFacts DEF CloseSteps, Open
<1>5. NoSession.chan = 0 /\ ~NoSession.authed
  BY DEF NoSession
<1>6. Apart(s)'
  BY <1>1, <1>2, <1>5 DEF Apart, Agrees
<1>7. Keeps(s)
  BY <1>1, <1>4 DEF Keeps, Ends
<1>8. OnlyOf(s)
  BY <1>1, <1>2 DEF OnlyOf
<1> QED
  BY <1>1, <1>3, <1>6, <1>7, <1>8, OwnStep


\* A thread queues something for a binding that is tended, or its OFFLINE.
LEMMA QueueForgetsNothing ==
    ASSUME GatewayInv, NothingForgotten, NEW s \in Sessions, NEW c0 \in Channels, NEW d0 \in Datas,
           NEW kind, NEW seq, Frame(kind, d0, seq) \in Submissions, Queue(c0, kind, d0, seq),
           chan[c0] = "up", UNCHANGED <<chan, wire, scene, sess, conn, index>>,
           \A t \in Sessions \ {s} : job'[t] = job[t], Apart(s)',
           \A c \in Channels : \A d \in Datas : chan[c] = "up" /\ Tended(c, d) =>
             Tended(c, d)' \/ (kind = "offline" /\ c = c0 /\ d = d0),
           (kind = "offline" /\ seq = 0) \/ Tended(c0, d0)'
    PROVE  NothingForgotten'
<1>1. PICK f \in Submissions : /\ f = Frame(kind, d0, seq) /\ f.data = d0
                               /\ loop' = [loop EXCEPT ![c0] = Append(@, f)]
  BY DEF Queue, Frame
<1>2. /\ \A c \in Channels : c # c0 => loop'[c] = loop[c]
      /\ DOMAIN loop'[c0] = 1..(Len(loop[c0]) + 1) /\ DOMAIN loop[c0] = 1..Len(loop[c0])
      /\ Len(loop[c0]) \in Nat
      /\ \A i \in DOMAIN loop[c0] : loop'[c0][i] = loop[c0][i]
      /\ loop'[c0][Len(loop[c0]) + 1] = f
  BY <1>1, OrderTypes
<1>3. Attended'
  <2> SUFFICES ASSUME NEW c \in Channels, NEW d \in Datas, chan[c] = "up",
                      Queued(c, d)' \/ Sent(c, d) \/ d \in scene.byConn[c]
               PROVE  Tended(c, d)' \/ Ending(c, d)'
    BY DEF Attended, Sent
  <2>1. CASE c = c0 /\ d = d0
    <3>1. CASE kind = "offline" /\ seq = 0
      <4>1. Len(loop[c0]) + 1 \in DOMAIN loop'[c0] /\ loop'[c0][Len(loop[c0]) + 1] = Frame("offline", d0, 0)
        BY <1>1, <1>2, <3>1
      <4> QED
        BY <2>1, <4>1 DEF Ending
    <3> QED
      BY <2>1, <3>1
  <2>2. CASE ~(c = c0 /\ d = d0)
    <3>1. Queued(c, d)' => Queued(c, d)
      BY <1>1, <1>2, <2>2 DEF Queued
    <3>2. Tended(c, d) \/ Ending(c, d)
      BY <3>1 DEF NothingForgotten, Attended
    <3>3. CASE Ending(c, d)
      BY <1>2, <3>3 DEF Ending
    <3> QED
      BY <2>2, <3>2, <3>3
  <2> QED
    BY <2>1, <2>2
<1>4. ChannelEnds'
  <2>1. \A c \in Channels : chan[c] = "new" => loop'[c] = loop[c]
    BY <1>2
  <2> QED
    BY <2>1 DEF NothingForgotten, ChannelEnds
<1>5. (\A t \in Sessions : Apart(t)') /\ IndexApart'
  BY OnlyOfApart DEF OnlyOf
<1> QED
  BY <1>3, <1>4, <1>5 DEF NothingForgotten

\* NotifySceneBinding with the session as it is.
LEMMA OnlineForgetsNothing ==
    ASSUME GatewayInv, NothingForgotten, NEW s \in Sessions, Notify(s, sess[s], "online"),
           conn[s] \in Open, ~Ends(job[s]), UNCHANGED <<chan, wire, scene, sess, conn, index>>, Done(s)
    PROVE  NothingForgotten'
<1>1. Apart(s)' /\ \A t \in Sessions \ {s} : job'[t] = job[t]
  BY DoneApart DEF SameBinding
<1>2. CASE UNCHANGED loop
  BY <1>1, <1>2, ThreadForgetsNothing DEF QuietScene
<1>3. CASE /\ sess[s].authed /\ sess[s].chan # 0 /\ chan[sess[s].chan] = "up"
           /\ Queue(sess[s].chan, "online", Data(s, sess[s].player, sess[s].epoch), 0)
  <2>1. PICK c \in Channels : c = sess[s].chan
    BY <1>3, OrderTypes DEF SessionType
  <2>2. sess[s].player \in Players /\ sess[s].epoch \in 1..EpochLimit
    BY <1>3, ThreadFacts, ConstantFacts DEF SessionType
  <2>3. PICK d \in Datas : /\ d = Data(s, sess[s].player, sess[s].epoch) /\ d.player = sess[s].player
                           /\ d.epoch = sess[s].epoch /\ d.clientSession = s
    <3>1. Data(s, sess[s].player, sess[s].epoch) \in Datas
      BY <2>2 DEF Data, Datas
    <3> QED
      BY <3>1 DEF Data
  <2>4. Frame("online", d, 0) \in Submissions
    BY ConstantFacts DEF Frame, Submissions
  <2>5. TendsOn
    <3>1. \A t \in Sessions : Keeps(t)
      BY <1>1 DEF Keeps, SameBinding
    <3> QED
      BY <3>1, KeepsTended
  <2>6. Tended(c, d)'
    BY <1>3, <2>1, <2>3 DEF Tended, Has
  <2> QED
    BY <1>1, <1>3, <2>1, <2>3, <2>4, <2>5, <2>6, QueueForgetsNothing DEF TendsOn
<1> QED
  BY <1>2, <1>3 DEF Notify

\* NotifySceneBinding with a copy whose binding ends.
LEMMA OfflineForgetsNothing ==
    ASSUME GatewayInv, NothingForgotten, NEW s \in Sessions, NEW copy \in SessionType, copy = job[s].copy,
           Notify(s, copy, "offline"), Ends(job[s]),
           UNCHANGED <<chan, wire, scene, sess, conn, index>>,
           Apart(s)', \A t \in Sessions \ {s} : job'[t] = job[t]
    PROVE  NothingForgotten'
<1>1. copy.chan # 0 => copy.dst = Scene
  BY DEF NothingForgotten, Apart, Ends
<1>2. CASE UNCHANGED loop /\ (~copy.authed \/ copy.chan = 0 \/ chan[copy.chan] # "up")
  BY <1>2, ThreadForgetsNothing DEF QuietScene
<1>3. CASE /\ copy.authed /\ copy.chan # 0 /\ chan[copy.chan] = "up"
           /\ Queue(copy.chan, "offline", Data(s, copy.player, copy.epoch), 0)
  <2>1. PICK c \in Channels : c = copy.chan
    BY <1>3, OrderTypes DEF SessionType
  <2>2. copy.player \in Players /\ copy.epoch \in 1..EpochLimit
    BY <1>3, ThreadFacts, ConstantFacts DEF SessionType
  <2>3. PICK d \in Datas : /\ d = Data(s, copy.player, copy.epoch) /\ d.player = copy.player
                           /\ d.epoch = copy.epoch /\ d.clientSession = s
    <3>1. Data(s, copy.player, copy.epoch) \in Datas
      BY <2>2 DEF Data, Datas
    <3> QED
      BY <3>1 DEF Data
  <2>4. Frame("offline", d, 0) \in Submissions
    BY ConstantFacts DEF Frame, Submissions
  <2>5. ASSUME NEW k \in Channels, NEW b \in Datas, Tended(k, b), ~(k = c /\ b = d)
        PROVE  Tended(k, b)'
    <3>1. PICK t \in Sessions : t = b.clientSession
      BY DataFacts
    <3>2. CASE t # s
      BY <2>5, <3>1, <3>2 DEF Tended
    <3>3. CASE t = s /\ conn[s] \in Open /\ Has(sess[s], k, b)
      BY <3>1, <3>3 DEF Tended
    <3>4. CASE t = s /\ Has(copy, k, b)
      <4>1. k = c /\ b.player = d.player /\ b.epoch = d.epoch /\ b.clientSession = d.clientSession
        BY <2>1, <2>3, <3>1, <3>4 DEF Has
      <4>2. b = d
        BY <4>1, DataFacts
      <4> QED
        BY <2>5, <4>1, <4>2
    <3> QED
      BY <2>5, <3>1, <3>2, <3>3, <3>4 DEF Tended
  <2> QED
    BY <1>3, <2>1, <2>3, <2>4, <2>5, QueueForgetsNothing
<1> QED
  BY <1>1, <1>2, <1>3 DEF Notify

LEMMA NotifyForgetsNothing ==
    ASSUME GatewayInv, NothingForgotten, NEW s \in Sessions,
           AuthNotify(s) \/ BindServiceNotify(s) \/ CloseNotify(s)
    PROVE  NothingForgotten'
<1>1. UNCHANGED <<chan, wire, scene, sess, conn, index>> /\ job[s].copy \in SessionType
  BY OrderTypes DEF AuthNotify, BindServiceNotify, CloseNotify, table
<1>2. CASE AuthNotify(s)
  <2>1. /\ job[s].at = "notify" /\ Done(s) /\ ~Ends(job[s]) /\ conn[s] \in Open
        /\ Notify(s, sess[s], "online") \/ loop' = loop
    BY <1>2, ThreadFacts DEF AuthNotify, Ends, RequestSteps
  <2>2. Apart(s)' /\ \A t \in Sessions \ {s} : job'[t] = job[t]
    BY <1>1, <2>1, DoneApart DEF SameBinding
  <2> QED
    BY <1>1, <2>1, <2>2, OnlineForgetsNothing, ThreadForgetsNothing DEF QuietScene
<1>3. CASE BindServiceNotify(s)
  <2>1. job[s].at = "moved" /\ Done(s) /\ conn[s] \in Open
    BY <1>3, ThreadFacts DEF BindServiceNotify, RequestSteps
  <2>2. Apart(s)' /\ \A t \in Sessions \ {s} : job'[t] = job[t]
    BY <1>1, <2>1, DoneApart DEF SameBinding
  <2>3. CASE job[s].arg # job[s].copy.dst
    <3>1. Ends(job[s]) /\ Notify(s, job[s].copy, "offline")
      BY <1>3, <2>1, <2>3 DEF Ends, BindServiceNotify
    <3> QED
      BY <1>1, <2>2, <3>1, OfflineForgetsNothing
  <2>4. CASE job[s].arg = job[s].copy.dst
    <3>1. ~Ends(job[s]) /\ (Notify(s, sess[s], "online") \/ loop' = loop)
      BY <1>3, <2>1, <2>4 DEF Ends, BindServiceNotify
    <3> QED
      BY <1>1, <2>1, <2>2, <3>1, OnlineForgetsNothing, ThreadForgetsNothing DEF QuietScene
  <2> QED
    BY <2>3, <2>4
<1>4. CASE CloseNotify(s)
  <2>1. /\ job[s].at = "closeNotify" /\ Ends(job[s]) /\ Agrees(job[s])
        /\ (\A t \in Sessions \ {s} : job'[t] = job[t])
        /\ job'[s].at = "closeErase" /\ job'[s].copy = NoSession
        /\ (job[s].copy.live /\ Notify(s, job[s].copy, "offline")) \/ (~job[s].copy.live /\ loop' = loop)
    BY <1>4, OrderTypes DEF CloseNotify, Continue, Ends, Agrees
  <2>2. Apart(s)'
    <3>1. NoSession.chan = 0
      BY DEF NoSession
    <3> QED
      BY <1>1, <2>1, <3>1 DEF NothingForgotten, Apart, Agrees
  <2>3. CASE Notify(s, job[s].copy, "offline")
    BY <1>1, <2>1, <2>2, <2>3, OfflineForgetsNothing
  <2>4. CASE ~job[s].copy.live /\ loop' = loop
    <3>1. ~job[s].copy.authed
      BY <2>1, <2>4 DEF NothingForgotten, Apart, SameBinding, GatewayInv, OneSessionPerPlayer
    <3> QED
      BY <1>1, <2>1, <2>2, <2>4, <3>1, ThreadForgetsNothing DEF QuietScene
  <2> QED
    BY <2>1, <2>3, <2>4
<1> QED
  BY <1>2, <1>3, <1>4

LEMMA ForwardForgetsNothing ==
    ASSUME GatewayInv, NothingForgotten, NEW s \in Sessions, Forward(s)
    PROVE  NothingForgotten'
<1>1. /\ job[s].at = "forward" /\ Done(s) /\ ~Ends(job[s]) /\ conn[s] \in Open
      /\ UNCHANGED <<chan, wire, scene, sess, conn, index>>
  BY ThreadFacts DEF Forward, AddRoute, table, Ends, RequestSteps
<1>2. Apart(s)' /\ \A t \in Sessions \ {s} : job'[t] = job[t]
  BY <1>1, DoneApart DEF SameBinding
<1>3. CASE loop' = loop
  BY <1>1, <1>2, <1>3, ThreadForgetsNothing DEF QuietScene
<1>4. CASE job[s].arg = Scene
  <2>1. PICK copy \in SessionType : copy = job[s].copy
    BY OrderTypes
  <2>2. /\ copy.chan # 0 /\ chan[copy.chan] = "up" /\ copy.epoch >= 1 /\ copy.player \in Players
        /\ Queue(copy.chan, "online", Data(s, copy.player, copy.epoch), nextSeq)
    BY <1>1, <1>4, <2>1 DEF Forward, AddRoute, CarriesPlayer, SessionType, GatewayInv, CopiesValid, CopyValid
  <2>3. SameBinding(copy, sess[s])
    BY <1>1, <2>1, <2>2 DEF NothingForgotten, Apart, Agrees
  <2>4. copy.authed
    BY <1>1, <2>1, <2>2, ConstantFacts DEF GatewayInv, CopiesValid, CopyValid
  <2>5. PICK c \in Channels : c = copy.chan
    BY <2>2 DEF SessionType
  <2>6. PICK d \in Datas : /\ d = Data(s, copy.player, copy.epoch) /\ d.player = copy.player
                           /\ d.epoch = copy.epoch /\ d.clientSession = s
    <3>1. copy.epoch \in 1..EpochLimit
      BY <2>2, ConstantFacts DEF SessionType
    <3>2. Data(s, copy.player, copy.epoch) \in Datas
      BY <2>2, <3>1 DEF Data, Datas
    <3> QED
      BY <3>2 DEF Data
  <2>7. Frame("online", d, nextSeq) \in Submissions
    <3>1. nextSeq \in 1..MaxSeq
      BY <1>1, ForwardingSeq
    <3> QED
      BY <3>1, ConstantFacts DEF Frame, Submissions
  <2>8. TendsOn
    <3>1. \A t \in Sessions : Keeps(t)
      BY <1>1, <1>2 DEF Keeps, SameBinding
    <3> QED
      BY <3>1, KeepsTended
  <2>9. Tended(c, d)'
    BY <1>1, <2>3, <2>4, <2>5, <2>6 DEF Tended, Has, SameBinding
  <2> QED
    BY <1>1, <1>2, <2>2, <2>5, <2>6, <2>7, <2>8, <2>9, QueueForgetsNothing DEF TendsOn
<1> QED
  BY <1>3, <1>4 DEF Forward


\* The channel side: the sessions and threads of it are as they were, but for
\* the declaration a submission leaves.
LEMMA ChannelApart ==
    ASSUME NothingForgotten, UNCHANGED <<conn, job, index>>,
           \A t \in Sessions : SameBinding(sess'[t], sess[t])
    PROVE  (\A t \in Sessions : Apart(t)') /\ IndexApart' /\ TendsOn
<1>1. \A t \in Sessions : Keeps(t)
  BY DEF Keeps
<1>2. \A t \in Sessions : Apart(t)'
  <2> SUFFICES ASSUME NEW t \in Sessions PROVE Apart(t)'
    OBVIOUS
  <2>1. Apart(t) /\ job'[t] = job[t] /\ SameBinding(sess'[t], sess[t])
    BY DEF NothingForgotten
  <2> QED
    BY <2>1 DEF Apart, SameBinding
<1> QED
  BY <1>1, <1>2, KeepsTended DEF NothingForgotten, IndexApart

LEMMA ChannelUpForgetsNothing ==
    ASSUME GatewayInv, NothingForgotten, NEW c0 \in Channels, ChannelUp(c0)
    PROVE  NothingForgotten'
<1>1. /\ chan[c0] = "new" /\ chan' = [chan EXCEPT ![c0] = "up"]
      /\ UNCHANGED <<sess, conn, job, index, loop, wire, scene>>
  BY DEF ChannelUp, table
<1>2. \A c \in Channels : c # c0 => chan'[c] = chan[c]
  BY <1>1, OrderTypes
<1>3. chan'[c0] = "up"
  BY <1>1, OrderTypes
<1>4. (\A t \in Sessions : Apart(t)') /\ IndexApart' /\ TendsOn
  BY <1>1, ChannelApart DEF SameBinding
<1>5. loop[c0] = <<>> /\ wire[c0] = <<>> /\ scene.byConn[c0] = {}
  BY <1>1 DEF NothingForgotten, ChannelEnds
<1>6. Attended'
  <2> SUFFICES ASSUME NEW c \in Channels, NEW d \in Datas, chan'[c] = "up",
                      Queued(c, d) \/ Sent(c, d) \/ d \in scene.byConn[c]
               PROVE  Tended(c, d)' \/ Ending(c, d)'
    BY <1>1 DEF Attended, Queued, Sent
  <2>1. c # c0
    BY <1>5 DEF Queued, Sent
  <2>2. Tended(c, d) \/ Ending(c, d)
    BY <1>2, <2>1 DEF NothingForgotten, Attended
  <2> QED
    BY <1>1, <1>2, <1>4, <2>1, <2>2 DEF TendsOn, Ending
<1>7. ChannelEnds'
  BY <1>1, <1>2, <1>3 DEF NothingForgotten, ChannelEnds
<1> QED
  BY <1>4, <1>6, <1>7 DEF NothingForgotten

LEMMA ChannelDownForgetsNothing ==
    ASSUME GatewayInv, NothingForgotten, NEW c0 \in Channels, ChannelDown(c0)
    PROVE  NothingForgotten'
<1>1. /\ chan[c0] = "up" /\ chan' = [chan EXCEPT ![c0] = "down"]
      /\ UNCHANGED <<sess, conn, job, index, loop, scene>>
  BY DEF ChannelDown, table
<1>2. PICK n \in 0..Len(wire[c0]) : wire' = [wire EXCEPT ![c0] = Append(SubSeq(@, 1, n), EOF)]
  BY DEF ChannelDown
<1>3. \A c \in Channels : c # c0 => chan'[c] = chan[c] /\ wire'[c] = wire[c]
  BY <1>1, <1>2, OrderTypes
<1>4. chan'[c0] = "down" /\ \E i \in DOMAIN wire'[c0] : wire'[c0][i].kind = "eof"
  <2>1. PICK q \in Seq(FrameType) : q = SubSeq(wire[c0], 1, n)
    <3>1. SubSeq(wire[c0], 1, n) \in Seq(FrameType)
      BY OrderTypes, SubSeqProperties
    <3> QED
      BY <3>1
  <2>2. PICK e \in FrameType : e = EOF
    BY DEF FrameType
  <2>3. wire'[c0] = Append(q, e) /\ e.kind = "eof"
    BY <1>2, <2>1, <2>2, OrderTypes DEF EOF, Frame
  <2>4. Len(q) + 1 \in DOMAIN Append(q, e) /\ Append(q, e)[Len(q) + 1] = e
    OBVIOUS
  <2> QED
    BY <1>1, <2>3, <2>4, OrderTypes
<1>5. (\A t \in Sessions : Apart(t)') /\ IndexApart' /\ TendsOn
  BY <1>1, ChannelApart DEF SameBinding
<1>6. Attended'
  <2> SUFFICES ASSUME NEW c \in Channels, NEW d \in Datas, chan'[c] = "up",
                      Queued(c, d) \/ Sent(c, d)' \/ d \in scene.byConn[c]
               PROVE  Tended(c, d)' \/ Ending(c, d)'
    BY <1>1 DEF Attended, Queued
  <2>1. c # c0
    BY <1>4
  <2>2. Tended(c, d) \/ Ending(c, d)
    BY <1>3, <2>1 DEF NothingForgotten, Attended, Sent
  <2> QED
    BY <1>1, <1>3, <1>5, <2>1, <2>2 DEF TendsOn, Ending
<1>7. ChannelEnds'
  BY <1>1, <1>3, <1>4 DEF NothingForgotten, ChannelEnds
<1> QED
  BY <1>5, <1>6, <1>7 DEF NothingForgotten

LEMMA SubmitForgetsNothing ==
    ASSUME GatewayInv, NothingForgotten, NEW c0 \in Channels, Submit(c0)
    PROVE  NothingForgotten'
<1>1. PICK item \in Submissions, declared \in BOOLEAN, f \in Seq(FrameType) :
             Submits(c0, item, declared, f)
  BY SubmitSubmits
<1>2. /\ UNCHANGED <<chan, scene, conn, job>> /\ item = loop[c0][1]
      /\ \/ f = <<>> /\ ~(chan[c0] = "up" /\ item.kind = "offline")
         \/ f = Frames(item, declared)
      /\ index' = index
  BY <1>1 DEF Submits, Submit
<1>3. \A t \in Sessions : SameBinding(sess'[t], sess[t])
  <2>1. PICK s \in Sessions : s = item.data.clientSession
    <3>1. item.data \in Datas
      BY DEF Submissions
    <3> QED
      BY <3>1, DataFacts
  <2>2. sess' = sess \/ sess' = [sess EXCEPT ![s].online = TRUE]
    BY <1>1, <2>1 DEF Submits
  <2>3. CASE sess' = sess
    BY <2>3 DEF SameBinding
  <2>4. CASE sess' = [sess EXCEPT ![s].online = TRUE]
    <3>1. (\A t \in Sessions \ {s} : sess'[t] = sess[t]) /\ sess'[s] = [sess[s] EXCEPT !.online = TRUE]
      BY <2>4, OrderTypes
    <3>2. SameBinding(sess'[s], sess[s])
      <4>1. sess[s] \in SessionType
        BY OrderTypes
      <4> QED
        BY <3>1, <4>1, Zenon DEF SameBinding, SessionType
    <3> QED
      BY <3>1, <3>2 DEF SameBinding
  <2> QED
    BY <2>2, <2>3, <2>4
<1>4. (\A t \in Sessions : Apart(t)') /\ IndexApart' /\ TendsOn
  BY <1>2, <1>3, ChannelApart
<1>5. /\ \A c \in Channels : c # c0 => loop'[c] = loop[c] /\ wire'[c] = wire[c]
      /\ 1 \in DOMAIN loop[c0] /\ Len(loop[c0]) \in Nat /\ DOMAIN loop[c0] = 1..Len(loop[c0])
      /\ DOMAIN loop'[c0] = 1..(Len(loop[c0]) - 1)
      /\ \A i \in DOMAIN loop'[c0] : loop'[c0][i] = loop[c0][i + 1] /\ i + 1 \in DOMAIN loop[c0]
      /\ Len(wire[c0]) \in Nat /\ DOMAIN wire[c0] = 1..Len(wire[c0]) /\ Len(f) \in Nat
      /\ DOMAIN wire'[c0] = 1..(Len(wire[c0]) + Len(f))
      /\ \A i \in 1..Len(wire[c0]) : wire'[c0][i] = wire[c0][i]
      /\ \A i \in 1..Len(f) : wire'[c0][Len(wire[c0]) + i] = f[i]
      /\ \A i \in DOMAIN wire'[c0] :
           i \in 1..Len(wire[c0]) \/ \E j \in 1..Len(f) : i = Len(wire[c0]) + j
  BY <1>1, SubmitMoves
<1>6. /\ \A j \in 1..Len(f) : f[j].data = item.data
      /\ chan[c0] = "up" /\ item.kind = "offline" => f = <<Frame("offline", item.data, 0)>>
  <2>1. CASE f = <<>> /\ ~(chan[c0] = "up" /\ item.kind = "offline")
    BY <2>1
  <2>2. CASE f = Frames(item, declared)
    BY <2>2, FramesOrder
  <2> QED
    BY <1>2, <2>1, <2>2
<1>7. ASSUME NEW c \in Channels, NEW d \in Datas
      PROVE  /\ Queued(c, d)' => Queued(c, d)
             /\ Sent(c, d)' => Sent(c, d) \/ Queued(c, d)
  <2>1. CASE c # c0
    BY <1>5, <2>1 DEF Queued, Sent
  <2>2. CASE c = c0
    <3>1. Queued(c, d)' => Queued(c, d)
      BY <1>5, <2>2 DEF Queued
    <3>2. ASSUME NEW i \in DOMAIN wire'[c0], wire'[c0][i].data = d PROVE Sent(c0, d) \/ Queued(c0, d)
      <4>1. CASE i \in 1..Len(wire[c0])
        BY <1>5, <3>2, <4>1 DEF Sent
      <4>2. CASE \E j \in 1..Len(f) : i = Len(wire[c0]) + j
        <5>1. d = item.data
          BY <1>5, <1>6, <3>2, <4>2
        <5> QED
          BY <1>2, <1>5, <5>1 DEF Queued
      <4> QED
        BY <1>5, <4>1, <4>2
    <3> QED
      BY <2>2, <3>1, <3>2 DEF Sent
  <2> QED
    BY <2>1, <2>2
<1>8. ASSUME NEW c \in Channels, NEW d \in Datas, chan[c] = "up", Ending(c, d) PROVE Ending(c, d)'
  <2>1. CASE c # c0
    BY <1>5, <1>8, <2>1 DEF Ending
  <2>2. CASE c = c0 /\ \E i \in DOMAIN wire[c] : wire[c][i] = Frame("offline", d, 0)
    <3>1. PICK i \in 1..Len(wire[c0]) : wire[c0][i] = Frame("offline", d, 0)
      BY <1>5, <2>2
    <3>2. i \in DOMAIN wire'[c0] /\ wire'[c0][i] = Frame("offline", d, 0)
      BY <1>5, <3>1
    <3> QED
      BY <2>2, <3>2 DEF Ending
  <2>3. CASE c = c0 /\ \E i \in DOMAIN loop[c] : loop[c][i] = Frame("offline", d, 0)
    <3>1. PICK i \in 1..Len(loop[c0]) : loop[c0][i] = Frame("offline", d, 0)
      BY <1>5, <2>3
    <3>2. CASE i = 1
      <4>1. item.kind = "offline" /\ item.data = d
        BY <1>2, <3>1, <3>2 DEF Frame
      <4>2. PICK x : x = Frame("offline", d, 0)
        OBVIOUS
      <4>3. f = <<x>>
        BY <1>6, <1>8, <2>3, <4>1, <4>2
      <4>4. Len(f) = 1 /\ f[1] = x
        BY <4>3
      <4>5. Len(wire[c0]) + 1 \in DOMAIN wire'[c0] /\ wire'[c0][Len(wire[c0]) + 1] = x
        BY <1>5, <4>4
      <4> QED
        BY <2>3, <4>2, <4>5 DEF Ending
    <3>3. CASE i # 1
      <4>1. i - 1 \in DOMAIN loop'[c0] /\ (i - 1) + 1 = i
        BY <1>5, <3>1, <3>3
      <4>2. loop'[c0][i - 1] = Frame("offline", d, 0)
        BY <1>5, <3>1, <4>1
      <4> QED
        BY <2>3, <4>1, <4>2 DEF Ending
    <3> QED
      BY <3>2, <3>3
  <2> QED
    BY <1>8, <2>1, <2>2, <2>3 DEF Ending
<1>9. Attended'
  BY <1>2, <1>4, <1>7, <1>8 DEF NothingForgotten, Attended, TendsOn
<1>10. ChannelEnds'
  <2> SUFFICES ASSUME NEW c \in Channels
               PROVE  /\ chan[c] = "new" => loop'[c] = <<>> /\ wire'[c] = <<>> /\ scene.byConn[c] = {}
                      /\ chan[c] = "down" => \/ wire'[c] = <<>> /\ scene.byConn[c] = {}
                                             \/ \E i \in DOMAIN wire'[c] : wire'[c][i].kind = "eof"
    BY <1>2 DEF ChannelEnds
  <2>1. /\ chan[c] = "new" => loop[c] = <<>> /\ wire[c] = <<>> /\ scene.byConn[c] = {}
        /\ chan[c] = "down" => \/ wire[c] = <<>> /\ scene.byConn[c] = {}
                               \/ \E i \in DOMAIN wire[c] : wire[c][i].kind = "eof"
    BY DEF NothingForgotten, ChannelEnds
  <2>2. CASE c # c0
    BY <1>5, <2>1, <2>2
  <2>3. CASE c = c0
    <3>1. chan[c0] # "new"
      BY <1>5, <2>1, <2>3
    <3>2. chan[c0] = "down" => wire'[c0] = wire[c0]
      <4> SUFFICES ASSUME chan[c0] = "down" PROVE wire'[c0] = wire[c0]
        OBVIOUS
      <4>1. wire' = [wire EXCEPT ![c0] = @ \o <<>>]
        BY <1>1 DEF Submits
      <4>2. wire'[c0] = wire[c0] \o <<>> /\ wire[c0] \in Seq(FrameType)
        BY <4>1, OrderTypes
      <4> QED
        BY <4>2, ConcatEmptySeq
    <3> QED
      BY <2>1, <2>3, <3>1, <3>2
  <2> QED
    BY <2>2, <2>3
<1> QED
  BY <1>4, <1>9, <1>10 DEF NothingForgotten


\* The scene reads a frame: after an OFFLINE nothing of its binding is left,
\* after the end of the connection nothing of the channel.
LEMMA ReceiveForgetsNothing ==
    ASSUME GatewayInv, GatewayInv', Ordered, NothingForgotten, NEW c0 \in Channels, SceneReceive(c0)
    PROVE  NothingForgotten'
<1>1. PICK m \in FrameType : Receives(c0, m)
  BY ReceiveReceives
<1>2. UNCHANGED <<chan, loop, conn, job, sess, index>> /\ m = wire[c0][1]
  BY <1>1 DEF Receives, SceneReceive, table
<1>3. (\A t \in Sessions : Apart(t)') /\ IndexApart' /\ TendsOn
  BY <1>2, ChannelApart DEF SameBinding
<1>4. /\ \A c \in Channels : c # c0 => wire'[c] = wire[c]
      /\ Len(wire[c0]) \in Nat /\ DOMAIN wire[c0] = 1..Len(wire[c0]) /\ 1 \in DOMAIN wire[c0]
      /\ DOMAIN wire'[c0] = 1..(Len(wire[c0]) - 1) /\ Len(wire'[c0]) = Len(wire[c0]) - 1
      /\ \A i \in DOMAIN wire'[c0] : wire'[c0][i] = wire[c0][i + 1] /\ i + 1 \in DOMAIN wire[c0]
      /\ \A c \in Channels : \A d \in Datas : (Sent(c, d)' => Sent(c, d)) /\ (Queued(c, d)' <=> Queued(c, d))
  BY <1>1, ReceiveFacts
<1>5. ASSUME NEW c \in Channels, NEW d \in Datas, d \in scene'.byConn[c]
      PROVE  d \in scene.byConn[c] \/ (c = c0 /\ d = m.data)
  BY <1>1, <1>5 DEF Receives, SceneStays, SceneCloses, SceneBinds, SceneUnbinds
<1>6. CASE m.kind = "eof"
  <2>1. chan[c0] = "down" /\ Len(wire[c0]) = 1
    BY <1>2, <1>4, <1>6 DEF Ordered, EofIsLast
  <2>2. wire'[c0] = <<>>
    <3>1. wire'[c0] \in Seq(FrameType)
      BY <1>1, OrderTypes, TailFacts DEF Receives
    <3> QED
      BY <1>4, <2>1, <3>1
  <2>3. scene'.byConn[c0] = {} /\ \A k \in Channels : k # c0 => scene'.byConn[k] = scene.byConn[k]
    BY <1>1, <1>6 DEF Receives, SceneStays, SceneCloses, SceneBinds, SceneUnbinds, Frame
  <2>4. Attended'
    <3> SUFFICES ASSUME NEW c \in Channels, NEW d \in Datas, chan[c] = "up",
                        Queued(c, d)' \/ Sent(c, d)' \/ d \in scene'.byConn[c]
                 PROVE  Tended(c, d)' \/ Ending(c, d)'
      BY <1>2 DEF Attended
    <3>1. c # c0
      BY <2>1
    <3>2. Tended(c, d) \/ Ending(c, d)
      BY <1>4, <2>3, <3>1 DEF NothingForgotten, Attended
    <3> QED
      BY <1>2, <1>3, <1>4, <3>1, <3>2 DEF TendsOn, Ending
  <2>5. ChannelEnds'
    BY <1>2, <1>4, <2>1, <2>2, <2>3 DEF NothingForgotten, ChannelEnds
  <2> QED
    BY <1>3, <2>4, <2>5 DEF NothingForgotten
<1>7. CASE m.kind # "eof"
  <2>1. m.data \in Datas
    BY <1>7 DEF FrameType, EOF, Frame
  <2>2. ASSUME NEW c \in Channels, NEW d \in Datas
        PROVE  d \in scene'.byConn[c] => d \in scene.byConn[c] \/ Sent(c, d)
    BY <1>2, <1>4, <1>5, <2>1 DEF Sent
  <2>3. ASSUME NEW c \in Channels, NEW d \in Datas, Ending(c, d)
        PROVE  Ending(c, d)' \/ ~(Queued(c, d)' \/ Sent(c, d)' \/ d \in scene'.byConn[c])
    <3>1. CASE c # c0
      BY <1>2, <1>4, <2>3, <3>1 DEF Ending
    <3>2. CASE \E i \in DOMAIN loop[c] : loop[c][i] = Frame("offline", d, 0)
      BY <1>2, <3>2 DEF Ending
    <3>3. CASE c = c0 /\ \E i \in DOMAIN wire[c] : wire[c][i] = Frame("offline", d, 0)
      <4>1. PICK i \in 1..Len(wire[c0]) : wire[c0][i] = Frame("offline", d, 0)
        BY <1>4, <3>3
      <4>2. CASE i # 1
        <5>1. i - 1 \in DOMAIN wire'[c0] /\ (i - 1) + 1 = i
          BY <1>4, <4>1, <4>2
        <5>2. wire'[c0][i - 1] = Frame("offline", d, 0)
          BY <1>4, <4>1, <5>1
        <5> QED
          BY <3>3, <5>1, <5>2 DEF Ending
      <4>3. CASE i = 1
        <5>1. m = Frame("offline", d, 0) /\ m.kind = "offline" /\ m.data = d
          BY <1>2, <4>1, <4>3 DEF Frame
        <5>2. (\A k \in DOMAIN wire[c0] : 1 < k => wire[c0][k].data # d) /\ ~Queued(c0, d)
          BY <1>2, <1>4, <5>1 DEF Ordered, EndedOnWire
        <5>3. ~Sent(c0, d)'
          <6> SUFFICES ASSUME NEW k \in DOMAIN wire'[c0] PROVE wire'[c0][k].data # d
            BY DEF Sent
          <6>1. k + 1 \in DOMAIN wire[c0] /\ 1 < k + 1 /\ wire'[c0][k] = wire[c0][k + 1]
            BY <1>4
          <6> QED
            BY <5>2, <6>1
        <5>4. d \notin scene'.byConn[c0]
          BY <1>1, <5>1 DEF Receives, SceneStays, SceneCloses, SceneBinds, SceneUnbinds
        <5> QED
          BY <1>4, <3>3, <5>2, <5>3, <5>4
      <4> QED
        BY <4>2, <4>3
    <3> QED
      BY <2>3, <3>1, <3>2, <3>3 DEF Ending
  <2>4. Attended'
    <3> SUFFICES ASSUME NEW c \in Channels, NEW d \in Datas, chan[c] = "up",
                        Queued(c, d)' \/ Sent(c, d)' \/ d \in scene'.byConn[c]
                 PROVE  Tended(c, d)' \/ Ending(c, d)'
      BY <1>2 DEF Attended
    <3>1. Tended(c, d) \/ Ending(c, d)
      BY <1>4, <2>2 DEF NothingForgotten, Attended
    <3> QED
      BY <1>3, <2>3, <3>1 DEF TendsOn
  <2>5. ChannelEnds'
    <3> SUFFICES ASSUME NEW c \in Channels
                 PROVE  /\ chan[c] = "new" => loop[c] = <<>> /\ wire'[c] = <<>> /\ scene'.byConn[c] = {}
                        /\ chan[c] = "down" => \/ wire'[c] = <<>> /\ scene'.byConn[c] = {}
                                               \/ \E i \in DOMAIN wire'[c] : wire'[c][i].kind = "eof"
      BY <1>2 DEF ChannelEnds
    <3>1. /\ chan[c] = "new" => loop[c] = <<>> /\ wire[c] = <<>> /\ scene.byConn[c] = {}
          /\ chan[c] = "down" => \/ wire[c] = <<>> /\ scene.byConn[c] = {}
                                 \/ \E i \in DOMAIN wire[c] : wire[c][i].kind = "eof"
      BY DEF NothingForgotten, ChannelEnds
    <3>2. CASE c # c0
      <4>1. scene'.byConn[c] \subseteq scene.byConn[c]
        <5>1. scene'.byConn[c] \subseteq Datas
          BY DEF GatewayInv, TypeOK, SceneType
        <5> QED
          BY <1>5, <3>2, <5>1
      <4> QED
        BY <1>4, <3>1, <3>2, <4>1
    <3>3. CASE c = c0
      <4>1. chan[c0] # "new" /\ wire[c0] # <<>>
        BY <1>4, <3>1, <3>3
      <4>2. ASSUME NEW i \in DOMAIN wire[c0], wire[c0][i].kind = "eof"
            PROVE  \E k \in DOMAIN wire'[c0] : wire'[c0][k].kind = "eof"
        <5>1. i # 1
          BY <1>2, <1>7, <4>2
        <5>2. i - 1 \in DOMAIN wire'[c0] /\ (i - 1) + 1 = i
          BY <1>4, <4>2, <5>1
        <5>3. wire'[c0][i - 1].kind = "eof"
          BY <1>4, <4>2, <5>2
        <5> QED
          BY <5>2, <5>3
      <4> QED
        BY <3>1, <3>3, <4>1, <4>2
    <3> QED
      BY <3>2, <3>3
  <2> QED
    BY <1>3, <2>4, <2>5 DEF NothingForgotten
<1> QED
  BY <1>6, <1>7

LEMMA ForgetsNothingStep ==
    LoginsApart /\ GatewayInv /\ GatewayInv' /\ Ordered /\ NothingForgotten /\ [Next]_vars => NothingForgotten'
<1> SUFFICES ASSUME LoginsApart, GatewayInv, GatewayInv', Ordered, NothingForgotten, [Next]_vars
             PROVE  NothingForgotten'
  OBVIOUS
<1>1. ASSUME NEW r \in routes, Respond(r) \/ Expire(r) PROVE NothingForgotten'
  <2>1. QuietScene /\ UNCHANGED <<sess, conn, job, index>>
    BY <1>1 DEF Respond, Expire, backend, table, QuietScene
  <2> QED
    BY <2>1, NothingMoves
<1>2. CASE Quiescent \/ UNCHANGED vars
  <2>1. QuietScene /\ UNCHANGED <<sess, conn, job, index>>
    BY <1>2 DEF Quiescent, vars, backend, table, QuietScene
  <2> QED
    BY <2>1, NothingMoves
<1>3. ASSUME NEW s \in Sessions, ClientStep(s) PROVE NothingForgotten'
  BY <1>3, AuthForgetsNothing, RequestForgetsNothing, CloseForgetsNothing DEF ClientStep
<1>4. ASSUME NEW s \in Sessions, HandlerStep(s) PROVE NothingForgotten'
  BY <1>4, ReturnForgetsNothing, NotifyForgetsNothing, BindServiceSetForgetsNothing,
     SelectForgetsNothing, BindSceneForgetsNothing, ForwardForgetsNothing, ForwardInvalidForgetsNothing,
     CloseEraseForgetsNothing DEF HandlerStep
<1>5. ASSUME NEW c \in Channels, ChannelUp(c) \/ ChannelDown(c) \/ Submit(c) \/ SceneReceive(c)
      PROVE  NothingForgotten'
  BY <1>5, ChannelUpForgetsNothing, ChannelDownForgetsNothing, SubmitForgetsNothing, ReceiveForgetsNothing
<1> QED
  BY <1>1, <1>2, <1>3, <1>4, <1>5, ConnectForgetsNothing DEF Next

\* Once every thread and queue is done, a player routed at the scene is a live
\* session of this gateway with that epoch: OnClientClosed and a change of
\* service (SetDstService) always send the OFFLINE that NotifySceneBinding owes
\* the binding the handler has copied.  It needs the players of two clients
\* apart: without that, Bind demotes a session whose thread has copied it, and
\* a client that authenticates again leaves its binding without an OFFLINE.
THEOREM NoGhostWhenLoginsApart == LoginsApart => (Spec => []NoGhost)
<1>1. LoginsApart /\ Init => GatewayInv /\ AnsweredOnce /\ Ordered /\ NothingForgotten /\ LoginsApart
  BY InitInv, InitOrdered, InitNothingForgotten
<1>2. GatewayInv /\ AnsweredOnce /\ Ordered /\ NothingForgotten /\ LoginsApart /\ [Next]_vars
        => (GatewayInv /\ AnsweredOnce /\ Ordered /\ NothingForgotten /\ LoginsApart)'
  <2>1. LoginsApart' <=> LoginsApart
    BY DEF LoginsApart
  <2> QED
    BY <2>1, InvStep, OrderedStep, ForgetsNothingStep
<1>3. GatewayInv /\ AnsweredOnce /\ Ordered /\ NothingForgotten /\ LoginsApart => NoGhost
  BY NothingForgottenNoGhost
<1> QED
  BY <1>1, <1>2, <1>3, PTL DEF Spec
=============================================================================
