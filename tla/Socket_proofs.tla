---------------------------- MODULE Socket_proofs ----------------------------
(***************************************************************************)
(* The three components of the socket server, each for any number of       *)
(* whatever it deals with.  The pools: no model is listed without a        *)
(* session, and a session that keeps up its heartbeats stays.  The lock    *)
(* of their clean-ups: one at a time sweeps a pool.  The documents: no     *)
(* accepted update is lost and everyone catches up, but for the two races  *)
(* that `exposed' and `raced' name.                                        *)
(***************************************************************************)
EXTENDS SessionPool, SweepLock, YdocSync, SequenceTheorems, TLAPS

-----------------------------------------------------------------------------
(* The pools: the inductive invariant *)

\* What a handler holds while it is under way, given the sockets and the late
\* sessions.  A disconnection that looks up or deletes an entry is that of a
\* closed socket; the clean-up reaps only what it has found unheard of, and
\* nothing makes a session heard of again.
Known(a, so, la) ==
    /\ a[1] = "beat" => a[2] \in Session /\ so[a[2]] # "new"
    /\ a[1] \in {"get", "del"} => a[2] \in Session /\ so[a[2]] = "closed"
    /\ a[1] \in {"inuse", "users", "use"} => a[2] \in Session /\ a[3] \in Model
    /\ a[1] = "use" => DOMAIN a[5] \subseteq Session
    /\ a[1] \in {"models", "leave", "left"} => a[2] \in Session
    /\ a[1] \in {"leave", "left"} => a[3] \subseteq Model
    /\ a[1] = "left" => a[4] \in Model /\ DOMAIN a[5] \subseteq Session
    /\ a[1] \in {"check", "reap"} => a[2] \subseteq Session
    /\ a[1] = "reap" => a[3] \in Session /\ (so[a[3]] = "closed" \/ a[3] \in la)
    /\ a[1] = "expire" => \A m \in DOMAIN a[2] : m \in Model /\ DOMAIN a[2][m] \subseteq Session

Sockets ==
    /\ socket \in [Session -> {"new", "open", "closed"}]
    /\ joining \subseteq Session /\ \A s \in joining : socket[s] # "new"

Entries ==
    /\ pool \in [DOMAIN pool -> BOOLEAN] /\ DOMAIN pool \subseteq Session
    /\ \A s \in DOMAIN pool : /\ socket[s] # "new"
                              /\ pool[s] \/ socket[s] = "closed" \/ s \in late

InUseOf ==
    \A m \in DOMAIN uses : /\ m \in Model
                           /\ DOMAIN uses[m] \subseteq Session /\ DOMAIN uses[m] # {}

Handlers ==
    /\ act = [i \in Instance |-> act[i]]
    /\ \A i \in Instance : Known(act[i], socket, late)

PoolInv == Sockets /\ Entries /\ InUseOf /\ Handlers

-----------------------------------------------------------------------------
(* Handlers *)

\* A socket is never new again, nor open once it is closed.
MoveOn(so, la, so2, la2) ==
    /\ la \subseteq la2
    /\ \A s \in Session : /\ so[s] # "new" => so2[s] # "new"
                          /\ so[s] = "closed" => so2[s] = "closed"

LEMMA KnownStays ==
    ASSUME NEW a, NEW so, NEW la, NEW so2, NEW la2,
           Known(a, so, la), MoveOn(so, la, so2, la2)
    PROVE  Known(a, so2, la2)
BY DEF Known, MoveOn

\* What the next step of an instance holds is all there is to show.
LEMMA HandlersStep ==
    ASSUME Handlers, MoveOn(socket, late, socket', late'), NEW i \in Instance, NEW next,
           Known(next, socket', late'), Do(i, next)
    PROVE  Handlers'
<1>1. /\ act'[i] = next /\ act' = [j \in Instance |-> act'[j]]
      /\ \A j \in Instance : j # i => act'[j] = act[j]
  BY DEF Handlers, Do
<1>2. \A j \in Instance : Known(act[j], socket', late')
  BY KnownStays DEF Handlers
<1>3. \A j \in Instance : Known(act'[j], socket', late')
  BY <1>1, <1>2
<1> QED BY <1>1, <1>3 DEF Handlers

LEMMA HandlersStay ==
    ASSUME Handlers, MoveOn(socket, late, socket', late'), UNCHANGED act
    PROVE  Handlers'
<1>1. \A j \in Instance : Known(act[j], socket', late')
  BY KnownStays DEF Handlers
<1> QED BY <1>1 DEF Handlers

LEMMA NoneMoves ==
    ASSUME UNCHANGED <<socket, late>>
    PROVE  MoveOn(socket, late, socket', late')
BY DEF MoveOn

LEMMA IdleKnown == \A so, la : Known(Idle, so, la)
BY DEF Known, Idle

LEMMA InitPool == Init => PoolInv
<1> SUFFICES ASSUME Init PROVE PoolInv
  OBVIOUS
<1>1. Sockets /\ Entries /\ InUseOf
  BY DEF Init, Sockets, Entries, InUseOf, Nothing
<1>2. Handlers
  BY IdleKnown DEF Init, Handlers
<1> QED BY <1>1, <1>2 DEF PoolInv

-----------------------------------------------------------------------------
(* Sessions *)

LEMMA SessionsKeep ==
    ASSUME PoolInv, PoolAssumption, NEW s \in Session,
           Connect(s) \/ Join(s) \/ Heartbeat(s) \/ Disconnect(s) \/ GoOld(s)
    PROVE  PoolInv'
<1> USE DEF PoolInv
<1>0. Home[s] \in Instance
  BY DEF PoolAssumption
<1>1. CASE Connect(s)
  <2>1. /\ socket' = [socket EXCEPT ![s] = "open"] /\ socket[s] = "new"
        /\ joining' = joining \cup {s} /\ UNCHANGED <<pool, uses, act, late>>
    BY <1>1 DEF Connect
  <2>2. MoveOn(socket, late, socket', late')
    BY <2>1 DEF MoveOn, Sockets
  <2>3. Sockets' /\ Entries'
    BY <2>1 DEF Sockets, Entries
  <2> QED BY <2>1, <2>2, <2>3, HandlersStay DEF InUseOf
<1>2. CASE Join(s)
  <2>1. /\ pool' = With(pool, s, TRUE) /\ s \in joining
        /\ joining' = joining \ {s} /\ UNCHANGED <<socket, uses, act, late>>
    BY <1>2 DEF Join
  <2>2. Sockets'
    BY <2>1 DEF Sockets
  <2>3. Entries'
    BY <2>1 DEF Entries, With, Without, Sockets
  <2> QED BY <2>1, <2>2, <2>3, NoneMoves, HandlersStay DEF InUseOf
<1>3. CASE Heartbeat(s)
  <2>1. /\ Do(Home[s], <<"beat", s>>) /\ s \in DOMAIN pool
        /\ UNCHANGED <<socket, joining, pool, uses, late>>
    BY <1>3 DEF Heartbeat
  <2>2. Known(<<"beat", s>>, socket', late')
    BY <2>1 DEF Known, Entries
  <2>3. Sockets' /\ Entries' /\ InUseOf'
    BY <2>1 DEF Sockets, Entries, InUseOf
  <2> QED BY <1>0, <2>1, <2>2, <2>3, NoneMoves, HandlersStep
<1>4. CASE Disconnect(s)
  <2>1. /\ socket' = [socket EXCEPT ![s] = "closed"]
        /\ Do(Home[s], <<"get", s>>) \/ UNCHANGED act
        /\ UNCHANGED <<joining, pool, uses, late>>
    BY <1>4 DEF Disconnect
  <2>2. MoveOn(socket, late, socket', late')
    BY <2>1 DEF MoveOn, Sockets
  <2>3. Sockets' /\ Entries'
    BY <2>1 DEF Sockets, Entries
  <2>4. Known(<<"get", s>>, socket', late')
    BY <2>1 DEF Known, Sockets
  <2> QED BY <1>0, <2>1, <2>2, <2>3, <2>4, HandlersStep, HandlersStay DEF InUseOf
<1>5. CASE GoOld(s)
  <2>1. /\ pool' = [pool EXCEPT ![s] = FALSE] /\ s \in DOMAIN pool
        /\ late' = IF socket[s] = "open" THEN late \cup {s} ELSE late
        /\ UNCHANGED <<socket, joining, uses, act>>
    BY <1>5 DEF GoOld
  <2>2. MoveOn(socket, late, socket', late')
    BY <2>1 DEF MoveOn
  <2>3. Sockets'
    BY <2>1 DEF Sockets
  <2>4. socket[s] = "closed" \/ s \in late'
    BY <2>1 DEF Sockets, Entries
  <2>5. Entries'
    BY <2>1, <2>4 DEF Entries
  <2> QED BY <2>1, <2>2, <2>3, <2>5, HandlersStay DEF InUseOf
<1> QED BY <1>1, <1>2, <1>3, <1>4, <1>5

\* heartbeat, usage and disconnect go through the pool one command at a time.
LEMMA SessionCommandsKeep ==
    ASSUME PoolInv, NEW i \in Instance, Beat(i) \/ Get(i) \/ Del(i)
    PROVE  PoolInv'
<1> USE DEF PoolInv
<1> DEFINE a == act[i]
           s == act[i][2]
<1>0. UNCHANGED <<socket, joining, uses, late>> /\ Known(a, socket, late)
  BY DEF Beat, Get, Del, Handlers
<1>1. Sockets' /\ InUseOf'
  BY <1>0 DEF Sockets, InUseOf
<1>2. CASE Beat(i)
  <2>1. a[1] = "beat" /\ pool' = With(pool, s, TRUE) /\ Do(i, Idle)
    BY <1>2 DEF Beat, Doing
  <2>2. s \in Session /\ socket[s] # "new"
    BY <1>0, <2>1 DEF Known
  <2>3. Entries'
    BY <1>0, <2>1, <2>2 DEF Entries, With, Without
  <2> QED BY <1>0, <1>1, <2>1, <2>3, IdleKnown, NoneMoves, HandlersStep
<1>3. CASE Get(i)
  <2>1. /\ a[1] = "get" /\ UNCHANGED pool
        /\ Do(i, <<"del", s>>) \/ Do(i, Idle)
    BY <1>3 DEF Get, Doing
  <2>2. Known(<<"del", s>>, socket', late')
    BY <1>0, <2>1 DEF Known
  <2>3. Entries'
    BY <1>0, <2>1 DEF Entries
  <2> QED BY <1>0, <1>1, <2>1, <2>2, <2>3, IdleKnown, NoneMoves, HandlersStep
<1>4. CASE Del(i)
  <2>1. /\ a[1] = "del" /\ pool' = Without(pool, s)
        /\ Do(i, <<"models", s>>) \/ Do(i, Idle)
    BY <1>4 DEF Del, Doing
  <2>2. Known(<<"models", s>>, socket', late')
    BY <1>0, <2>1 DEF Known
  <2>3. Entries'
    BY <1>0, <2>1 DEF Entries, With, Without
  <2> QED BY <1>0, <1>1, <2>1, <2>2, <2>3, IdleKnown, NoneMoves, HandlersStep
<1> QED BY <1>2, <1>3, <1>4

-----------------------------------------------------------------------------
(* Models in use *)

LEMMA UsesKeep ==
    ASSUME PoolInv, NEW i \in Instance,
           InUse(i) \/ Users(i) \/ Use(i) \/ Models(i) \/ Leave(i) \/ Left(i)
    PROVE  PoolInv'
<1> USE DEF PoolInv
<1> DEFINE a == act[i]
           s == act[i][2]
<1>0. UNCHANGED <<socket, joining, pool, late>> /\ Known(a, socket, late)
  BY DEF InUse, Users, Use, Models, Leave, Left, Handlers
<1>1. Sockets' /\ Entries'
  BY <1>0 DEF Sockets, Entries
<1>2. CASE InUse(i)
  <2>1. /\ a[1] = "inuse" /\ UNCHANGED uses
        /\ Do(i, <<"users", s, a[3], a[4]>>) \/ Do(i, <<"use", s, a[3], a[4], Nothing>>)
    BY <1>2 DEF InUse, Doing
  <2>2. s \in Session /\ a[3] \in Model
    BY <1>0, <2>1 DEF Known
  <2>3. /\ Known(<<"users", s, a[3], a[4]>>, socket', late')
        /\ Known(<<"use", s, a[3], a[4], Nothing>>, socket', late')
    BY <2>2 DEF Known, Nothing
  <2> QED BY <1>0, <1>1, <2>1, <2>3, NoneMoves, HandlersStep DEF InUseOf
<1>3. CASE Users(i)
  <2>1. /\ a[1] = "users" /\ UNCHANGED uses
        /\ \/ a[3] \in DOMAIN uses /\ Do(i, <<"use", s, a[3], a[4], uses[a[3]]>>)
           \/ Do(i, Idle)
    BY <1>3 DEF Users, Doing
  <2>2. s \in Session /\ a[3] \in Model
    BY <1>0, <2>1 DEF Known
  <2>3. a[3] \in DOMAIN uses => Known(<<"use", s, a[3], a[4], uses[a[3]]>>, socket', late')
    BY <2>2 DEF Known, InUseOf
  <2> QED BY <1>0, <1>1, <2>1, <2>3, IdleKnown, NoneMoves, HandlersStep DEF InUseOf
<1>4. CASE Use(i)
  <2>1. /\ a[1] = "use" /\ uses' = With(uses, a[3], With(a[5], s, a[4]))
        /\ Do(i, Idle)
    BY <1>4 DEF Use, Doing
  <2>2. s \in Session /\ a[3] \in Model /\ DOMAIN a[5] \subseteq Session
    BY <1>0, <2>1 DEF Known
  <2>3. DOMAIN With(a[5], s, a[4]) = DOMAIN a[5] \cup {s}
    BY DEF With
  <2>4. InUseOf'
    BY <2>1, <2>2, <2>3 DEF InUseOf, With, Without
  <2> QED BY <1>0, <1>1, <2>1, <2>4, IdleKnown, NoneMoves, HandlersStep
<1>5. CASE Models(i)
  <2>1. /\ a[1] = "models" /\ UNCHANGED uses /\ Do(i, <<"leave", s, DOMAIN uses>>)
    BY <1>5 DEF Models, Doing
  <2>2. s \in Session /\ DOMAIN uses \subseteq Model
    BY <1>0, <2>1 DEF Known, InUseOf
  <2>3. Known(<<"leave", s, DOMAIN uses>>, socket', late')
    BY <2>2 DEF Known
  <2> QED BY <1>0, <1>1, <2>1, <2>3, NoneMoves, HandlersStep DEF InUseOf
<1>6. CASE Leave(i)
  <2>1. /\ a[1] = "leave" /\ UNCHANGED uses
        /\ \/ Do(i, Idle)
           \/ \E m \in a[3] :
                \/ m \in DOMAIN uses /\ Do(i, <<"left", s, a[3] \ {m}, m, Without(uses[m], s)>>)
                \/ Do(i, <<"leave", s, a[3] \ {m}>>)
    BY <1>6 DEF Leave, Doing
  <2>2. s \in Session /\ a[3] \subseteq Model
    BY <1>0, <2>1 DEF Known
  <2>3. InUseOf'
    BY <2>1 DEF InUseOf
  <2>4. CASE Do(i, Idle)
    BY <1>0, <1>1, <2>3, <2>4, IdleKnown, NoneMoves, HandlersStep
  <2>5. ASSUME NEW m \in a[3], m \in DOMAIN uses,
               Do(i, <<"left", s, a[3] \ {m}, m, Without(uses[m], s)>>)
        PROVE  PoolInv'
    <3>1. DOMAIN Without(uses[m], s) \subseteq Session
      BY <2>5 DEF InUseOf, With, Without
    <3>2. Known(<<"left", s, a[3] \ {m}, m, Without(uses[m], s)>>, socket', late')
      BY <2>2, <3>1 DEF Known
    <3> QED BY <1>0, <1>1, <2>3, <2>5, <3>2, NoneMoves, HandlersStep
  <2>6. ASSUME NEW m \in a[3], Do(i, <<"leave", s, a[3] \ {m}>>)
        PROVE  PoolInv'
    <3>1. Known(<<"leave", s, a[3] \ {m}>>, socket', late')
      BY <2>2 DEF Known
    <3> QED BY <1>0, <1>1, <2>3, <2>6, <3>1, NoneMoves, HandlersStep
  <2> HIDE DEF PoolInv
  <2> QED BY <2>1, <2>4, <2>5, <2>6
<1>7. CASE Left(i)
  <2>1. /\ a[1] = "left"
        /\ Do(i, <<"leave", s, a[3]>>) \/ Do(i, Idle)
        /\ \/ DOMAIN a[5] = {} /\ uses' = Without(uses, a[4])
           \/ DOMAIN a[5] # {} /\ uses' = With(uses, a[4], a[5])
    BY <1>7 DEF Left, Doing
  <2>2. s \in Session /\ a[3] \subseteq Model /\ a[4] \in Model /\ DOMAIN a[5] \subseteq Session
    BY <1>0, <2>1 DEF Known
  <2>3. InUseOf'
    BY <2>1, <2>2 DEF InUseOf, With, Without
  <2>4. Known(<<"leave", s, a[3]>>, socket', late')
    BY <2>2 DEF Known
  <2> QED BY <1>0, <1>1, <2>1, <2>3, <2>4, IdleKnown, NoneMoves, HandlersStep
<1> QED BY <1>2, <1>3, <1>4, <1>5, <1>6, <1>7

LEMMA UsageKeeps ==
    ASSUME PoolInv, PoolAssumption, NEW s \in Session, NEW m \in Model, Usage(s, m)
    PROVE  PoolInv'
<1>1. /\ Do(Home[s], <<"inuse", s, m, used + 1>>) /\ Home[s] \in Instance
      /\ UNCHANGED <<socket, joining, pool, uses, late>>
  BY DEF Usage, PoolAssumption
<1>2. Known(<<"inuse", s, m, used + 1>>, socket', late')
  BY DEF Known
<1>3. Sockets' /\ Entries' /\ InUseOf'
  BY <1>1 DEF PoolInv, Sockets, Entries, InUseOf
<1> QED BY <1>1, <1>2, <1>3, NoneMoves, HandlersStep DEF PoolInv

-----------------------------------------------------------------------------
(* Clean-ups, time and crashes *)

LEMMA SweepsKeep ==
    ASSUME PoolInv, PoolAssumption, (\E i \in Instance : SweepSessions(i)) \/ SweepUses
    PROVE  PoolInv'
<1>1. PICK i \in Instance :
        /\ UNCHANGED <<socket, joining, pool, uses, late>>
        /\ Do(i, <<"check", DOMAIN pool>>) \/ Do(i, <<"expire", uses, gone>>)
  BY DEF SweepSessions, SweepUses, PoolAssumption
<1>2. /\ Known(<<"check", DOMAIN pool>>, socket', late')
      /\ Known(<<"expire", uses, gone>>, socket', late')
  BY DEF Known, PoolInv, Entries, InUseOf
<1>3. Sockets' /\ Entries' /\ InUseOf'
  BY <1>1 DEF PoolInv, Sockets, Entries, InUseOf
<1> QED BY <1>1, <1>2, <1>3, NoneMoves, HandlersStep DEF PoolInv

LEMMA ReapingKeeps ==
    ASSUME PoolInv, NEW i \in Instance, Check(i) \/ Reap(i)
    PROVE  PoolInv'
<1> USE DEF PoolInv
<1> DEFINE a == act[i]
<1>0. UNCHANGED <<socket, joining, uses, late>> /\ Known(a, socket, late)
  BY DEF Check, Reap, Handlers
<1>1. Sockets' /\ InUseOf'
  BY <1>0 DEF Sockets, InUseOf
<1>2. CASE Check(i)
  <2>1. /\ a[1] = "check" /\ UNCHANGED pool
        /\ \/ Do(i, Idle)
           \/ \E s \in a[2] :
                \/ s \in DOMAIN pool /\ ~pool[s] /\ Do(i, <<"reap", a[2] \ {s}, s>>)
                \/ Do(i, <<"check", a[2] \ {s}>>)
    BY <1>2 DEF Check, Doing
  <2>2. a[2] \subseteq Session
    BY <1>0, <2>1 DEF Known
  <2>3. Entries'
    BY <1>0, <2>1 DEF Entries
  <2>4. CASE Do(i, Idle)
    BY <1>0, <1>1, <2>3, <2>4, IdleKnown, NoneMoves, HandlersStep
  <2>5. ASSUME NEW s \in a[2], s \in DOMAIN pool, ~pool[s], Do(i, <<"reap", a[2] \ {s}, s>>)
        PROVE  PoolInv'
    <3>1. socket'[s] = "closed" \/ s \in late'
      BY <1>0, <2>5 DEF Entries
    <3>2. Known(<<"reap", a[2] \ {s}, s>>, socket', late')
      BY <2>2, <3>1 DEF Known
    <3> QED BY <1>0, <1>1, <2>3, <2>5, <3>2, NoneMoves, HandlersStep
  <2>6. ASSUME NEW s \in a[2], Do(i, <<"check", a[2] \ {s}>>)
        PROVE  PoolInv'
    <3>1. Known(<<"check", a[2] \ {s}>>, socket', late')
      BY <2>2 DEF Known
    <3> QED BY <1>0, <1>1, <2>3, <2>6, <3>1, NoneMoves, HandlersStep
  <2> HIDE DEF PoolInv
  <2> QED BY <2>1, <2>4, <2>5, <2>6
<1>3. CASE Reap(i)
  <2>1. /\ a[1] = "reap" /\ pool' = Without(pool, a[3])
        /\ Do(i, <<"check", a[2]>>) \/ Do(i, Idle)
    BY <1>3 DEF Reap, Doing
  <2>2. a[2] \subseteq Session
    BY <1>0, <2>1 DEF Known
  <2>3. Entries'
    BY <1>0, <2>1 DEF Entries, With, Without
  <2>4. Known(<<"check", a[2]>>, socket', late')
    BY <2>2 DEF Known
  <2> QED BY <1>0, <1>1, <2>1, <2>3, <2>4, IdleKnown, NoneMoves, HandlersStep
<1> QED BY <1>2, <1>3

\* The clean-up writes back what is recent of an old copy, if anything is.
LEMMA ExpiryKeeps ==
    ASSUME PoolInv, NEW i \in Instance, Expire(i)
    PROVE  PoolInv'
<1> USE DEF PoolInv
<1> DEFINE a == act[i]
           recent(m) == [s \in {t \in DOMAIN a[2][m] : a[2][m][t] > a[3]} |-> a[2][m][s]]
<1>0. /\ UNCHANGED <<socket, joining, pool, late>> /\ Known(a, socket, late)
      /\ a[1] = "expire"
  BY DEF Expire, Handlers, Doing
<1>1. Sockets' /\ Entries'
  BY <1>0 DEF Sockets, Entries
<1>2. \A m \in DOMAIN a[2] : m \in Model /\ DOMAIN a[2][m] \subseteq Session
  BY <1>0 DEF Known
<1>3. \/ Do(i, Idle) /\ UNCHANGED uses
      \/ \E m \in DOMAIN a[2] :
           /\ \/ uses' = Without(uses, m)
              \/ recent(m) # Nothing /\ uses' = With(uses, m, recent(m))
           /\ Do(i, <<"expire", Without(a[2], m), a[3]>>)
  BY DEF Expire
<1>4. CASE Do(i, Idle) /\ UNCHANGED uses
  BY <1>0, <1>1, <1>4, IdleKnown, NoneMoves, HandlersStep DEF InUseOf
<1>5. ASSUME NEW m \in DOMAIN a[2],
             \/ uses' = Without(uses, m)
             \/ recent(m) # Nothing /\ uses' = With(uses, m, recent(m)),
             Do(i, <<"expire", Without(a[2], m), a[3]>>)
      PROVE  PoolInv'
  <2>1. DOMAIN recent(m) \subseteq Session
    BY <1>2
  <2>2. recent(m) # Nothing => DOMAIN recent(m) # {}
    BY DEF Nothing
  <2>3. InUseOf'
    <3> HIDE DEF recent
    <3> QED BY <1>2, <1>5, <2>1, <2>2 DEF InUseOf, With, Without
  <2>4. Known(<<"expire", Without(a[2], m), a[3]>>, socket', late')
    BY <1>2 DEF Known, With, Without
  <2> QED BY <1>0, <1>1, <1>5, <2>3, <2>4, NoneMoves, HandlersStep
<1> HIDE DEF PoolInv, recent
<1> QED BY <1>3, <1>4, <1>5

LEMMA CrashKeeps ==
    ASSUME PoolInv, NEW i \in Instance, Crash(i)
    PROVE  PoolInv'
<1>1. /\ socket' = [s \in Session |-> IF Home[s] = i /\ socket[s] = "open"
                                      THEN "closed" ELSE socket[s]]
      /\ joining' \subseteq joining /\ Do(i, Idle) /\ UNCHANGED <<pool, uses, late>>
  BY DEF Crash
<1>2. MoveOn(socket, late, socket', late')
  BY <1>1 DEF MoveOn
<1>3. Sockets'
  BY <1>1 DEF PoolInv, Sockets
<1>4. Entries'
  BY <1>1 DEF PoolInv, Entries
<1> QED BY <1>1, <1>2, <1>3, <1>4, IdleKnown, HandlersStep DEF PoolInv, InUseOf

-----------------------------------------------------------------------------
(* The theorems *)

LEMMA NextPool == PoolInv /\ [Next]_vars => PoolInv'
<1> SUFFICES ASSUME PoolInv, [Next]_vars PROVE PoolInv'
  OBVIOUS
<1>1. CASE UNCHANGED vars
  <2>1. Handlers'
    BY <1>1, NoneMoves, HandlersStay DEF vars, PoolInv
  <2> QED BY <1>1, <2>1 DEF vars, PoolInv, Sockets, Entries, InUseOf
<1>2. CASE UseGoesOld \/ \E i \in Instance : Quit(i)
  <2>1. UNCHANGED <<socket, joining, pool, uses, act, late>>
    BY <1>2 DEF UseGoesOld, Quit
  <2>2. Handlers'
    BY <2>1, NoneMoves, HandlersStay DEF PoolInv
  <2> QED BY <2>1, <2>2 DEF PoolInv, Sockets, Entries, InUseOf
<1>3. CASE Next
  BY <1>2, <1>3, PoolAssumption, SessionsKeep, SessionCommandsKeep, UsesKeep, UsageKeeps,
     SweepsKeep, ReapingKeeps, ExpiryKeeps, CrashKeeps DEF Next, Command
<1> QED BY <1>1, <1>3

THEOREM PoolInvariant == Spec => []PoolInv
BY InitPool, NextPool, PTL DEF Spec

\* No model is listed as in use without a session that uses it.
THEOREM InUseMeansUsed == Spec => []NoEmptyUse
<1>1. PoolInv => NoEmptyUse
  <2> SUFFICES ASSUME PoolInv PROVE NoEmptyUse
    OBVIOUS
  <2>1. TypeOK
    BY DEF PoolInv, TypeOK, Sockets, Entries, InUseOf
  <2>2. \A m \in DOMAIN uses : uses[m] # Nothing
    BY DEF PoolInv, InUseOf, Nothing
  <2> QED BY <2>1, <2>2 DEF NoEmptyUse
<1> QED BY <1>1, PoolInvariant, PTL

\* The entry of a session that is open and in time is left alone.
THEOREM TimelySessionsStay == Spec => TimelyStays
<1>1. ASSUME PoolInv, [Next]_vars, NEW s \in DOMAIN pool, s \notin DOMAIN pool'
      PROVE  socket[s] = "closed" \/ s \in late
  <2>1. \E i \in Instance : Del(i) \/ Reap(i)
    <3>1. ~UNCHANGED pool /\ Next
      BY <1>1 DEF vars
    <3>2. \A k, v : pool' # With(pool, k, v)
      BY <1>1 DEF With, Without
    <3>3. \A t \in Session : ~(Connect(t) \/ Join(t) \/ Heartbeat(t) \/ Disconnect(t))
      BY <3>1, <3>2 DEF Connect, Join, Heartbeat, Disconnect
    <3>4. \A t \in Session : ~GoOld(t)
      BY <1>1 DEF GoOld, PoolInv, Entries
    <3>5. /\ ~UseGoesOld /\ ~SweepUses
          /\ \A t \in Session, m \in Model : ~Usage(t, m)
      BY <3>1 DEF UseGoesOld, SweepUses, Usage
    <3>6. \A i \in Instance : /\ ~SweepSessions(i) /\ ~Quit(i)
                              /\ ~InUse(i) /\ ~Users(i) /\ ~Use(i) /\ ~Get(i) /\ ~Models(i)
                              /\ ~Leave(i) /\ ~Left(i) /\ ~Check(i) /\ ~Expire(i) /\ ~Crash(i)
      BY <3>1 DEF SweepSessions, Quit, InUse, Users, Use, Get, Models, Leave, Left, Check,
                  Expire, Crash
    <3>7. \A i \in Instance : ~Beat(i)
      BY <3>2 DEF Beat
    <3> QED BY <3>1, <3>3, <3>4, <3>5, <3>6, <3>7 DEF Next, Command
  <2>2. PICK i \in Instance : Del(i) \/ Reap(i)
    BY <2>1
  <2>3. Known(act[i], socket, late)
    BY <1>1 DEF PoolInv, Handlers
  <2>4. CASE Del(i)
    <3>1. act[i][1] = "del" /\ pool' = Without(pool, act[i][2])
      BY <2>4 DEF Del, Doing
    <3>2. s = act[i][2]
      BY <1>1, <3>1 DEF With, Without
    <3> QED BY <2>3, <3>1, <3>2 DEF Known
  <2>5. CASE Reap(i)
    <3>1. act[i][1] = "reap" /\ pool' = Without(pool, act[i][3])
      BY <2>5 DEF Reap, Doing
    <3>2. s = act[i][3]
      BY <1>1, <3>1 DEF With, Without
    <3> QED BY <2>3, <3>1, <3>2 DEF Known
  <2> QED BY <2>2, <2>4, <2>5
<1>2. PoolInv /\ [Next]_vars =>
        [\A s \in DOMAIN pool \ DOMAIN pool' : socket[s] = "closed" \/ s \in late]_vars
  BY <1>1
<1> QED BY <1>2, PoolInvariant, PTL DEF Spec, TimelyStays

-----------------------------------------------------------------------------
(* The clean-up lock: it excludes for every number of instances, every     *)
(* timing of tries and any number of crashes, provided that it lives       *)
(* longer than the sleep between two sweeps (true of the usage clean-up,   *)
(* 60 s and 3 s, and false of the session clean-up, 60 s and 120 s).       *)

\* A clean-up in its loop holds the lock, and will wake before it expires.
HoldsIt(n) ==
    /\ holder = n
    /\ ttl > 0
    /\ pc[n] = "sweep" => ttl = LockTtl
    /\ pc[n] = "sleep" => left[n] < ttl

LoopHolds   == \A n \in Node : Sweeping(n) => HoldsIt(n)
\* Nobody takes the lock between the comparison and the deletion.
DeletesOwn  == \A n \in Node : pc[n] = "delete" => holder = n
LockInv     == LockTypeOK /\ LoopHolds /\ DeletesOwn

-----------------------------------------------------------------------------
LEMMA DelayIsNat == \A d \in Delays \cup {0} : d \in Nat
  BY LockAssumption

\* Type correctness is inductive by itself: every step keeps the lock, the
\* program counters, the sleeps and the tries in their sets.
LEMMA TypeInit == LockInit => LockTypeOK
  <1> SUFFICES ASSUME LockInit PROVE LockTypeOK
    OBVIOUS
  <1>1. failed \in BOOLEAN
    BY Zenon DEF LockInit
  <1> QED BY <1>1, LockAssumption DEF LockInit, LockTypeOK, Active

LEMMA TypeStep == LockTypeOK /\ [LockNext]_lockVars => LockTypeOK'
  <1> SUFFICES ASSUME LockTypeOK, [LockNext]_lockVars PROVE LockTypeOK'
    OBVIOUS
  <1> USE LockAssumption DEF LockTypeOK, Active, Goto, Own
  <1>1. ASSUME NEW n \in Node, NEW d \in Delays, Boot(n, d) PROVE LockTypeOK'
    BY <1>1 DEF Boot
  <1>2. ASSUME NEW n \in Node, CleanUp(n) PROVE LockTypeOK'
    <2>1. CASE Acquire(n)     BY <2>1 DEF Acquire
    <2>2. CASE Retry(n)
      <3>1. tries[n] + 1 \in 0..MaxRetries
        BY <2>2 DEF Retry
      <3>0. delay[n] \in Nat
        BY DelayIsNat
      <3>2. tries' \in [Node -> 0..MaxRetries]
        BY <2>2, <3>1 DEF Retry
      <3>3. left' \in [Node -> Nat]
        BY <2>2, <3>0 DEF Retry
      <3>4. pc' \in [Node -> Active \cup {"off", "wait", "sleep", "over"}]
        BY <2>2 DEF Retry
      <3> QED BY <2>2, <3>2, <3>3, <3>4 DEF Retry
    <2>3. CASE GiveUp(n)      BY <2>3 DEF GiveUp
    <2>4. CASE Renew(n)       BY <2>4 DEF Renew
    <2>6. CASE Sweep(n)       BY <2>6 DEF Sweep
    <2>7. CASE Compare(n)     BY <2>7 DEF Compare
    <2>8. CASE Delete(n)      BY <2>8 DEF Delete
    <2>9. CASE Wake(n)        BY <2>9 DEF Wake
    <2> QED BY <1>2, <2>1, <2>2, <2>3, <2>4, <2>6, <2>7, <2>8, <2>9 DEF CleanUp
  <1>3. ASSUME NEW n \in Node, Fail(n) PROVE LockTypeOK'
    BY <1>3 DEF Fail
  <1>4. ASSUME NEW n \in Node, Die(n) PROVE LockTypeOK'
    BY <1>4 DEF Die
  <1>5. CASE Tick
    BY <1>5 DEF Tick
  <1>6. CASE UNCHANGED lockVars
    BY <1>6 DEF lockVars
  <1> QED BY <1>1, <1>2, <1>3, <1>4, <1>5, <1>6 DEF LockNext

\* TypeOK holds of every behaviour of the lock and of the clean-ups.
THEOREM LockTypeCorrect == LockSpec => []LockTypeOK
  <1>1. LockInit => LockTypeOK                   BY TypeInit
  <1>2. LockTypeOK /\ [LockNext]_lockVars => LockTypeOK' BY TypeStep
  <1> QED BY <1>1, <1>2, PTL DEF LockSpec

-----------------------------------------------------------------------------
\* Every step of a clean-up keeps LockInv: only one that finds the lock free
\* enters the loop, and only the one in the loop renews or deletes.
LEMMA CleanUpStep ==
    ASSUME SleepTime < LockTtl, LockInv, LockTypeOK', NEW n \in Node, CleanUp(n)
    PROVE  LoopHolds' /\ DeletesOwn'
  <1> USE LockAssumption DEF LockInv, LockTypeOK, LoopHolds, DeletesOwn, HoldsIt,
                             Sweeping, Loop, Active, Goto, Own
  <1>1. CASE Acquire(n)     BY <1>1 DEF Acquire
  <1>2. CASE Retry(n)       BY <1>2 DEF Retry
  <1>3. CASE GiveUp(n)      BY <1>3 DEF GiveUp
  <1>4. CASE Renew(n)       BY <1>4 DEF Renew
  <1>6. CASE Sweep(n)       BY <1>6 DEF Sweep
  <1>7. CASE Compare(n)     BY <1>7 DEF Compare
  <1>8. CASE Delete(n)      BY <1>8 DEF Delete
  <1>9. CASE Wake(n)        BY <1>9 DEF Wake
  <1> QED BY <1>1, <1>2, <1>3, <1>4, <1>6, <1>7, <1>8, <1>9 DEF CleanUp

\* A tick falls only when every clean-up of the loop is asleep with time left,
\* and the lock, which had more time left, has not expired.
LEMMA TickStep ==
    ASSUME LockInv, Tick PROVE LoopHolds' /\ DeletesOwn'
  <1> USE LockAssumption DEF LockInv, LockTypeOK, Tick, Active
  <1>1. DeletesOwn'
    BY DEF DeletesOwn
  <1>2. ASSUME NEW n \in Node, Sweeping(n)' PROVE HoldsIt(n)'
    <2>1. pc[n] = "sleep" /\ Sweeping(n)
      BY <1>2 DEF Sweeping, Loop
    <2>2. holder = n /\ left[n] > 0 /\ left[n] < ttl
      BY <2>1 DEF LoopHolds, HoldsIt
    <2>3. ttl > 1 /\ ttl' = ttl - 1 /\ holder' = n /\ left'[n] = left[n] - 1
      BY <2>2
    <2> QED BY <2>1, <2>2, <2>3 DEF HoldsIt
  <1> QED BY <1>1, <1>2 DEF LoopHolds

LEMMA LockInvStep ==
    ASSUME SleepTime < LockTtl PROVE LockInv /\ [LockNext]_lockVars => LockInv'
  <1> SUFFICES ASSUME LockInv, [LockNext]_lockVars PROVE LoopHolds' /\ DeletesOwn'
    BY TypeStep DEF LockInv
  <1>0. LockTypeOK'
    BY TypeStep DEF LockInv
  <1> USE LockAssumption
  <1>1. ASSUME NEW n \in Node, NEW d \in Delays, Boot(n, d)
        PROVE  LoopHolds' /\ DeletesOwn'
    BY <1>1 DEF Boot, LockInv, LockTypeOK, LoopHolds, DeletesOwn, HoldsIt, Sweeping, Loop, Goto
  <1>2. ASSUME NEW n \in Node, CleanUp(n) PROVE LoopHolds' /\ DeletesOwn'
    BY <1>0, <1>2, CleanUpStep
  <1>3. ASSUME NEW n \in Node, Fail(n) PROVE LoopHolds' /\ DeletesOwn'
    BY <1>3 DEF Fail, LockInv, LockTypeOK, LoopHolds, DeletesOwn, HoldsIt, Sweeping, Loop, Goto
  <1>4. ASSUME NEW n \in Node, Die(n) PROVE LoopHolds' /\ DeletesOwn'
    BY <1>4 DEF Die, LockInv, LockTypeOK, LoopHolds, DeletesOwn, HoldsIt, Sweeping, Loop, Goto
  <1>5. CASE Tick
    BY <1>5, TickStep
  <1>6. CASE UNCHANGED lockVars
    BY <1>6 DEF lockVars, LockInv, LoopHolds, DeletesOwn, HoldsIt, Sweeping
  <1> QED BY <1>1, <1>2, <1>3, <1>4, <1>5, <1>6 DEF LockNext

\* Two clean-ups in the loop would both hold the lock.
LEMMA OneHolder == LockInv => AtMostOneSweeper
  BY DEF LockInv, LoopHolds, HoldsIt, AtMostOneSweeper

\* When the lock outlives the sleep, two instances never sweep at a time.
THEOREM SweepExclusion ==
    ASSUME SleepTime < LockTtl PROVE LockSpec => []AtMostOneSweeper
  <1>1. LockInit => LockInv
    BY TypeInit DEF LockInit, LockInv, LoopHolds, DeletesOwn, Sweeping, Loop
  <1>2. LockInv /\ [LockNext]_lockVars => LockInv'
    BY LockInvStep
  <1>3. LockInv => AtMostOneSweeper
    BY OneHolder
  <1> QED BY <1>1, <1>2, <1>3, PTL DEF LockSpec

-----------------------------------------------------------------------------
(* The documents.  Compaction *)

\* What a log of sets says, one entry at a time.
LEMMA InState ==
    ASSUME NEW l, NEW x
    PROVE  x \in State(l) <=> \E i \in DOMAIN l : x \in l[i]
BY DEF State

\* RPUSH adds the update and nothing else.
LEMMA StateOfAppend ==
    ASSUME NEW l \in Seq(SUBSET Update), NEW u \in Update
    PROVE  State(Append(l, {u})) = State(l) \cup {u}
<1> DEFINE m == Append(l, {u})
<1>1. /\ DOMAIN m = 1..(Len(l) + 1)
      /\ DOMAIN l = 1..Len(l)
      /\ m[Len(l) + 1] = {u}
      /\ \A i \in 1..Len(l) : m[i] = l[i]
      /\ Len(l) \in Nat
  OBVIOUS
<1> HIDE DEF m
<1>2. ASSUME NEW x PROVE x \in State(m) <=> x \in State(l) \/ x = u
  <2>1. x \in State(m) => x \in State(l) \/ x = u
    BY <1>1, InState
  <2>2. x \in State(l) => x \in State(m)
    BY <1>1, InState
  <2>3. u \in State(m)
    BY <1>1, InState
  <2> QED BY <2>1, <2>2, <2>3
<1> QED BY <1>2 DEF m

\* Squashing the oldest half of the log keeps every update, for logs of any
\* length, even or odd.  (_compact_updates_redis, _compact_updates_memory)
LEMMA SquashingKeeps ==
    ASSUME NEW l \in Seq(SUBSET Update)
    PROVE  /\ State(Squashed(l)) = State(l)
           /\ Squashed(l) \in Seq(SUBSET Update)
<1> DEFINE mid == Len(l) \div 2
           old == SubSeq(l, 1, mid)
           new == SubSeq(l, mid + 1, Len(l))
           m   == Squashed(l)
<1>1. /\ mid \in Nat /\ mid <= Len(l) /\ Len(l) \in Nat
      /\ DOMAIN l = 1..Len(l)
      /\ \A i \in 1..Len(l) : l[i] \in SUBSET Update
  OBVIOUS
<1> HIDE DEF mid
<1>2. /\ old \in Seq(SUBSET Update) /\ Len(old) = mid
      /\ \A i \in 1..mid : old[i] = l[i]
  <2>1. \A i \in 1..mid : l[i] \in SUBSET Update
    BY <1>1
  <2>2. /\ old \in Seq(SUBSET Update)
        /\ Len(old) = IF 1 <= mid THEN mid - 1 + 1 ELSE 0
        /\ \A i \in 1..(mid - 1 + 1) : old[i] = l[1 + i - 1]
    BY <1>1, <2>1, SubSeqProperties
  <2> HIDE DEF old
  <2> QED BY <1>1, <2>2
<1>3. /\ new \in Seq(SUBSET Update) /\ Len(new) = Len(l) - mid
      /\ \A i \in 1..(Len(l) - mid) : new[i] = l[mid + i]
  <2>1. \A i \in (mid + 1)..Len(l) : l[i] \in SUBSET Update
    BY <1>1
  <2>0. mid + 1 \in Int /\ Len(l) \in Int
    BY <1>1
  <2>2. /\ new \in Seq(SUBSET Update)
        /\ Len(new) = IF mid + 1 <= Len(l) THEN Len(l) - (mid + 1) + 1 ELSE 0
        /\ \A i \in 1..(Len(l) - (mid + 1) + 1) : new[i] = l[(mid + 1) + i - 1]
    BY <2>0, <2>1, SubSeqProperties
  <2> HIDE DEF new
  <2>3. ASSUME NEW i \in 1..(Len(l) - mid) PROVE new[i] = l[mid + i]
    <3>1. i \in 1..(Len(l) - (mid + 1) + 1) /\ (mid + 1) + i - 1 = mid + i
      BY <1>1
    <3> QED BY <2>2, <3>1
  <2>4. Len(new) = Len(l) - mid
    <3> DEFINE n == Len(l)
               k == Len(new)
    <3>1. n \in Nat /\ mid \in Nat /\ mid <= n
      BY <1>1
    <3>2. k = IF mid + 1 <= n THEN n - (mid + 1) + 1 ELSE 0
      BY <2>2
    <3> HIDE DEF n, k
    <3>3. k = n - mid
      BY <3>1, <3>2
    <3> QED BY <3>3 DEF n, k
  <2> QED BY <2>2, <2>3, <2>4
<1>4. State(old) \in SUBSET Update
  <2>1. DOMAIN old = 1..mid
    BY <1>2
  <2> QED BY <1>1, <1>2, <2>1 DEF State
<1>5. m = <<State(old)>> \o new
  BY DEF Squashed, mid
<1> HIDE DEF old, new, m
<1>6. <<State(old)>> \in Seq(SUBSET Update)
  BY <1>4
<1>7. /\ m \in Seq(SUBSET Update)
      /\ Len(m) = 1 + (Len(l) - mid)
      /\ m[1] = State(old)
      /\ \A i \in 1..(Len(l) - mid) : m[1 + i] = new[i]
  <2>1. m \in Seq(SUBSET Update) /\ Len(m) = 1 + Len(new)
    BY <1>3, <1>5, <1>6
  <2>2. \A i \in 1..(1 + Len(new)) :
           m[i] = IF i <= 1 THEN <<State(old)>>[i] ELSE new[i - 1]
    BY <1>3, <1>5, <1>6
  <2>3. ASSUME NEW i \in 1..(Len(l) - mid) PROVE m[1 + i] = new[i]
    <3>1. 1 + i \in 1..(1 + Len(new)) /\ ~(1 + i <= 1) /\ (1 + i) - 1 = i
      BY <1>1, <1>3
    <3> QED BY <2>2, <3>1
  <2>4. m[1] = State(old)
    <3>1. 1 \in 1..(1 + Len(new))
      BY <1>1, <1>3
    <3> QED BY <2>2, <3>1
  <2> QED BY <1>3, <2>1, <2>3, <2>4
<1>8. DOMAIN m = 1..Len(m)
  BY <1>7
<1>9. ASSUME NEW x PROVE x \in State(m) <=> x \in State(l)
  <2>1. ASSUME x \in State(m) PROVE x \in State(l)
    <3>1. PICK i \in 1..Len(m) : x \in m[i]
      BY <2>1, <1>8, InState
    <3>2. CASE i = 1
      <4>1. x \in State(old)
        BY <3>1, <3>2, <1>7
      <4>2. PICK k \in DOMAIN old : x \in old[k]
        BY <4>1, InState
      <4>3. k \in 1..mid /\ k \in 1..Len(l)
        BY <4>2, <1>1, <1>2
      <4> QED BY <4>2, <4>3, <1>1, <1>2, InState
    <3>3. CASE i # 1
      <4> DEFINE k == i - 1
      <4>1. k \in 1..(Len(l) - mid) /\ i = 1 + k
        BY <3>3, <1>1, <1>7
      <4>2. mid + k \in 1..Len(l)
        BY <4>1, <1>1
      <4> HIDE DEF k
      <4>3. x \in l[mid + k]
        BY <3>1, <4>1, <1>3, <1>7
      <4> QED BY <4>2, <4>3, <1>1, InState
    <3> QED BY <3>2, <3>3
  <2>2. ASSUME x \in State(l) PROVE x \in State(m)
    <3>1. PICK i \in 1..Len(l) : x \in l[i]
      BY <2>2, <1>1, InState
    <3>2. CASE i <= mid
      <4>1. i \in 1..mid /\ 1 \in 1..Len(m)
        BY <3>2, <1>1, <1>7
      <4>2. DOMAIN old = 1..mid
        BY <1>2
      <4>3. x \in State(old)
        BY <3>1, <4>1, <4>2, <1>2, InState
      <4> QED BY <4>1, <4>3, <1>7, <1>8, InState
    <3>3. CASE ~(i <= mid)
      <4> DEFINE k == i - mid
      <4>1. k \in 1..(Len(l) - mid) /\ mid + k = i /\ 1 + k \in 1..Len(m)
        BY <3>3, <1>1, <1>7
      <4> HIDE DEF k
      <4>2. x \in m[1 + k]
        BY <3>1, <4>1, <1>3, <1>7
      <4> QED BY <4>1, <4>2, <1>8, InState
    <3> QED BY <3>2, <3>3
  <2> QED BY <2>1, <2>2
<1> QED BY <1>7, <1>9 DEF m

-----------------------------------------------------------------------------
(* The inductive invariant *)

Joined   == {c \in Client : member[c] \in {"joining", "entered", "in"}}
GivingUp == \E d \in Client : member[d] \in {"clearing", "dropping"}
UnderWay == {"counting", "reading", "writing", "casting"}

\* The log has what was accepted, and so has what a compaction will write.
AllLogged   == accepted \ exposed \subseteq State(log)
WritesAll   == \A u \in Update : handling[u] = "writing" =>
                  accepted \ exposed \subseteq State(seen[u])
\* The manager knows the sessions that have the document; while it gives the
\* document up there are none, but for those that have raced it.
UsersKnown  == Joined \ raced \subseteq users
NobodyLeft  == GivingUp => Joined \subseteq raced
\* What was accepted has passed its check, and reaches every session.
Checked     == \A u \in accepted : handling[u] \in UnderWay \cup {"done"}
ReachesAll  ==
    \A c \in Client, u \in accepted \ exposed :
        member[c] = "in" /\ c \notin raced =>
            by[u] = c \/ u \in know[c] \/ u \in wire[c] \/ handling[u] \in UnderWay

YdocInv == /\ DocTypeOK /\ AllLogged /\ WritesAll
           /\ UsersKnown /\ NobodyLeft /\ Checked /\ ReachesAll

-----------------------------------------------------------------------------
LEMMA InitYdoc == DocInit => YdocInv
<1> SUFFICES ASSUME DocInit PROVE YdocInv
  OBVIOUS
<1>1. DocTypeOK
  BY DEF DocInit, DocTypeOK
<1> QED BY <1>1 DEF DocInit, YdocInv, AllLogged, WritesAll, UsersKnown, NobodyLeft,
                    Checked, ReachesAll, Joined, GivingUp, UnderWay

\* Joining: only the sessions, their documents and the set of users change.
LEMMA JoiningKeeps ==
    ASSUME YdocInv, NEW c \in Client, JoinDocument(c) \/ Enter(c) \/ Read(c)
    PROVE  YdocInv'
<1> USE DEF YdocInv, Becomes
<1>1. UNCHANGED <<deployed, log, handling, by, seen, accepted, exposed, wire>>
  BY DEF JoinDocument, Enter, Read, history
<1>2. DocTypeOK'
  <2>1. CASE JoinDocument(c)  BY <2>1 DEF JoinDocument, DocTypeOK
  <2>2. CASE Enter(c) BY <2>2 DEF Enter, DocTypeOK, history
  <2>3. CASE Read(c)
    <3>1. State(log) \subseteq Update
      BY InState DEF DocTypeOK
    <3> QED BY <2>3, <3>1 DEF Read, DocTypeOK, history
  <2> QED BY <2>1, <2>2, <2>3
<1>3. AllLogged' /\ WritesAll' /\ Checked'
  BY <1>1 DEF AllLogged, WritesAll, Checked
<1>4. UsersKnown' /\ NobodyLeft'
  BY DEF JoinDocument, Enter, Read, UsersKnown, NobodyLeft, Joined, GivingUp, DocTypeOK, history
<1>5. ReachesAll'
  <2>1. CASE JoinDocument(c)  BY <2>1 DEF JoinDocument, ReachesAll, DocTypeOK
  <2>2. CASE Enter(c) BY <2>2 DEF Enter, ReachesAll, DocTypeOK, history
  <2>3. CASE Read(c)  BY <2>3 DEF Read, ReachesAll, AllLogged, DocTypeOK, history
  <2> QED BY <2>1, <2>2, <2>3
<1> QED BY <1>2, <1>3, <1>4, <1>5

\* Editing up to the push: an update that is logged while a compaction is
\* being written is exposed, and is left out from then on.
LEMMA EditKeeps ==
    ASSUME YdocInv, NEW c \in Client, NEW u \in Update, Edit(c, u)
    PROVE  YdocInv'
<1> USE DEF YdocInv, Moves
<1>1. DocTypeOK'
  BY YdocAssumption DEF Edit, DocTypeOK, history
<1>2. u \notin accepted
  BY DEF Edit, Checked, UnderWay
<1>3. Checked' /\ WritesAll' /\ AllLogged'
  BY <1>2 DEF Edit, Checked, WritesAll, AllLogged, UnderWay, history, DocTypeOK
<1>4. UsersKnown' /\ NobodyLeft'
  BY DEF Edit, UsersKnown, NobodyLeft, Joined, GivingUp, history
<1>5. ReachesAll'
  BY <1>2 DEF Edit, ReachesAll, UnderWay, history, DocTypeOK
<1> QED BY <1>1, <1>3, <1>4, <1>5

LEMMA StoreKeeps ==
    ASSUME YdocInv, NEW u \in Update, Store(u)
    PROVE  YdocInv'
<1> USE DEF YdocInv, Moves
<1>1. /\ State(log') = State(log) \cup {u}
      /\ log' \in Seq(SUBSET Update)
  <2>1. /\ log \in Seq(SUBSET Update)
        /\ log' = Append(log, {u})
        /\ {u} \in SUBSET Update
    BY DEF Store, DocTypeOK
  <2>2. log' \in Seq(SUBSET Update)
    BY <2>1
  <2> QED BY <2>1, <2>2, StateOfAppend
<1>2. DocTypeOK'
  BY <1>1 DEF Store, DocTypeOK
<1>3. AllLogged'
  BY <1>1 DEF Store, AllLogged
<1>6. WritesAll'
  BY DEF Store, WritesAll, DocTypeOK
<1>7. Checked'
  BY DEF Store, Checked, UnderWay, DocTypeOK
<1>4. UsersKnown' /\ NobodyLeft'
  BY DEF Store, UsersKnown, NobodyLeft, Joined, GivingUp
<1>5. ReachesAll'
  BY DEF Store, ReachesAll, UnderWay, DocTypeOK
<1> QED BY <1>2, <1>3, <1>4, <1>5, <1>6, <1>7

\* The handler after the push: counting, compaction, broadcast.
LEMMA HandlingKeeps ==
    ASSUME YdocInv, NEW u \in Update, Handles(u)
    PROVE  YdocInv'
<1> USE DEF YdocInv, Moves, history
<1>1. UNCHANGED <<deployed, member, users, know, by, joins, accepted, exposed, raced>>
  BY DEF Handles, Count, ReadLog, Compact, Cast
<1>2. UsersKnown' /\ NobodyLeft'
  BY <1>1 DEF UsersKnown, NobodyLeft, Joined, GivingUp
<1>3. CASE Count(u)
  <2>1. DocTypeOK'
    BY <1>3 DEF Count, DocTypeOK
  <2>2. AllLogged' /\ WritesAll' /\ Checked'
    BY <1>3 DEF Count, AllLogged, WritesAll, Checked, UnderWay, DocTypeOK
  <2>3. ReachesAll'
    BY <1>3 DEF Count, ReachesAll, UnderWay, DocTypeOK
  <2> QED BY <1>2, <2>1, <2>2, <2>3
<1>4. CASE ReadLog(u)
  <2>1. DocTypeOK'
    BY <1>4 DEF ReadLog, DocTypeOK
  <2>2. AllLogged' /\ WritesAll' /\ Checked'
    BY <1>4 DEF ReadLog, AllLogged, WritesAll, Checked, UnderWay, DocTypeOK
  <2>3. ReachesAll'
    BY <1>4 DEF ReadLog, ReachesAll, UnderWay, DocTypeOK
  <2> QED BY <1>2, <2>1, <2>2, <2>3
<1>5. CASE Compact(u)
  <2>0. /\ State(log') = State(seen[u])
        /\ log' \in Seq(SUBSET Update)
    BY <1>5, SquashingKeeps DEF Compact, DocTypeOK
  <2>1. DocTypeOK'
    BY <1>5, <2>0 DEF Compact, DocTypeOK
  <2>2. AllLogged' /\ WritesAll' /\ Checked'
    BY <1>5, <2>0 DEF Compact, AllLogged, WritesAll, Checked, UnderWay, DocTypeOK
  <2>3. ReachesAll'
    BY <1>5 DEF Compact, ReachesAll, UnderWay, DocTypeOK
  <2> QED BY <1>2, <2>1, <2>2, <2>3
<1>6. CASE Cast(u)
  <2>1. DocTypeOK'
    BY <1>6 DEF Cast, DocTypeOK
  <2>2. AllLogged' /\ WritesAll' /\ Checked'
    BY <1>6 DEF Cast, AllLogged, WritesAll, Checked, UnderWay, DocTypeOK
  <2>3. ReachesAll'
    BY <1>6 DEF Cast, ReachesAll, UnderWay, DocTypeOK, Room
  <2> QED BY <1>2, <2>1, <2>2, <2>3
<1> QED BY <1>3, <1>4, <1>5, <1>6 DEF Handles

LEMMA ReceiveKeeps ==
    ASSUME YdocInv, NEW c \in Client, NEW u \in Update, Receive(c, u)
    PROVE  YdocInv'
<1> USE DEF YdocInv, Receive, history
<1>1. DocTypeOK'
  BY DEF DocTypeOK
<1>2. AllLogged' /\ WritesAll' /\ Checked' /\ UsersKnown' /\ NobodyLeft'
  BY DEF AllLogged, WritesAll, Checked, UsersKnown, NobodyLeft, Joined, GivingUp
<1>3. ReachesAll'
  BY DEF ReachesAll, DocTypeOK
<1> QED BY <1>1, <1>2, <1>3

\* Leaving: the document is given up only when nobody is known to have it.
LEMMA LeavingKeeps ==
    ASSUME YdocInv, NEW c \in Client,
           LeaveDocument(c) \/ LeaveRoom(c) \/ LoseConnection(c) \/ Look(c)
    PROVE  YdocInv'
<1> USE DEF YdocInv, Becomes, Closes, history
<1>1. UNCHANGED <<deployed, log, handling, by, seen, accepted, exposed, raced>>
  BY DEF LeaveDocument, LeaveRoom, LoseConnection, Look
<1>2. DocTypeOK'
  <2>1. CASE LeaveDocument(c)      BY <2>1 DEF LeaveDocument, DocTypeOK
  <2>2. CASE LeaveRoom(c)  BY <2>2 DEF LeaveRoom, DocTypeOK
  <2>3. CASE LoseConnection(c) BY <2>3 DEF LoseConnection, DocTypeOK
  <2>4. CASE Look(c)       BY <2>4 DEF Look, DocTypeOK
  <2> QED BY <2>1, <2>2, <2>3, <2>4
<1>3. AllLogged' /\ WritesAll' /\ Checked'
  BY <1>1 DEF AllLogged, WritesAll, Checked
<1>4. UsersKnown' /\ NobodyLeft'
  <2>1. CASE Look(c)
    BY <2>1 DEF Look, UsersKnown, NobodyLeft, Joined, GivingUp, DocTypeOK
  <2>2. CASE LeaveDocument(c) \/ LeaveRoom(c) \/ LoseConnection(c)
    BY <2>2 DEF LeaveDocument, LeaveRoom, LoseConnection, UsersKnown, NobodyLeft, Joined,
                GivingUp, DocTypeOK
  <2> QED BY <2>1, <2>2
<1>5. ReachesAll'
  BY DEF LeaveDocument, LeaveRoom, LoseConnection, Look, ReachesAll, DocTypeOK
<1> QED BY <1>2, <1>3, <1>4, <1>5

LEMMA ClearingKeeps ==
    ASSUME YdocInv, NEW c \in Client, ClearLog(c) \/ ClearUsers(c)
    PROVE  YdocInv'
<1> USE DEF YdocInv, Becomes, history
<1>1. CASE ClearLog(c)
  <2>1. DocTypeOK'
    BY <1>1 DEF ClearLog, DocTypeOK
  <2>2. Present \subseteq raced
    BY <1>1 DEF ClearLog, NobodyLeft, GivingUp, Joined, Present
  <2>3. accepted' = {}
    BY <1>1, <2>2 DEF ClearLog
  <2>4. AllLogged' /\ WritesAll' /\ Checked' /\ ReachesAll'
    BY <2>3 DEF AllLogged, WritesAll, Checked, ReachesAll
  <2>5. UsersKnown' /\ NobodyLeft'
    BY <1>1 DEF ClearLog, UsersKnown, NobodyLeft, Joined, GivingUp, DocTypeOK
  <2> QED BY <2>1, <2>4, <2>5
<1>2. CASE ClearUsers(c)
  <2>1. DocTypeOK'
    BY <1>2 DEF ClearUsers, DocTypeOK
  <2>2. AllLogged' /\ WritesAll' /\ Checked'
    BY <1>2 DEF ClearUsers, AllLogged, WritesAll, Checked
  <2>3. ReachesAll'
    BY <1>2 DEF ClearUsers, ReachesAll, DocTypeOK
  <2>4. Joined \subseteq raced
    BY <1>2 DEF ClearUsers, NobodyLeft, GivingUp
  <2>5. UsersKnown' /\ NobodyLeft'
    BY <1>2, <2>4 DEF ClearUsers, UsersKnown, NobodyLeft, Joined, GivingUp, DocTypeOK
  <2> QED BY <2>1, <2>2, <2>3, <2>5
<1> QED BY <1>1, <1>2

-----------------------------------------------------------------------------
(* The theorems *)

LEMMA NextYdoc == YdocInv /\ [DocNext]_docVars => YdocInv'
<1> SUFFICES ASSUME YdocInv, [DocNext]_docVars PROVE YdocInv'
  OBVIOUS
<1>1. CASE UNCHANGED docVars
  BY <1>1 DEF docVars, history, YdocInv, DocTypeOK, AllLogged, WritesAll, UsersKnown,
              NobodyLeft, Checked, ReachesAll, Joined, GivingUp, State
<1>2. ASSUME NEW c \in Client, Starts(c) \/ Continues(c) PROVE YdocInv'
  BY <1>2, JoiningKeeps, EditKeeps, LeavingKeeps, ClearingKeeps DEF Starts, Continues
<1>3. ASSUME NEW u \in Update, Handles(u) \/ Store(u) PROVE YdocInv'
  BY <1>3, HandlingKeeps, StoreKeeps
<1>4. ASSUME NEW c \in Client, NEW u \in Update, Receive(c, u) PROVE YdocInv'
  BY <1>4, ReceiveKeeps
<1>5. ASSUME NEW c \in Client, Look(c) PROVE YdocInv'
  BY <1>5, LeavingKeeps
<1> QED BY <1>1, <1>2, <1>3, <1>4, <1>5 DEF DocNext

THEOREM YdocInvariant == DocSpec => []YdocInv
BY InitYdoc, NextYdoc, PTL DEF DocSpec

\* The log keeps every accepted update while a session has the document open,
\* in Redis and in memory, but for the two races; in particular nothing else
\* that compaction does loses one.
THEOREM NothingIsLost == DocSpec => []NothingLost
<1>1. YdocInv => NothingLost
  BY DEF YdocInv, AllLogged, NothingLost
<1> QED BY <1>1, YdocInvariant, PTL

\* A session with nothing under way to it has merged every accepted update of
\* the others.
THEOREM EveryoneCatchesUp == DocSpec => []CaughtUp
<1>1. YdocInv => CaughtUp
  <2> SUFFICES ASSUME YdocInv, NEW c \in Client, NEW u \in accepted \ exposed,
                      member[c] = "in", wire[c] = {}, c \notin raced, by[u] # c,
                      \A v \in Update : handling[v] \in {"unsent", "checking", "done"}
               PROVE  u \in know[c]
    BY DEF CaughtUp
  <2>1. handling[u] \notin UnderWay
    BY DEF YdocInv, DocTypeOK, UnderWay
  <2> QED BY <2>1 DEF YdocInv, ReachesAll
<1> QED BY <1>1, YdocInvariant, PTL

=============================================================================
