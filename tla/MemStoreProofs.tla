--------------------------- MODULE MemStoreProofs ---------------------------
(***************************************************************************)
(* Theorems about the store of a simulated user, for every size of its     *)
(* queues and every set of keys.                                           *)
(***************************************************************************)
EXTENDS MemStore, TLAPS

USE ConfigIsValid, ServerAssumption

-----------------------------------------------------------------------------
(* One queue and its map.                                                  *)
Follows(q) == \A k \in DOMAIN q.at : q.at[k] # Nowhere => q.data[q.at[k]] = k

LEMMA NewQueueFollows ==
  ASSUME NEW K, NEW size \in Nat \ {0}
  PROVE  /\ NewCQueue(K, size) \in Queue(K, size)
         /\ Follows(NewCQueue(K, size))
         /\ \A k \in K : Life(NewCQueue(K, size), k, size) = 0
<1>1. 1 \in 1..size
  OBVIOUS
<1>2. NewCQueue(K, size).at = [k \in K |-> Nowhere]
  BY DEF NewCQueue
<1> QED
  BY <1>1, <1>2 DEF NewCQueue, Queue, Follows, Life, Nowhere

(* Memory is reused only once the map has forgotten what was in it, and    *)
(* every other element gets one step closer to that.                       *)
LEMMA PutFollows ==
  ASSUME NEW K, NEW size \in Nat \ {0}, NEW q \in Queue(K, size), Follows(q),
         NEW k \in K
  PROVE  /\ Put(q, k, size) \in Queue(K, size)
         /\ Follows(Put(q, k, size))
         /\ Life(Put(q, k, size), k, size) = size
         /\ \A j \in K \ {k} :
              Life(Put(q, k, size), j, size) =
                IF Life(q, j, size) > 0 THEN Life(q, j, size) - 1 ELSE 0
<1> DEFINE r == Put(q, k, size)
<1>1. q.next \in 1..size /\ q.data \in [1..size -> K \union {NoKey}]
        /\ q.at \in [K -> 0..size]
  BY DEF Queue
<1>2. Advance(q, size) \in 1..size
  BY <1>1 DEF Advance
<1>3. Forget(q) \in [K -> 0..size]
  BY <1>1 DEF Forget, Nowhere
<1>4. /\ r.data = [q.data EXCEPT ![q.next] = k]
      /\ r.next = Advance(q, size)
      /\ r.at = [Forget(q) EXCEPT ![k] = q.next]
  BY DEF Put
<1>5. r \in Queue(K, size)
  <2>1. r.data \in [1..size -> K \union {NoKey}]
    BY <1>1, <1>4
  <2>2. r.at \in [K -> 0..size]
    BY <1>1, <1>3, <1>4
  <2> QED
    BY <1>1, <1>2, <1>4, <2>1, <2>2 DEF Queue, Put
<1>6. ASSUME NEW j \in K \ {k}
      PROVE  r.at[j] = IF q.at[j] = q.next THEN Nowhere ELSE q.at[j]
  <2>1. r.at[j] = Forget(q)[j]
    BY <1>3, <1>4
  <2>2. q.at[j] = q.next => q.data[q.next] = j
    BY <1>1 DEF Follows, Nowhere
  <2> QED
    BY <1>1, <2>1, <2>2 DEF Forget
<1>7. r.at[k] = q.next
  BY <1>3, <1>4
<1>8. Follows(r)
  <2> SUFFICES ASSUME NEW j \in K, r.at[j] # Nowhere PROVE r.data[r.at[j]] = j
    BY <1>5 DEF Follows, Queue
  <2>1. CASE j = k
    BY <2>1, <1>1, <1>4, <1>7
  <2>2. CASE j # k
    <3>1. r.at[j] = q.at[j] /\ q.at[j] # q.next
      BY <2>2, <1>6
    <3>2. q.data[q.at[j]] = j /\ q.at[j] \in 1..size
      BY <3>1, <1>1 DEF Follows, Nowhere
    <3> QED
      BY <3>1, <3>2, <1>1, <1>4
  <2> QED
    BY <2>1, <2>2
<1>9. Life(r, k, size) = size
  BY <1>1, <1>4, <1>7 DEF Life, Advance, Nowhere
<1>10. ASSUME NEW j \in K \ {k}
       PROVE  Life(r, j, size) =
                IF Life(q, j, size) > 0 THEN Life(q, j, size) - 1 ELSE 0
  <2>1. q.at[j] \in 0..size
    BY <1>1
  <2>2. r.at[j] = IF q.at[j] = q.next THEN 0 ELSE q.at[j]
    BY <1>6 DEF Nowhere
  <2>3. r.next = IF q.next = size THEN 1 ELSE q.next + 1
    BY <1>4 DEF Advance
  <2>4. q.next \in Nat /\ q.at[j] \in Nat /\ size \in Nat /\ size > 0
          /\ q.next >= 1 /\ q.next =< size /\ q.at[j] =< size
    BY <1>1, <2>1
  <2>5. CASE q.at[j] = 0 \/ q.at[j] = q.next
    BY <2>2, <2>4, <2>5 DEF Life, Nowhere
  <2>6. CASE q.at[j] # 0 /\ q.at[j] # q.next
    <3>1. r.at[j] = q.at[j]
      BY <2>2, <2>6
    <3>2. Life(r, j, size) = IF q.at[j] >= r.next THEN q.at[j] - r.next + 1
                                                  ELSE q.at[j] - r.next + 1 + size
      BY <3>1, <2>6 DEF Life, Nowhere
    <3>3. Life(q, j, size) = IF q.at[j] >= q.next THEN q.at[j] - q.next + 1
                                                  ELSE q.at[j] - q.next + 1 + size
      BY <2>6 DEF Life, Nowhere
    <3> QED
      BY <3>2, <3>3, <2>3, <2>4, <2>6
  <2> QED
    BY <2>5, <2>6
<1> QED
  BY <1>5, <1>8, <1>9, <1>10

LEMMA DeleteFollows ==
  ASSUME NEW K, NEW size \in Nat \ {0}, NEW q \in Queue(K, size), Follows(q),
         NEW k \in K
  PROVE  /\ Delete(q, k) \in Queue(K, size)
         /\ Follows(Delete(q, k))
         /\ Life(Delete(q, k), k, size) = 0
         /\ \A j \in K \ {k} : Life(Delete(q, k), j, size) = Life(q, j, size)
<1>1. q.next \in 1..size /\ q.at \in [K -> 0..size]
  BY DEF Queue
<1>2. /\ Delete(q, k).data = q.data /\ Delete(q, k).next = q.next
      /\ Delete(q, k).at = [q.at EXCEPT ![k] = Nowhere]
  BY DEF Delete, Queue
<1>3. Delete(q, k) \in Queue(K, size)
  <2>1. Delete(q, k) = [data |-> q.data, next |-> q.next, at |-> [q.at EXCEPT ![k] = Nowhere]]
    <3>1. q = [data |-> q.data, next |-> q.next, at |-> q.at]
      BY DEF Queue
    <3> QED
      BY <3>1 DEF Delete
  <2>2. [q.at EXCEPT ![k] = Nowhere] \in [K -> 0..size]
    BY <1>1 DEF Nowhere
  <2> QED
    BY <2>1, <2>2 DEF Queue
<1>4. Follows(Delete(q, k))
  BY <1>1, <1>2 DEF Follows
<1> QED
  BY <1>1, <1>2, <1>3, <1>4 DEF Life

LEMMA ResetFollows ==
  ASSUME NEW K, NEW size \in Nat \ {0}, NEW q \in Queue(K, size)
  PROVE  /\ Reset(q) \in Queue(K, size)
         /\ Follows(Reset(q))
         /\ \A j \in K : Life(Reset(q), j, size) = 0
<1>1. DOMAIN q.at = K /\ 1 \in 1..size
  BY DEF Queue
<1>2. Reset(q).at = [k \in K |-> Nowhere]
  BY <1>1 DEF Reset, Queue
<1>3. Reset(q) \in Queue(K, size)
  <2>1. Reset(q) = [data |-> q.data, next |-> 1, at |-> [k \in K |-> Nowhere]]
    BY <1>1 DEF Reset
  <2>2. [k \in K |-> Nowhere] \in [K -> 0..size]
    BY DEF Nowhere
  <2> QED
    BY <1>1, <2>1, <2>2 DEF Queue
<1> QED
  BY <1>2, <1>3 DEF Follows, Life
-----------------------------------------------------------------------------
(* What a step of the store does to one of its queues.                     *)
Moves(n) ==
  \/ store'.queue[n] = store.queue[n]
  \/ \E k \in Keys[n] : \/ store'.queue[n] = Put(store.queue[n], k, Size[n])
                        \/ store'.queue[n] = Delete(store.queue[n], k)
  \/ store'.queue[n] = Reset(store.queue[n])

LEMMA SizesArePositive == \A n \in Queues : Size[n] \in Nat \ {0}
BY DEF Queues, Size

LEMMA StoreMoves ==
  ASSUME StoreTypeOK, StoreNext PROVE \A n \in Queues : Moves(n)
<1> SUFFICES ASSUME NEW n \in Queues PROVE Moves(n)
  OBVIOUS
<1>0. /\ "queue" \in DOMAIN store /\ DOMAIN store.queue = Queues
      /\ n \in {"posts", "users", "members", "statuses"}
  BY DEF StoreTypeOK, Queues
<1>1. ASSUME NEW m \in Queues, NEW k \in Keys[m], store' = Putting(m, k)
      PROVE  Moves(n)
  <2>1. store'.queue = [store.queue EXCEPT ![m] = Put(store.queue[m], k, Size[m])]
    BY <1>0, <1>1 DEF Putting
  <2> QED
    BY <1>0, <1>1, <2>1 DEF Moves
<1>2. ASSUME store'.queue = store.queue PROVE Moves(n)
  BY <1>2 DEF Moves
<1>3. CASE Clear
  <2>1. store'.queue = [m \in Queues |-> Reset(store.queue[m])]
    BY <1>3 DEF Clear, New
  <2> QED
    BY <2>1 DEF Moves
<1>4. CASE Lock \/ Unlock
  BY <1>0, <1>2, <1>4 DEF Lock, Unlock
<1>5. CASE SomePut
  <2>1. CASE \E p \in Posts : SetPost(p)
    BY <2>1, <1>1 DEF SetPost, Keys, Queues
  <2>2. CASE \E p \in Posts : DeletePost(p)
    <3> PICK p \in Posts : DeletePost(p)
      BY <2>2
    <3>1. store'.queue = [store.queue EXCEPT !["posts"] = Delete(store.queue["posts"], p)]
      BY <1>0 DEF DeletePost
    <3> QED
      BY <1>0, <3>1 DEF Moves, Keys
  <2>3. CASE \E u \in Users : SetStatus(u)
    BY <2>3, <1>1 DEF SetStatus, Keys, Queues
  <2>4. CASE \E u \in Users : SetOneUser(u)
    BY <2>4, <1>1 DEF SetOneUser, Keys, Queues
  <2>5. CASE \E c \in Channels, u \in Users : SetChannelMember(c, u) \/ SetOneMember(c, u)
    <3> PICK c \in Channels, u \in Users : SetChannelMember(c, u) \/ SetOneMember(c, u)
      BY <2>5
    <3>1. <<c, u>> \in Keys["members"] /\ "members" \in Queues
      BY DEF Keys, Queues
    <3> QED
      BY <3>1, <1>1 DEF SetChannelMember, SetOneMember
  <2>6. CASE \E c \in Channels, u \in Users : RemoveChannelMember(c, u)
    <3> PICK c \in Channels, u \in Users : RemoveChannelMember(c, u)
      BY <2>6
    <3>1. store'.queue = [store.queue EXCEPT !["members"] = Delete(store.queue["members"], <<c, u>>)]
      BY <1>0 DEF RemoveChannelMember
    <3>2. <<c, u>> \in Keys["members"]
      BY DEF Keys
    <3> QED
      BY <1>0, <3>1, <3>2 DEF Moves
  <2> QED
    BY <1>5, <2>1, <2>2, <2>3, <2>4, <2>5, <2>6 DEF SomePut
<1>6. CASE SomeMap
  <2>1. store'.queue = store.queue
    BY <1>0, <1>6 DEF SomeMap, SetTeams, SetTeam, SetTeamMember, SetCurrentTeam, SetChannel,
      SetChannelView, SetCurrentChannel, SetProfileImage, SetReaction, DeleteReaction
  <2> QED
    BY <2>1, <1>2
<1>7. CASE \E new \in Credentials : SetUser(new)
  BY <1>0, <1>2, <1>7 DEF SetUser
<1>8. CASE \E prefs \in SUBSET {"Direct", "Group"} : SetPreferences(prefs)
  BY <1>0, <1>2, <1>8 DEF SetPreferences
<1> QED
  BY <1>3, <1>4, <1>5, <1>6, <1>7, <1>8 DEF StoreNext
-----------------------------------------------------------------------------
(* The invariant: each queue is well formed and followed by its map.       *)
QueuesOK ==
  \A n \in Queues : store.queue[n] \in Queue(Keys[n], Size[n]) /\ Follows(store.queue[n])

LEMMA QueuesStep ==
  ASSUME StoreTypeOK, QueuesOK, StoreNext PROVE QueuesOK'
<1> SUFFICES ASSUME NEW n \in Queues
             PROVE  store'.queue[n] \in Queue(Keys[n], Size[n]) /\ Follows(store'.queue[n])
  BY DEF QueuesOK
<1> DEFINE K == Keys[n]
           size == Size[n]
           q == store.queue[n]
<1>1. size \in Nat \ {0} /\ q \in Queue(K, size) /\ Follows(q)
  BY SizesArePositive DEF QueuesOK
<1>2. Moves(n)
  BY StoreMoves
<1> HIDE DEF K, size, q
<1>3. ASSUME NEW k \in K, store'.queue[n] = Put(q, k, size)
      PROVE  store'.queue[n] \in Queue(K, size) /\ Follows(store'.queue[n])
  BY <1>1, <1>3, PutFollows
<1>4. ASSUME NEW k \in K, store'.queue[n] = Delete(q, k)
      PROVE  store'.queue[n] \in Queue(K, size) /\ Follows(store'.queue[n])
  BY <1>1, <1>4, DeleteFollows
<1>5. CASE store'.queue[n] = Reset(q)
  <2>1. store'.queue[n] \in Queue(K, size) /\ Follows(store'.queue[n])
    BY <1>1, <1>5, ResetFollows
  <2> QED
    BY <2>1 DEF K, size
<1>6. CASE store'.queue[n] = q
  BY <1>1, <1>6 DEF K, size
<1> QED
  BY <1>2, <1>3, <1>4, <1>5, <1>6 DEF Moves, K, size, q

(* The fields other than the queues.                                       *)
Rest ==
  /\ DOMAIN store = {"locked", "user", "queue", "teams", "teamMembers", "channels",
                     "views", "images", "prefs", "reactions", "currentTeam",
                     "currentChannel"}
  /\ store.locked \in BOOLEAN
  /\ store.user \in Credentials
  /\ DOMAIN store.queue = Queues
  /\ store.teams \subseteq Teams /\ store.teamMembers \subseteq Teams
  /\ store.channels \subseteq Channels /\ store.views \subseteq Channels
  /\ store.images \subseteq Users
  /\ store.prefs \subseteq {"Direct", "Group"}
  /\ store.reactions \in [Posts -> [Users -> 0..MaxReactions]]
  /\ store.currentTeam \in Teams \union {None}
  /\ store.currentChannel \in Channels \union {None}

LEMMA TypeIsRest == StoreTypeOK <=> Rest /\ \A n \in Queues : store.queue[n] \in Queue(Keys[n], Size[n])
BY DEF StoreTypeOK, Rest

LEMMA Restored ==
  ASSUME NEW old \in Credentials, NEW new \in Credentials
  PROVE  /\ restorePrivateData(old, new) \in Credentials
         /\ restorePrivateData(old, new).email = (new.email \/ old.email)
         /\ restorePrivateData(old, new).password = (new.password \/ old.password)
BY DEF restorePrivateData, Credentials

LEMMA RestStep ==
  ASSUME Rest, StoreNext PROVE Rest'
<1>1. CASE Clear
  BY <1>1 DEF Clear, New, Rest
<1>2. CASE Lock \/ Unlock
  BY <1>2 DEF Lock, Unlock, Rest
<1>3. CASE SomePut
  BY <1>3 DEF SomePut, SetPost, DeletePost, SetStatus, SetOneUser, SetChannelMember,
    RemoveChannelMember, SetOneMember, Putting, Rest
<1>4. CASE SomeMap
  <2>1. CASE \E ts \in SUBSET Teams : SetTeams(ts)
    BY <2>1 DEF SetTeams, Rest
  <2>2. CASE \E t \in Teams : SetTeam(t) \/ SetTeamMember(t) \/ SetCurrentTeam(t)
    BY <2>2 DEF SetTeam, SetTeamMember, SetCurrentTeam, Rest
  <2>3. CASE \E c \in Channels : SetChannel(c) \/ SetChannelView(c) \/ SetCurrentChannel(c)
    <3> PICK c \in Channels : SetChannel(c) \/ SetChannelView(c) \/ SetCurrentChannel(c)
      BY <2>3
    <3>1. CASE SetChannel(c)
      BY <3>1 DEF SetChannel, Rest
    <3>2. CASE SetChannelView(c)
      BY <3>2 DEF SetChannelView, Rest
    <3>3. CASE SetCurrentChannel(c)
      BY <3>3 DEF SetCurrentChannel, Rest
    <3> QED
      BY <3>1, <3>2, <3>3
  <2>4. CASE \E u \in Users : SetProfileImage(u)
    BY <2>4 DEF SetProfileImage, Rest
  <2>5. ASSUME NEW p \in Posts, NEW u \in Users, SetReaction(p, u) \/ DeleteReaction(p, u)
        PROVE  Rest'
    <3>1. store.reactions \in [Posts -> [Users -> 0..MaxReactions]]
      BY DEF Rest
    <3>2. store.reactions[p][u] \in 0..MaxReactions
      BY <3>1
    <3>3. CASE SetReaction(p, u)
      <4> DEFINE n == IF store.reactions[p][u] = MaxReactions THEN store.reactions[p][u]
                                                             ELSE store.reactions[p][u] + 1
      <4>1. n \in 0..MaxReactions
        BY <3>2
      <4>2. store' = [store EXCEPT !.reactions[p][u] = n]
        BY <3>3 DEF SetReaction
      <4> HIDE DEF n
      <4> QED
        BY <3>1, <4>1, <4>2 DEF Rest
    <3>4. CASE DeleteReaction(p, u)
      <4> DEFINE n == IF store.reactions[p][u] = 0 THEN 0 ELSE store.reactions[p][u] - 1
      <4>1. n \in 0..MaxReactions
        BY <3>2
      <4>2. store' = [store EXCEPT !.reactions[p][u] = n]
        BY <3>4 DEF DeleteReaction
      <4> HIDE DEF n
      <4> QED
        BY <3>1, <4>1, <4>2 DEF Rest
    <3> QED
      BY <2>5, <3>3, <3>4
  <2> QED
    BY <1>4, <2>1, <2>2, <2>3, <2>4, <2>5 DEF SomeMap
<1>5. ASSUME NEW new \in Credentials, SetUser(new) PROVE Rest'
  <2>1. store.user \in Credentials
    BY DEF Rest
  <2>2. restorePrivateData(store.user, new) \in Credentials
    BY <2>1, Restored
  <2> QED
    BY <1>5, <2>2 DEF SetUser, Rest
<1>6. CASE \E prefs \in SUBSET {"Direct", "Group"} : SetPreferences(prefs)
  BY <1>6 DEF SetPreferences, Rest
<1> QED
  BY <1>1, <1>2, <1>3, <1>4, <1>5, <1>6 DEF StoreNext

LEMMA CredentialsStep ==
  ASSUME Rest, CredentialsKept, StoreNext PROVE CredentialsKept'
<1>1. ASSUME store'.user = store.user PROVE CredentialsKept'
  BY <1>1 DEF CredentialsKept
<1>2. CASE Clear
  BY <1>1, <1>2 DEF Clear, New
<1>3. CASE Lock \/ Unlock
  BY <1>1, <1>3 DEF Lock, Unlock, Rest
<1>4. CASE SomePut
  BY <1>1, <1>4 DEF SomePut, SetPost, DeletePost, SetStatus, SetOneUser, SetChannelMember,
    RemoveChannelMember, SetOneMember, Putting, Rest
<1>5. CASE SomeMap
  BY <1>1, <1>5 DEF SomeMap, SetTeams, SetTeam, SetTeamMember, SetCurrentTeam, SetChannel,
      SetChannelView, SetCurrentChannel, SetProfileImage, SetReaction, DeleteReaction, Rest
<1>6. ASSUME NEW new \in Credentials, SetUser(new) PROVE CredentialsKept'
  <2>1. store.user \in Credentials /\ store'.user = restorePrivateData(store.user, new)
    BY <1>6 DEF Rest, SetUser
  <2>2. store.user.email /\ store.user.password
    BY DEF CredentialsKept
  <2>3. /\ store'.user.email = (new.email \/ store.user.email)
        /\ store'.user.password = (new.password \/ store.user.password)
    BY <2>1, Restored
  <2> QED
    BY <2>2, <2>3, Zenon DEF CredentialsKept
<1>7. CASE \E prefs \in SUBSET {"Direct", "Group"} : SetPreferences(prefs)
  BY <1>1, <1>7 DEF SetPreferences, Rest
<1> QED
  BY <1>2, <1>3, <1>4, <1>5, <1>6, <1>7 DEF StoreNext

StoreInv == Rest /\ QueuesOK /\ CredentialsKept

LEMMA StoreInvInit == StoreInit => StoreInv
<1> SUFFICES ASSUME StoreInit PROVE StoreInv
  OBVIOUS
<1>1. Rest /\ CredentialsKept
  BY DEF StoreInit, New, Rest, CredentialsKept, Credentials
<1>2. store.queue = [n \in Queues |-> NewCQueue(Keys[n], Size[n])]
  BY DEF StoreInit, New
<1>3. ASSUME NEW n \in Queues
      PROVE  store.queue[n] \in Queue(Keys[n], Size[n]) /\ Follows(store.queue[n])
  <2>1. store.queue[n] = NewCQueue(Keys[n], Size[n]) /\ Size[n] \in Nat \ {0}
    BY <1>2, SizesArePositive
  <2> QED
    BY <2>1, NewQueueFollows
<1> QED
  BY <1>1, <1>3 DEF StoreInv, QueuesOK

LEMMA StoreInvStep == StoreInv /\ [StoreNext]_store => StoreInv'
<1>1. ASSUME StoreInv, StoreNext PROVE StoreInv'
  <2>1. StoreTypeOK
    BY <1>1, TypeIsRest DEF StoreInv, QueuesOK
  <2> QED
    BY <1>1, <2>1, QueuesStep, RestStep, CredentialsStep DEF StoreInv
<1>2. ASSUME StoreInv, UNCHANGED store PROVE StoreInv'
  BY <1>2 DEF StoreInv, Rest, QueuesOK, CredentialsKept
<1> QED
  BY <1>1, <1>2

LEMMA StoreInvAlways == StoreSpec => []StoreInv
BY StoreInvInit, StoreInvStep, PTL DEF StoreSpec

(* What the store holds keeps its type.                                    *)
THEOREM StoreTypeCorrect == StoreSpec => []StoreTypeOK
<1>1. StoreInv => StoreTypeOK
  BY TypeIsRest DEF StoreInv, QueuesOK
<1> QED
  BY <1>1, StoreInvAlways, PTL

(* What a map of the store points to is there, under the key it was looked *)
(* up by, whatever the sizes of the queues and the order of the calls: no  *)
(* selection of memstore/random.go dereferences nil.                       *)
THEOREM MapsPointIntoQueues == StoreSpec => []MapsFollowQueues
<1>1. StoreInv => MapsFollowQueues
  <2> SUFFICES ASSUME StoreInv, NEW n \in Queues, NEW k \in Keys[n],
                      store.queue[n].at[k] # Nowhere
               PROVE  store.queue[n].data[store.queue[n].at[k]] = k
    BY DEF MapsFollowQueues
  <2>1. store.queue[n] \in Queue(Keys[n], Size[n]) /\ Follows(store.queue[n])
    BY DEF StoreInv, QueuesOK
  <2>2. DOMAIN store.queue[n].at = Keys[n]
    BY <2>1 DEF Queue
  <2> QED
    BY <2>1, <2>2 DEF Follows
<1> QED
  BY <1>1, StoreInvAlways, PTL

(* The email and the password the user logs in with survive whatever the   *)
(* server leaves out of its answers, and every Clear.                      *)
THEOREM CredentialsSurvive == StoreSpec => []CredentialsKept
<1>1. StoreInv => CredentialsKept
  BY DEF StoreInv
<1> QED
  BY <1>1, StoreInvAlways, PTL
-----------------------------------------------------------------------------
(* The maps are maps of the most recent elements.                          *)
LifeOf(n) == [k \in Keys[n] |-> Life(store.queue[n], k, Size[n])]

(* One step of a queue is one step of what it promises.                    *)
Recent(n) ==
  \/ LifeOf(n)' = LifeOf(n)
  \/ LifeOf(n)' = [k \in Keys[n] |-> 0]
  \/ \E k \in Keys[n] :
       \/ LifeOf(n)' = [LifeOf(n) EXCEPT ![k] = 0]
       \/ LifeOf(n)' = [j \in Keys[n] |-> IF j = k THEN Size[n]
                                         ELSE IF LifeOf(n)[j] > 0 THEN LifeOf(n)[j] - 1 ELSE 0]

LEMMA RecentStep ==
  ASSUME StoreInv, [StoreNext]_store, NEW n \in Queues PROVE Recent(n)
<1> DEFINE K == Keys[n]
           size == Size[n]
           q == store.queue[n]
           r == store'.queue[n]
<1>1. size \in Nat \ {0} /\ q \in Queue(K, size) /\ Follows(q)
  BY SizesArePositive DEF StoreInv, QueuesOK
<1>2. Moves(n)
  <2>1. CASE StoreNext
    <3>1. StoreTypeOK
      BY TypeIsRest DEF StoreInv, QueuesOK
    <3> QED
      BY <2>1, <3>1, StoreMoves
  <2>2. CASE UNCHANGED store
    BY <2>2 DEF Moves
  <2> QED
    BY <2>1, <2>2
<1>3. /\ LifeOf(n) = [k \in K |-> Life(q, k, size)]
      /\ LifeOf(n)' = [k \in K |-> Life(r, k, size)]
  BY DEF LifeOf
<1>4. r = q \/ r = Reset(q) \/ \E k \in K : r = Put(q, k, size) \/ r = Delete(q, k)
  BY <1>2 DEF Moves
<1> SUFFICES \/ LifeOf(n)' = LifeOf(n)
             \/ LifeOf(n)' = [k \in K |-> 0]
             \/ \E k \in K :
                  \/ LifeOf(n)' = [LifeOf(n) EXCEPT ![k] = 0]
                  \/ LifeOf(n)' = [j \in K |-> IF j = k THEN size
                                    ELSE IF LifeOf(n)[j] > 0 THEN LifeOf(n)[j] - 1 ELSE 0]
  BY DEF Recent
<1> HIDE DEF K, size, q, r
<1>5. CASE r = q
  BY <1>3, <1>5
<1>6. CASE r = Reset(q)
  <2>1. \A k \in K : Life(r, k, size) = 0
    BY <1>1, <1>6, ResetFollows
  <2> QED
    BY <1>3, <2>1
<1>7. ASSUME NEW k \in K, r = Put(q, k, size)
      PROVE  LifeOf(n)' = [j \in K |-> IF j = k THEN size
                                       ELSE IF LifeOf(n)[j] > 0 THEN LifeOf(n)[j] - 1 ELSE 0]
  <2>1. /\ Life(r, k, size) = size
        /\ \A j \in K \ {k} :
             Life(r, j, size) = IF Life(q, j, size) > 0 THEN Life(q, j, size) - 1 ELSE 0
    BY <1>1, <1>7, PutFollows
  <2> QED
    BY <1>3, <2>1
<1>8. ASSUME NEW k \in K, r = Delete(q, k)
      PROVE  LifeOf(n)' = [LifeOf(n) EXCEPT ![k] = 0]
  <2>1. Life(r, k, size) = 0 /\ \A j \in K \ {k} : Life(r, j, size) = Life(q, j, size)
    BY <1>1, <1>8, DeleteFollows
  <2> QED
    BY <1>3, <2>1
<1> QED
  BY <1>4, <1>5, <1>6, <1>7, <1>8

LEMMA RecentInit ==
  ASSUME StoreInit, NEW n \in Queues PROVE LifeOf(n) = [k \in Keys[n] |-> 0]
<1>1. store.queue[n] = NewCQueue(Keys[n], Size[n]) /\ Size[n] \in Nat \ {0}
  BY SizesArePositive DEF StoreInit, New
<1>2. \A k \in Keys[n] : Life(store.queue[n], k, Size[n]) = 0
  BY <1>1, NewQueueFollows
<1> QED
  BY <1>2 DEF LifeOf

(* Whatever the program stores and deletes, and in whatever order, a map   *)
(* of the store drops an element exactly when as many elements as its      *)
(* queue is long were put after it (cqueue.go and the Set methods of       *)
(* memstore/store.go).                                                     *)
THEOREM StoreKeepsTheMostRecent == StoreSpec => ImplementsRecent
<1>1. StoreSpec => RecentPosts!Spec
  <2>0. /\ "posts" \in Queues /\ Keys["posts"] = Posts /\ Size["posts"] = MaxStoredPosts
        /\ LifeOf("posts") = [p \in Posts |-> Life(store.queue["posts"], p, MaxStoredPosts)]
        /\ LifeOf("posts")' = [p \in Posts |-> Life(store.queue["posts"], p, MaxStoredPosts)]'
    BY DEF Queues, Keys, Size, LifeOf
  <2>1. StoreInit => RecentPosts!Init
    BY <2>0, RecentInit DEF RecentPosts!Init
  <2>2. ASSUME StoreInv, [StoreNext]_store
        PROVE  [RecentPosts!Next]_([p \in Posts |-> Life(store.queue["posts"], p, MaxStoredPosts)])
    <3>1. Recent("posts")
      BY <2>0, <2>2, RecentStep
    <3>2. ASSUME LifeOf("posts")' = [k \in Posts |-> 0] PROVE RecentPosts!Clear
      BY <2>0, <3>2 DEF RecentPosts!Clear
    <3>3. ASSUME NEW k \in Posts, LifeOf("posts")' = [LifeOf("posts") EXCEPT ![k] = 0]
          PROVE  RecentPosts!Delete(k)
      BY <2>0, <3>3 DEF RecentPosts!Delete
    <3>4. ASSUME NEW k \in Posts,
                 LifeOf("posts")' =
                   [j \in Posts |-> IF j = k THEN MaxStoredPosts
                     ELSE IF LifeOf("posts")[j] > 0 THEN LifeOf("posts")[j] - 1 ELSE 0]
          PROVE  RecentPosts!Put(k)
      BY <2>0, <3>4 DEF RecentPosts!Put
    <3>5. CASE LifeOf("posts")' = LifeOf("posts")
      BY <2>0, <3>5
    <3>6. ASSUME NEW k \in Keys["posts"],
                 \/ LifeOf("posts")' = [LifeOf("posts") EXCEPT ![k] = 0]
                 \/ LifeOf("posts")' =
                      [j \in Keys["posts"] |-> IF j = k THEN Size["posts"]
                        ELSE IF LifeOf("posts")[j] > 0 THEN LifeOf("posts")[j] - 1 ELSE 0]
          PROVE  RecentPosts!Next
      BY <2>0, <3>3, <3>4, <3>6 DEF RecentPosts!Next
    <3>7. CASE LifeOf("posts")' = [k \in Keys["posts"] |-> 0]
      BY <2>0, <3>2, <3>7 DEF RecentPosts!Next
    <3> QED
      BY <3>1, <3>5, <3>6, <3>7 DEF Recent
  <2> QED
    BY <2>1, <2>2, StoreInvAlways, PTL DEF StoreSpec, RecentPosts!Spec
<1>2. StoreSpec => RecentMembers!Spec
  <2>0. /\ "members" \in Queues /\ Keys["members"] = Channels \X Users /\ Size["members"] = MaxStoredChannelMembers
        /\ LifeOf("members") = [m \in Channels \X Users |-> Life(store.queue["members"], m, MaxStoredChannelMembers)]
        /\ LifeOf("members")' = [m \in Channels \X Users |-> Life(store.queue["members"], m, MaxStoredChannelMembers)]'
    BY DEF Queues, Keys, Size, LifeOf
  <2>1. StoreInit => RecentMembers!Init
    BY <2>0, RecentInit DEF RecentMembers!Init
  <2>2. ASSUME StoreInv, [StoreNext]_store
        PROVE  [RecentMembers!Next]_([m \in Channels \X Users |-> Life(store.queue["members"], m, MaxStoredChannelMembers)])
    <3>1. Recent("members")
      BY <2>0, <2>2, RecentStep
    <3>2. ASSUME LifeOf("members")' = [k \in Channels \X Users |-> 0] PROVE RecentMembers!Clear
      BY <2>0, <3>2 DEF RecentMembers!Clear
    <3>3. ASSUME NEW k \in Channels \X Users, LifeOf("members")' = [LifeOf("members") EXCEPT ![k] = 0]
          PROVE  RecentMembers!Delete(k)
      BY <2>0, <3>3 DEF RecentMembers!Delete
    <3>4. ASSUME NEW k \in Channels \X Users,
                 LifeOf("members")' =
                   [j \in Channels \X Users |-> IF j = k THEN MaxStoredChannelMembers
                     ELSE IF LifeOf("members")[j] > 0 THEN LifeOf("members")[j] - 1 ELSE 0]
          PROVE  RecentMembers!Put(k)
      BY <2>0, <3>4 DEF RecentMembers!Put
    <3>5. CASE LifeOf("members")' = LifeOf("members")
      BY <2>0, <3>5
    <3>6. ASSUME NEW k \in Keys["members"],
                 \/ LifeOf("members")' = [LifeOf("members") EXCEPT ![k] = 0]
                 \/ LifeOf("members")' =
                      [j \in Keys["members"] |-> IF j = k THEN Size["members"]
                        ELSE IF LifeOf("members")[j] > 0 THEN LifeOf("members")[j] - 1 ELSE 0]
          PROVE  RecentMembers!Next
      BY <2>0, <3>3, <3>4, <3>6 DEF RecentMembers!Next
    <3>7. CASE LifeOf("members")' = [k \in Keys["members"] |-> 0]
      BY <2>0, <3>2, <3>7 DEF RecentMembers!Next
    <3> QED
      BY <3>1, <3>5, <3>6, <3>7 DEF Recent
  <2> QED
    BY <2>1, <2>2, StoreInvAlways, PTL DEF StoreSpec, RecentMembers!Spec
<1>3. StoreSpec => RecentUsers!Spec
  <2>0. /\ "users" \in Queues /\ Keys["users"] = Users /\ Size["users"] = MaxStoredUsers
        /\ LifeOf("users") = [u \in Users |-> Life(store.queue["users"], u, MaxStoredUsers)]
        /\ LifeOf("users")' = [u \in Users |-> Life(store.queue["users"], u, MaxStoredUsers)]'
    BY DEF Queues, Keys, Size, LifeOf
  <2>1. StoreInit => RecentUsers!Init
    BY <2>0, RecentInit DEF RecentUsers!Init
  <2>2. ASSUME StoreInv, [StoreNext]_store
        PROVE  [RecentUsers!Next]_([u \in Users |-> Life(store.queue["users"], u, MaxStoredUsers)])
    <3>1. Recent("users")
      BY <2>0, <2>2, RecentStep
    <3>2. ASSUME LifeOf("users")' = [k \in Users |-> 0] PROVE RecentUsers!Clear
      BY <2>0, <3>2 DEF RecentUsers!Clear
    <3>3. ASSUME NEW k \in Users, LifeOf("users")' = [LifeOf("users") EXCEPT ![k] = 0]
          PROVE  RecentUsers!Delete(k)
      BY <2>0, <3>3 DEF RecentUsers!Delete
    <3>4. ASSUME NEW k \in Users,
                 LifeOf("users")' =
                   [j \in Users |-> IF j = k THEN MaxStoredUsers
                     ELSE IF LifeOf("users")[j] > 0 THEN LifeOf("users")[j] - 1 ELSE 0]
          PROVE  RecentUsers!Put(k)
      BY <2>0, <3>4 DEF RecentUsers!Put
    <3>5. CASE LifeOf("users")' = LifeOf("users")
      BY <2>0, <3>5
    <3>6. ASSUME NEW k \in Keys["users"],
                 \/ LifeOf("users")' = [LifeOf("users") EXCEPT ![k] = 0]
                 \/ LifeOf("users")' =
                      [j \in Keys["users"] |-> IF j = k THEN Size["users"]
                        ELSE IF LifeOf("users")[j] > 0 THEN LifeOf("users")[j] - 1 ELSE 0]
          PROVE  RecentUsers!Next
      BY <2>0, <3>3, <3>4, <3>6 DEF RecentUsers!Next
    <3>7. CASE LifeOf("users")' = [k \in Keys["users"] |-> 0]
      BY <2>0, <3>2, <3>7 DEF RecentUsers!Next
    <3> QED
      BY <3>1, <3>5, <3>6, <3>7 DEF Recent
  <2> QED
    BY <2>1, <2>2, StoreInvAlways, PTL DEF StoreSpec, RecentUsers!Spec
<1>4. StoreSpec => RecentStatuses!Spec
  <2>0. /\ "statuses" \in Queues /\ Keys["statuses"] = Users /\ Size["statuses"] = MaxStoredStatuses
        /\ LifeOf("statuses") = [u \in Users |-> Life(store.queue["statuses"], u, MaxStoredStatuses)]
        /\ LifeOf("statuses")' = [u \in Users |-> Life(store.queue["statuses"], u, MaxStoredStatuses)]'
    BY DEF Queues, Keys, Size, LifeOf
  <2>1. StoreInit => RecentStatuses!Init
    BY <2>0, RecentInit DEF RecentStatuses!Init
  <2>2. ASSUME StoreInv, [StoreNext]_store
        PROVE  [RecentStatuses!Next]_([u \in Users |-> Life(store.queue["statuses"], u, MaxStoredStatuses)])
    <3>1. Recent("statuses")
      BY <2>0, <2>2, RecentStep
    <3>2. ASSUME LifeOf("statuses")' = [k \in Users |-> 0] PROVE RecentStatuses!Clear
      BY <2>0, <3>2 DEF RecentStatuses!Clear
    <3>3. ASSUME NEW k \in Users, LifeOf("statuses")' = [LifeOf("statuses") EXCEPT ![k] = 0]
          PROVE  RecentStatuses!Delete(k)
      BY <2>0, <3>3 DEF RecentStatuses!Delete
    <3>4. ASSUME NEW k \in Users,
                 LifeOf("statuses")' =
                   [j \in Users |-> IF j = k THEN MaxStoredStatuses
                     ELSE IF LifeOf("statuses")[j] > 0 THEN LifeOf("statuses")[j] - 1 ELSE 0]
          PROVE  RecentStatuses!Put(k)
      BY <2>0, <3>4 DEF RecentStatuses!Put
    <3>5. CASE LifeOf("statuses")' = LifeOf("statuses")
      BY <2>0, <3>5
    <3>6. ASSUME NEW k \in Keys["statuses"],
                 \/ LifeOf("statuses")' = [LifeOf("statuses") EXCEPT ![k] = 0]
                 \/ LifeOf("statuses")' =
                      [j \in Keys["statuses"] |-> IF j = k THEN Size["statuses"]
                        ELSE IF LifeOf("statuses")[j] > 0 THEN LifeOf("statuses")[j] - 1 ELSE 0]
          PROVE  RecentStatuses!Next
      BY <2>0, <3>3, <3>4, <3>6 DEF RecentStatuses!Next
    <3>7. CASE LifeOf("statuses")' = [k \in Keys["statuses"] |-> 0]
      BY <2>0, <3>2, <3>7 DEF RecentStatuses!Next
    <3> QED
      BY <3>1, <3>5, <3>6, <3>7 DEF Recent
  <2> QED
    BY <2>1, <2>2, StoreInvAlways, PTL DEF StoreSpec, RecentStatuses!Spec
<1> QED
  BY <1>1, <1>2, <1>3, <1>4 DEF ImplementsRecent
=============================================================================
