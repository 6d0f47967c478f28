-------------------------- MODULE UserSessionProofs --------------------------
(***************************************************************************)
(* Theorems about UserSession, for every server, every size of the store   *)
(* and every script.  The programs are sequences of instructions within    *)
(* instructions, run again after errors; what is known before and after    *)
(* each is a judgement, as the types of a programming language are.        *)
(***************************************************************************)
EXTENDS UserSession, MemStoreProofs, SequenceTheorems

-----------------------------------------------------------------------------
(* What a goroutine knows: a set of facts.  <<r, k>> says that register r  *)
(* holds something of kind k, or a set of such things (got), <<"here", w>> *)
(* which controller it is, or that it is the goroutine that runs actions,  *)
(* and <<"left", k, x>> that x, which a loop is still to take, is of kind  *)
(* k.                                                                      *)
IsMain == <<"here", "main">>
IsSimul == <<"here", "simul">>
IsSimple == <<"here", "simple">>
Some == <<"nonempty", "got">>

Registers == {"team", "chan", "prev", "post", "user"}
Sets == {"ids", "users", "noStatus", "noUser"}

Here(G) == G \intersect {IsMain, IsSimul, IsSimple}
Kill(G, R) == {f \in G : f[1] \notin R}
About(r, K) == {<<r, k>> : k \in K}
Left(K, X) == {<<"left", k, x>> : k \in K, x \in X}

(* What an answer of the server consists of.                               *)
Got(what) ==
  CASE what \in {"newUser", "me"} -> About("got", {"cred"})
    [] what \in {"teams", "ownTeams"} -> About("got", {"team"})
    [] what \in {"ownChannels", "publicChannels"} -> About("got", {"channel"})
    [] what \in {"ownMembers", "members"} -> About("got", {"member"})
    [] what \in {"posts", "editPost", "newPost"} -> About("got", {"post"})
    [] what \in {"users", "usersByIds"} -> About("got", {"user"})
    [] what = "prefs" -> About("got", {"pref"})
    [] what = "joinChannel" -> {<<"chan", "joined">>}
    [] what \in ChannelTypes -> About("got", {"channel", "joined"}) \union {Some}
    [] OTHER -> {}

(* What has to be known to ask.                                            *)
MayAsk(what, arg, G) ==
  /\ what # "leaveChannel"
  /\ what \in {"view", "newPost"} => arg \in Registers /\ <<arg, "joined">> \in G
  /\ what = "joinTeam" => <<"team", "team">> \in G
  /\ what \in {"joinChannel", "members"} => <<"chan", "channel">> \in G
  /\ what = "newPref" => <<"chan", "direct">> \in G
  /\ what = "usersByIds" => arg \in Sets
  /\ what \in {"ownMembers", "members", "joinChannel"} \union ChannelTypes => IsMain \in G

(* What has to be known to call the store, and what is known then.         *)
Takes ==
  [ SetUser |-> "cred", SetPreferences |-> "pref", SetPost |-> "post", DeletePost |-> "post",
    SetStatus |-> "user", SetOneUser |-> "user", SetOneMember |-> "member",
    SetChannelMember |-> "joined", SetTeams |-> "team", SetTeam |-> "team",
    SetTeamMember |-> "team", SetChannel |-> "channel", SetChannelView |-> "channel",
    SetProfileImage |-> "user", SetCurrentTeam |-> "team", SetCurrentChannel |-> "viewed" ]

TakesSet == {"SetPreferences", "SetTeams"}

MayCall(call, arg, G) ==
  \/ call \in {"Lock", "Unlock"}
  \/ call = "Clear" /\ IsMain \in G
  \/ /\ call \in DOMAIN Takes
     /\ <<arg, Takes[call]>> \in G
     /\ arg \in IF call \in TakesSet THEN {"got"} ELSE Registers \union {"item"}
     /\ call = "SetChannelView" => IsMain \in G
     /\ call = "SetCurrentChannel" => {<<arg, "joined">>, IsMain, IsSimul} \subseteq G
  \/ /\ call \in {"SetReaction", "DeleteReaction"}
     /\ <<"post", "post">> \in G
     /\ arg = "me" \/ (arg = "user" /\ <<"user", "user">> \in G)

Called(call, arg, G) ==
  CASE call = "Clear" -> {f \in G : f[2] # "viewed"}
    [] call = "SetChannelView" -> G \union {<<arg, "viewed">>}
    [] OTHER -> G

(* What the choices are made from, and the conditions teach.               *)
Chosen(from, G) ==
  CASE from \in {"currentTeam", "teamsToJoin", "myTeams"} -> {"team"}
    [] from = "currentChannel" -> {"channel", "joined"}
    [] from = "teamsChannels" -> {"channel"}
    [] from \in {"posts", "channelPosts", "myPosts"} -> {"post"}
    [] from \in {"channelMembers", "others", "anyone", "users"} -> {"user"}
    [] from = "author" /\ <<"post", "post">> \in G -> {"user"}
    [] from = "got" -> {k \in {"user", "channel", "joined", "cred", "team", "post", "member"} :
                          <<"got", k>> \in G}
    [] OTHER -> {}

Learnt(cond) ==
  CASE cond = "postStored" -> {<<"post", "post">>}
    [] cond = "directOrGroup" -> {<<"chan", "direct">>}
    [] OTHER -> {}

(* An instruction fits where G is known, and M is known when it and what   *)
(* it runs is over; the judgements on the latter are in W.                 *)
AskFits(i, G, M, W) ==
  /\ i.op \in {"ask", "try"}
  /\ MayAsk(i.what, i.arg, G)
  /\ <<i.then, Kill(G, {"got", "nonempty"}) \union Got(i.what), M>> \in W
  /\ i.op = "try" => M \subseteq G

DoFits(i, G, M) ==
  /\ i.op = "do"
  /\ MayCall(i.call, i.arg, G)
  /\ M \subseteq Called(i.call, i.arg, G)

PickFits(i, G, M, W) ==
  /\ i.op = "pick"
  /\ i.into \in Registers
  /\ \E N : <<i.none, G, N>> \in W
  /\ \/ i.from = "directChannelByName"
     \/ i.from = "theChannel" /\ i.into = "chan" /\ M \subseteq G
     \/ M \subseteq Kill(G, {i.into}) \union About(i.into, Chosen(i.from, G))

PickTeamFits(i, G, M, W) ==
  /\ i.op = "pickTeam"
  /\ \E N : <<i.none, G, N>> \in W
  /\ M \subseteq Kill(G, {"team"}) \union {<<"team", "team">>}

PickChannelFits(i, G, M, W) ==
  /\ i.op = "pickChannel"
  /\ IsMain \in G
  /\ \E N : <<i.none, G, N>> \in W
  /\ M \subseteq Kill(G, {"chan"}) \union
       About("chan", IF "NotMemberOf" \in i.st THEN {"channel"} ELSE {"channel", "joined"})

(* A loop that is under way holds the elements it has left.                *)
EachFits(i, G, M, W) ==
  /\ i.op = "each" /\ "left" \notin DOMAIN i
  /\ i.into \in Registers \union {"item"}
  /\ <<i.do, Kill(G, {i.into}) \union About(i.into, Chosen(i.from, G)), M>> \in W
  /\ <<i.do, Kill(M, {i.into}) \union About(i.into, Chosen(i.from, G)), M>> \in W
  /\ M \subseteq G \/ (i.from = "got" /\ Some \in G)

LoopFits(i, G, M, W) ==
  /\ i.op = "each" /\ "left" \in DOMAIN i
  /\ i.into \in Registers \union {"item"}
  /\ \E K : /\ "viewed" \notin K
            /\ Left(K, i.left) \subseteq G
            /\ <<i.do, Kill(M, {i.into}) \union About(i.into, K), M>> \in W
  /\ M \subseteq G

IfFits(i, G, M, W) ==
  /\ i.op = "if"
  /\ <<i.then, G \union Learnt(i.cond), M>> \in W
  /\ M \subseteq G

GatherFits(i, G, M) ==
  /\ i.op = "gather"
  /\ i.into \in Sets
  /\ \/ i.from \in {"nobody", "me", "preferred", "postsAuthors"}
     \/ i.from = "theUser" /\ <<"user", "user">> \in G
  /\ M \subseteq G

CollectFits(i, G, M) ==
  /\ i.op = "collect"
  /\ i.into \in Sets /\ <<"user", "user">> \in G
  /\ M \subseteq G

MaybeFits(i, G, M, W) ==
  /\ i.op = "maybe"
  /\ <<i.then, G, M>> \in W
  /\ M \subseteq G

(* What is run instead knows no more than which goroutine it is.  The      *)
(* programs that run one another are judged one by one.                    *)
RunFits(i, G) ==
  i.op = "run" /\ i.name \in {"login", "loginReload"} /\ {IsMain, IsSimul} \subseteq G

CatchFits(i, G, M, W) ==
  i.op = "catch" /\ M \subseteq G /\ \E N : <<i.next, Here(G), N>> \in W

EndFits(i) == i.op \in {"info", "err", "panic", "spin"}

LinkFits(i, G, M) == i.op \in {"connect", "disconnect"} /\ M \subseteq G

Fits(i, G, M, W) ==
  \/ AskFits(i, G, M, W) \/ DoFits(i, G, M) \/ PickFits(i, G, M, W)
  \/ PickTeamFits(i, G, M, W) \/ PickChannelFits(i, G, M, W) \/ EachFits(i, G, M, W)
  \/ LoopFits(i, G, M, W) \/ IfFits(i, G, M, W) \/ GatherFits(i, G, M)
  \/ CollectFits(i, G, M) \/ MaybeFits(i, G, M, W) \/ RunFits(i, G)
  \/ CatchFits(i, G, M, W) \/ EndFits(i) \/ LinkFits(i, G, M)

(* A set of judgements <<p, G, H>> that justify one another: where G is    *)
(* known, program p can be run, and H is known after it.                   *)
Justified(p, G, H, W) ==
  \/ p = <<>> /\ H \subseteq G
  \/ p # <<>> /\ \E E, M : /\ E \subseteq G
                           /\ Fits(Head(p), E, M, W)
                           /\ <<Tail(p), M, H>> \in W

Judgements(I, W) ==
  \A x \in W : /\ x = <<x[1], x[2], x[3]>>
               /\ x[1] \in Seq(I)
               /\ Justified(x[1], x[2], x[3], W)

Typed(p, G, H) == \E I, W : Judgements(I, W) /\ <<p, G, H>> \in W

-----------------------------------------------------------------------------
(* Judgements about any programs.                                          *)
LEMMA FitsMore ==
  ASSUME NEW i, NEW G, NEW M, NEW W, NEW V, W \subseteq V, Fits(i, G, M, W)
  PROVE  Fits(i, G, M, V)
<1>1. CASE AskFits(i, G, M, W) BY <1>1 DEF AskFits, Fits
<1>2. CASE PickFits(i, G, M, W) BY <1>2 DEF PickFits, Fits
<1>3. CASE PickTeamFits(i, G, M, W) BY <1>3 DEF PickTeamFits, Fits
<1>4. CASE PickChannelFits(i, G, M, W) BY <1>4 DEF PickChannelFits, Fits
<1>5. CASE EachFits(i, G, M, W) BY <1>5 DEF EachFits, Fits
<1>6. CASE LoopFits(i, G, M, W) BY <1>6 DEF LoopFits, Fits
<1>7. CASE IfFits(i, G, M, W) BY <1>7 DEF IfFits, Fits
<1>8. CASE MaybeFits(i, G, M, W) BY <1>8 DEF MaybeFits, Fits
<1>9. CASE RunFits(i, G) BY <1>9 DEF Fits
<1>10. CASE CatchFits(i, G, M, W) BY <1>10 DEF CatchFits, Fits
<1> QED BY <1>1, <1>2, <1>3, <1>4, <1>5, <1>6, <1>7, <1>8, <1>9, <1>10 DEF Fits

LEMMA JustifiedMore ==
  ASSUME NEW p, NEW G, NEW H, NEW W, NEW V, W \subseteq V, Justified(p, G, H, W)
  PROVE  Justified(p, G, H, V)
<1>1. CASE p = <<>> /\ H \subseteq G
  BY <1>1 DEF Justified
<1>2. ASSUME p # <<>>, NEW E, NEW M, E \subseteq G, Fits(Head(p), E, M, W), <<Tail(p), M, H>> \in W
      PROVE  Justified(p, G, H, V)
  BY <1>2, FitsMore DEF Justified
<1> QED BY <1>1, <1>2 DEF Justified

LEMMA Together ==
  ASSUME NEW I, NEW J, NEW W, NEW V, Judgements(I, W), Judgements(J, V)
  PROVE  Judgements(I \union J, W \union V)
<1> SUFFICES ASSUME NEW x \in W \union V
             PROVE  /\ x = <<x[1], x[2], x[3]>> /\ x[1] \in Seq(I \union J)
                    /\ Justified(x[1], x[2], x[3], W \union V)
  BY DEF Judgements
<1>1. CASE x \in W
  <2>1. x[1] \in Seq(I) /\ Justified(x[1], x[2], x[3], W) /\ x = <<x[1], x[2], x[3]>>
    BY <1>1 DEF Judgements
  <2> QED BY <2>1, JustifiedMore, SeqMonotonic, W \subseteq W \union V, I \subseteq I \union J
<1>2. CASE x \in V
  <2>1. x[1] \in Seq(J) /\ Justified(x[1], x[2], x[3], V) /\ x = <<x[1], x[2], x[3]>>
    BY <1>2 DEF Judgements
  <2> QED BY <2>1, JustifiedMore, SeqMonotonic, V \subseteq W \union V, J \subseteq I \union J
<1> QED BY <1>1, <1>2

(* One more judgement, which the others justify.                           *)
LEMMA OneMore ==
  ASSUME NEW I, NEW W, Judgements(I, W), NEW p \in Seq(I), NEW G, NEW H, Justified(p, G, H, W)
  PROVE  Typed(p, G, H)
<1> DEFINE V == W \union {<<p, G, H>>}
<1>1. \A x \in W : Justified(x[1], x[2], x[3], V)
  BY JustifiedMore, W \subseteq V DEF Judgements
<1>2. Justified(p, G, H, V)
  BY JustifiedMore, W \subseteq V
<1>3. \A x \in W : x = <<x[1], x[2], x[3]>> /\ x[1] \in Seq(I)
  BY DEF Judgements
<1>4. ASSUME NEW x \in V
      PROVE  x = <<x[1], x[2], x[3]>> /\ x[1] \in Seq(I) /\ Justified(x[1], x[2], x[3], V)
  <2>1. CASE x \in W BY <2>1, <1>1, <1>3
  <2>2. CASE x = <<p, G, H>> BY <2>2, <1>2
  <2> QED BY <2>1, <2>2
<1>5. Judgements(I, V)
  BY <1>4 DEF Judgements
<1> QED BY <1>5 DEF Typed

LEMMA Nothing ==
  ASSUME NEW G, NEW H, H \subseteq G
  PROVE  Typed(<<>>, G, H)
<1>1. Judgements({}, {})
  BY DEF Judgements
<1>2. <<>> \in Seq({}) /\ Justified(<<>>, G, H, {})
  BY DEF Justified
<1> QED BY <1>1, <1>2, OneMore

LEMMA IsSequence ==
  ASSUME NEW p, NEW G, NEW H, Typed(p, G, H) PROVE \E I : p \in Seq(I)
BY DEF Typed, Judgements

LEMMA KnowMore ==
  ASSUME NEW p, NEW G, NEW H, NEW E, G \subseteq E, Typed(p, G, H)
  PROVE  Typed(p, E, H)
<1>1. PICK I, W : Judgements(I, W) /\ <<p, G, H>> \in W
  BY DEF Typed
<1>2. p \in Seq(I) /\ Justified(p, G, H, W)
  BY <1>1 DEF Judgements
<1>3. Justified(p, E, H, W)
  BY <1>2 DEF Justified
<1> QED BY <1>1, <1>2, <1>3, OneMore

LEMMA KnowLess ==
  ASSUME NEW p, NEW G, NEW H, NEW I, NEW W, Judgements(I, W), <<p, G, H>> \in W
  PROVE  Typed(p, G, H)
BY DEF Typed

(* A goroutine takes the first instruction of what it has to do.           *)
LEMMA First ==
  ASSUME NEW p, NEW G, NEW H, Typed(p, G, H), p # <<>>
  PROVE  \E I, W, E, M :
           /\ Judgements(I, W) /\ E \subseteq G
           /\ Fits(Head(p), E, M, W)
           /\ Typed(Tail(p), M, H)
<1>1. PICK I, W : Judgements(I, W) /\ <<p, G, H>> \in W
  BY DEF Typed
<1>2. Justified(p, G, H, W)
  BY <1>1 DEF Judgements
<1>3. PICK E, M : E \subseteq G /\ Fits(Head(p), E, M, W) /\ <<Tail(p), M, H>> \in W
  BY <1>2 DEF Justified
<1> QED BY <1>1, <1>3, KnowLess

LEMMA HeadTailConcat ==
  ASSUME NEW I, NEW p \in Seq(I), NEW q \in Seq(I), p # <<>>
  PROVE  p \o q # <<>> /\ Head(p \o q) = Head(p) /\ Tail(p \o q) = Tail(p) \o q
<1>1. /\ p \o q \in Seq(I) /\ Len(p \o q) = Len(p) + Len(q)
      /\ \A j \in 1..Len(p) + Len(q) :
           (p \o q)[j] = IF j <= Len(p) THEN p[j] ELSE q[j - Len(p)]
  BY ConcatProperties
<1>2. Len(p) \in Nat \ {0} /\ Len(q) \in Nat
  BY EmptySeq, LenProperties
<1>3. p \o q # <<>>
  BY <1>1, <1>2
<1>4. /\ Tail(p) \in Seq(I) /\ Len(Tail(p)) = Len(p) - 1
      /\ \A j \in 1..Len(Tail(p)) : Tail(p)[j] = p[j + 1]
  BY HeadTailProperties
<1>5. /\ Tail(p \o q) \in Seq(I) /\ Len(Tail(p \o q)) = Len(p) + Len(q) - 1
      /\ \A j \in 1..Len(p) + Len(q) - 1 : Tail(p \o q)[j] = (p \o q)[j + 1]
  BY <1>1, <1>3, HeadTailProperties
<1>6. /\ Tail(p) \o q \in Seq(I) /\ Len(Tail(p) \o q) = Len(p) - 1 + Len(q)
      /\ \A j \in 1..Len(p) - 1 + Len(q) :
           (Tail(p) \o q)[j] = IF j <= Len(p) - 1 THEN Tail(p)[j] ELSE q[j - (Len(p) - 1)]
  BY <1>4, ConcatProperties
<1>7. ASSUME NEW j \in 1..Len(p) + Len(q) - 1
      PROVE  Tail(p \o q)[j] = (Tail(p) \o q)[j]
  BY <1>1, <1>2, <1>4, <1>5, <1>6
<1>8. Tail(p \o q) = Tail(p) \o q
  BY <1>2, <1>5, <1>6, <1>7, SeqEqual
<1>9. Head(p \o q) = (p \o q)[1] /\ Head(p) = p[1]
  OBVIOUS
<1> QED BY <1>1, <1>2, <1>3, <1>8, <1>9

(* One program after another.                                              *)
LEMMA InTurn ==
  ASSUME NEW p, NEW q, NEW G, NEW M, NEW H, Typed(p, G, M), Typed(q, M, H)
  PROVE  Typed(p \o q, G, H)
<1>1. PICK I, W : Judgements(I, W) /\ <<p, G, M>> \in W
  BY DEF Typed
<1>2. PICK J, V : Judgements(J, V) /\ <<q, M, H>> \in V
  BY DEF Typed
<1> DEFINE K == I \union J
           R == {<<x[1] \o q, x[2], H>> : x \in {y \in W : y[3] = M}}
           All == (W \union V) \union R
<1>3. Judgements(K, W \union V)
  BY <1>1, <1>2, Together
<1>4. q \in Seq(K) /\ Justified(q, M, H, W \union V)
  BY <1>2, <1>3 DEF Judgements
<1>5. ASSUME NEW x \in W, x[3] = M
      PROVE  /\ x[1] \o q \in Seq(K)
             /\ Justified(x[1] \o q, x[2], H, All)
  <2>1. x[1] \in Seq(K) /\ Justified(x[1], x[2], M, W)
    BY <1>1, <1>3, <1>5 DEF Judgements
  <2>2. x[1] \o q \in Seq(K)
    BY <1>4, <2>1, ConcatProperties
  <2>3. CASE x[1] = <<>> /\ M \subseteq x[2]
    <3>1. x[1] \o q = q
      BY <1>4, <2>3, ConcatEmptySeq
    <3>2. Justified(q, x[2], H, W \union V)
      BY <1>4, <2>3 DEF Justified
    <3> QED BY <2>2, <3>1, <3>2, JustifiedMore
  <2>4. ASSUME x[1] # <<>>, NEW E, NEW N, E \subseteq x[2], Fits(Head(x[1]), E, N, W),
               <<Tail(x[1]), N, M>> \in W
        PROVE  Justified(x[1] \o q, x[2], H, All)
    <3>1. /\ x[1] \o q # <<>> /\ Head(x[1] \o q) = Head(x[1])
          /\ Tail(x[1] \o q) = Tail(x[1]) \o q
      BY <1>4, <2>1, <2>4, HeadTailConcat
    <3>2. <<Tail(x[1]) \o q, N, H>> \in R
      <4> DEFINE y == <<Tail(x[1]), N, M>>
      <4>1. y \in W /\ y[1] = Tail(x[1]) /\ y[2] = N /\ y[3] = M
        BY <2>4
      <4> HIDE DEF y
      <4> QED BY <4>1
    <3>3. Fits(Head(x[1]), E, N, All)
      BY <2>4, FitsMore, W \subseteq All
    <3> QED BY <2>4, <3>1, <3>2, <3>3 DEF Justified
  <2> QED BY <2>1, <2>2, <2>3, <2>4 DEF Justified
<1>6. ASSUME NEW z \in All
      PROVE  z = <<z[1], z[2], z[3]>> /\ z[1] \in Seq(K) /\ Justified(z[1], z[2], z[3], All)
  <2>1. CASE z \in W \union V
    BY <2>1, <1>3, JustifiedMore, W \union V \subseteq All DEF Judgements
  <2>2. ASSUME NEW x \in W, x[3] = M, z = <<x[1] \o q, x[2], H>>
        PROVE  z = <<z[1], z[2], z[3]>> /\ z[1] \in Seq(K) /\ Justified(z[1], z[2], z[3], All)
    <3>1. z[1] = x[1] \o q /\ z[2] = x[2] /\ z[3] = H
      BY <2>2
    <3> QED BY <1>5, <2>2, <3>1
  <2> QED BY <2>1, <2>2
<1>7. <<p \o q, G, H>> \in All
  <2> DEFINE y == <<p, G, M>>
  <2>1. y \in W /\ y[1] = p /\ y[2] = G /\ y[3] = M
    BY <1>1
  <2> HIDE DEF y
  <2> QED BY <2>1
<1>8. Judgements(K, All)
  BY <1>6 DEF Judgements
<1> QED BY <1>7, <1>8 DEF Typed

LEMMA LearnLess ==
  ASSUME NEW p, NEW G, NEW M, NEW H, H \subseteq M, Typed(p, G, M)
  PROVE  Typed(p, G, H)
<1>1. PICK I : p \in Seq(I)
  BY IsSequence
<1>2. Typed(p \o <<>>, G, H)
  BY Nothing, InTurn
<1> QED BY <1>1, <1>2, ConcatEmptySeq

(* What a loop has left is known all along.                                *)
LEMMA Meanwhile ==
  ASSUME NEW p, NEW G, NEW H, NEW L, \A f \in L : f[1] = "left" /\ f[2] # "viewed",
         Typed(p, G, H)
  PROVE  Typed(p, G \union L, H \union L)
<1>1. PICK I, W : Judgements(I, W) /\ <<p, G, H>> \in W
  BY DEF Typed
<1> DEFINE R == {<<x[1], x[2] \union L, x[3] \union L>> : x \in W}
           All == W \union R
<1>2. ASSUME NEW q, NEW E, NEW M, <<q, E, M>> \in W
      PROVE  <<q, E \union L, M \union L>> \in R
  <2> DEFINE y == <<q, E, M>>
  <2>1. y \in W /\ y[1] = q /\ y[2] = E /\ y[3] = M
    BY <1>2
  <2> HIDE DEF y
  <2> QED BY <2>1
<1>3. ASSUME NEW E, NEW X, "left" \notin X PROVE Kill(E \union L, X) = Kill(E, X) \union L
  BY <1>3 DEF Kill
<1>4. ASSUME NEW E PROVE Here(E \union L) = Here(E)
  BY DEF Here, IsMain, IsSimul, IsSimple
<1>5. ASSUME NEW E, NEW from PROVE Chosen(from, E \union L) = Chosen(from, E)
  BY DEF Chosen
<1>6. ASSUME NEW i, NEW E, NEW M, Fits(i, E, M, W)
      PROVE  Fits(i, E \union L, M \union L, All)
  <2>1. CASE AskFits(i, E, M, W)
    <3>1. MayAsk(i.what, i.arg, E \union L)
      BY <2>1 DEF AskFits, MayAsk
    <3>2. (Kill(E, {"got", "nonempty"}) \union Got(i.what)) \union L
            = Kill(E \union L, {"got", "nonempty"}) \union Got(i.what)
      BY <1>3
    <3> QED BY <2>1, <1>2, <3>1, <3>2 DEF AskFits, Fits
  <2>2. CASE DoFits(i, E, M)
    <3>1. MayCall(i.call, i.arg, E \union L)
      BY <2>2 DEF DoFits, MayCall
    <3>2. Called(i.call, i.arg, E \union L) = Called(i.call, i.arg, E) \union L
      BY DEF Called
    <3> QED BY <2>2, <3>1, <3>2 DEF DoFits, Fits
  <2>3. CASE PickFits(i, E, M, W)
    <3>1. "left" \notin {i.into} /\ Kill(E \union L, {i.into}) = Kill(E, {i.into}) \union L
      BY <2>3, <1>3 DEF PickFits, Registers
    <3> QED BY <2>3, <1>2, <1>5, <3>1 DEF PickFits, Fits
  <2>4. CASE PickTeamFits(i, E, M, W)
    <3>1. Kill(E \union L, {"team"}) = Kill(E, {"team"}) \union L
      BY <1>3
    <3> QED BY <2>4, <1>2, <3>1 DEF PickTeamFits, Fits
  <2>5. CASE PickChannelFits(i, E, M, W)
    <3>1. Kill(E \union L, {"chan"}) = Kill(E, {"chan"}) \union L
      BY <1>3
    <3> QED BY <2>5, <1>2, <3>1 DEF PickChannelFits, Fits
  <2>6. CASE EachFits(i, E, M, W)
    <3>1. "left" \notin {i.into} BY <2>6 DEF EachFits, Registers
    <3>2. /\ Kill(E \union L, {i.into}) = Kill(E, {i.into}) \union L
          /\ Kill(M \union L, {i.into}) = Kill(M, {i.into}) \union L
      BY <3>1, <1>3
    <3>3. ASSUME NEW N, <<i.do, Kill(N, {i.into}) \union About(i.into, Chosen(i.from, E)), M>> \in W,
                 Kill(N \union L, {i.into}) = Kill(N, {i.into}) \union L
          PROVE  <<i.do, Kill(N \union L, {i.into}) \union About(i.into, Chosen(i.from, E \union L)),
                   M \union L>> \in R
      <4>1. Kill(N \union L, {i.into}) \union About(i.into, Chosen(i.from, E \union L))
              = (Kill(N, {i.into}) \union About(i.into, Chosen(i.from, E))) \union L
        BY <3>3, <1>5
      <4> QED BY <3>3, <4>1, <1>2
    <3>4. /\ <<i.do, Kill(E \union L, {i.into}) \union About(i.into, Chosen(i.from, E \union L)), M \union L>> \in R
          /\ <<i.do, Kill(M \union L, {i.into}) \union About(i.into, Chosen(i.from, E \union L)), M \union L>> \in R
      BY <2>6, <3>2, <3>3 DEF EachFits
    <3> QED BY <2>6, <3>4 DEF EachFits, Fits
  <2>7. CASE LoopFits(i, E, M, W)
    <3>1. "left" \notin {i.into} BY <2>7 DEF LoopFits, Registers
    <3>2. PICK K : /\ "viewed" \notin K /\ Left(K, i.left) \subseteq E
                   /\ <<i.do, Kill(M, {i.into}) \union About(i.into, K), M>> \in W
      BY <2>7 DEF LoopFits
    <3>3. (Kill(M, {i.into}) \union About(i.into, K)) \union L
            = Kill(M \union L, {i.into}) \union About(i.into, K)
      BY <3>1, <1>3
    <3>4. <<i.do, Kill(M \union L, {i.into}) \union About(i.into, K), M \union L>> \in R
      BY <1>2, <3>2, <3>3
    <3> QED BY <2>7, <3>2, <3>4 DEF LoopFits, Fits
  <2>8. CASE IfFits(i, E, M, W)
    <3>1. (E \union Learnt(i.cond)) \union L = (E \union L) \union Learnt(i.cond)
      OBVIOUS
    <3> QED BY <2>8, <1>2, <3>1 DEF IfFits, Fits
  <2>9. CASE GatherFits(i, E, M) \/ CollectFits(i, E, M)
    BY <2>9 DEF GatherFits, CollectFits, Fits
  <2>10. CASE MaybeFits(i, E, M, W)
    BY <2>10, <1>2 DEF MaybeFits, Fits
  <2>11. CASE RunFits(i, E)
    BY <2>11 DEF RunFits, Fits
  <2>12. CASE CatchFits(i, E, M, W)
    BY <2>12, <1>4 DEF CatchFits, Fits
  <2>13. CASE EndFits(i) \/ LinkFits(i, E, M)
    BY <2>13 DEF EndFits, LinkFits, Fits
  <2> QED BY <1>6, <2>1, <2>2, <2>3, <2>4, <2>5, <2>6, <2>7, <2>8, <2>9, <2>10, <2>11, <2>12,
    <2>13 DEF Fits
<1>7. ASSUME NEW x \in W
      PROVE  Justified(x[1], x[2] \union L, x[3] \union L, All)
  <2>1. Justified(x[1], x[2], x[3], W)
    BY <1>1 DEF Judgements
  <2>2. ASSUME x[1] # <<>>, NEW E, NEW M, E \subseteq x[2], Fits(Head(x[1]), E, M, W),
               <<Tail(x[1]), M, x[3]>> \in W
        PROVE  Justified(x[1], x[2] \union L, x[3] \union L, All)
    <3>1. Fits(Head(x[1]), E \union L, M \union L, All)
      BY <2>2, <1>6
    <3>2. <<Tail(x[1]), M \union L, x[3] \union L>> \in All
      BY <2>2, <1>2
    <3> QED BY <2>2, <3>1, <3>2 DEF Justified
  <2>3. CASE x[1] = <<>> /\ x[3] \subseteq x[2]
    BY <2>3 DEF Justified
  <2> QED BY <2>1, <2>2, <2>3 DEF Justified
<1>8. ASSUME NEW z \in All
      PROVE  z = <<z[1], z[2], z[3]>> /\ z[1] \in Seq(I) /\ Justified(z[1], z[2], z[3], All)
  <2>1. CASE z \in W
    BY <2>1, <1>1, JustifiedMore, W \subseteq All DEF Judgements
  <2>2. ASSUME NEW x \in W, z = <<x[1], x[2] \union L, x[3] \union L>>
        PROVE  z = <<z[1], z[2], z[3]>> /\ z[1] \in Seq(I) /\ Justified(z[1], z[2], z[3], All)
    <3>1. z[1] = x[1] /\ z[2] = x[2] \union L /\ z[3] = x[3] \union L
      BY <2>2
    <3>2. x[1] \in Seq(I) BY <1>1 DEF Judgements
    <3> QED BY <1>7, <2>2, <3>1, <3>2
  <2> QED BY <2>1, <2>2
<1>9. Judgements(I, All)
  BY <1>8 DEF Judgements
<1> QED BY <1>1, <1>2, <1>9 DEF Typed

-----------------------------------------------------------------------------
(* Judgements about the instructions.                                      *)
LEMMA Alone ==
  ASSUME NEW i, NEW G, NEW M, NEW I, NEW W, Judgements(I, W), Fits(i, G, M, W)
  PROVE  Typed(<<i>>, G, M)
<1>1. Typed(<<>>, M, M)
  BY Nothing
<1>2. PICK J, V : Judgements(J, V) /\ <<<<>>, M, M>> \in V
  BY <1>1 DEF Typed
<1>3. Judgements((I \union J) \union {i}, (W \union V) \union {})
  <2>1. Judgements({i}, {}) BY DEF Judgements
  <2> QED BY <1>2, <2>1, Together
<1>4. Fits(i, G, M, (W \union V) \union {})
  BY FitsMore, W \subseteq (W \union V) \union {}
<1>5. <<i>> \in Seq((I \union J) \union {i}) /\ <<i>> # <<>> /\ Head(<<i>>) = i /\ Tail(<<i>>) = <<>>
  OBVIOUS
<1>6. Justified(<<i>>, G, M, (W \union V) \union {})
  BY <1>2, <1>4, <1>5 DEF Justified
<1> QED BY <1>3, <1>5, <1>6, OneMore

LEMMA AskTyped ==
  ASSUME NEW w, NEW a, NEW p, NEW G, NEW M, MayAsk(w, a, G),
         Typed(p, Kill(G, {"got", "nonempty"}) \union Got(w), M)
  PROVE  /\ Typed(Ask(w, a, p), G, M)
         /\ M \subseteq G => Typed(Try(w, a, p), G, M)
<1>1. PICK I, W : Judgements(I, W) /\ <<p, Kill(G, {"got", "nonempty"}) \union Got(w), M>> \in W
  BY DEF Typed
<1>2. Fits([op |-> "ask", what |-> w, arg |-> a, then |-> p], G, M, W)
  BY <1>1 DEF AskFits, Fits
<1>3. M \subseteq G => Fits([op |-> "try", what |-> w, arg |-> a, then |-> p], G, M, W)
  BY <1>1 DEF AskFits, Fits
<1> QED BY <1>1, <1>2, <1>3, Alone DEF Ask, Try

LEMMA DoTyped ==
  ASSUME NEW call, NEW a, NEW G, MayCall(call, a, G)
  PROVE  Typed(Do(call, a), G, Called(call, a, G))
<1>1. Judgements({}, {})
  BY DEF Judgements
<1>2. Fits([op |-> "do", call |-> call, arg |-> a], G, Called(call, a, G), {})
  BY DEF DoFits, Fits
<1> QED BY <1>1, <1>2, Alone DEF Do

LEMMA PickTyped ==
  ASSUME NEW r \in Registers, NEW from, NEW p, NEW G, NEW N, Typed(p, G, N)
  PROVE  /\ Typed(Pick(r, from, p), G, Kill(G, {r}) \union About(r, Chosen(from, G)))
         /\ from = "theChannel" /\ r = "chan" => Typed(Pick(r, from, p), G, G)
         /\ from = "directChannelByName" => \A M : Typed(Pick(r, from, p), G, M)
<1>1. PICK I, W : Judgements(I, W) /\ <<p, G, N>> \in W
  BY DEF Typed
<1> DEFINE i == [op |-> "pick", into |-> r, from |-> from, none |-> p]
<1>2. Fits(i, G, Kill(G, {r}) \union About(r, Chosen(from, G)), W)
  BY <1>1 DEF PickFits, Fits
<1>3. from = "theChannel" /\ r = "chan" => Fits(i, G, G, W)
  BY <1>1 DEF PickFits, Fits
<1>4. from = "directChannelByName" => \A M : Fits(i, G, M, W)
  BY <1>1 DEF PickFits, Fits
<1> HIDE DEF i
<1>5. \A M : Fits(i, G, M, W) => Typed(<<i>>, G, M)
  BY <1>1, Alone
<1> QED BY <1>2, <1>3, <1>4, <1>5 DEF Pick, i

LEMMA PickTeamTyped ==
  ASSUME NEW st, NEW p, NEW G, NEW N, Typed(p, G, N)
  PROVE  Typed(PickTeam(st, p), G, Kill(G, {"team"}) \union {<<"team", "team">>})
<1>1. PICK I, W : Judgements(I, W) /\ <<p, G, N>> \in W
  BY DEF Typed
<1>2. Fits([op |-> "pickTeam", st |-> st, none |-> p], G,
           Kill(G, {"team"}) \union {<<"team", "team">>}, W)
  BY <1>1 DEF PickTeamFits, Fits
<1> QED BY <1>1, <1>2, Alone DEF PickTeam

LEMMA PickChannelTyped ==
  ASSUME NEW st, NEW p, NEW G, NEW N, IsMain \in G, Typed(p, G, N)
  PROVE  Typed(PickChannel(st, p), G, Kill(G, {"chan"}) \union
           About("chan", IF "NotMemberOf" \in st THEN {"channel"} ELSE {"channel", "joined"}))
<1>1. PICK I, W : Judgements(I, W) /\ <<p, G, N>> \in W
  BY DEF Typed
<1>2. Fits([op |-> "pickChannel", st |-> st, none |-> p], G, Kill(G, {"chan"}) \union
           About("chan", IF "NotMemberOf" \in st THEN {"channel"} ELSE {"channel", "joined"}), W)
  BY <1>1 DEF PickChannelFits, Fits
<1> QED BY <1>1, <1>2, Alone DEF PickChannel

LEMMA EachTyped ==
  ASSUME NEW r \in Registers \union {"item"}, NEW from, NEW p, NEW G, NEW M,
         Typed(p, Kill(G, {r}) \union About(r, Chosen(from, G)), M),
         Typed(p, Kill(M, {r}) \union About(r, Chosen(from, G)), M),
         M \subseteq G \/ (from = "got" /\ Some \in G)
  PROVE  Typed(Each(r, from, p), G, M)
<1>1. PICK I, W : Judgements(I, W) /\ <<p, Kill(G, {r}) \union About(r, Chosen(from, G)), M>> \in W
  BY DEF Typed
<1>2. PICK J, V : Judgements(J, V) /\ <<p, Kill(M, {r}) \union About(r, Chosen(from, G)), M>> \in V
  BY DEF Typed
<1>3. Judgements(I \union J, W \union V)
  BY <1>1, <1>2, Together
<1> DEFINE i == [op |-> "each", into |-> r, from |-> from, do |-> p]
<1>4. EachFits(i, G, M, W \union V)
  BY <1>1, <1>2 DEF EachFits
<1>5. Fits(i, G, M, W \union V)
  BY <1>4 DEF Fits
<1> HIDE DEF i
<1>6. Typed(<<i>>, G, M)
  BY <1>3, <1>5, Alone
<1> QED BY <1>6 DEF Each, i

LEMMA LoopTyped ==
  ASSUME NEW r \in Registers \union {"item"}, NEW X, NEW p, NEW K, NEW G, NEW M,
         "viewed" \notin K, Left(K, X) \subseteq G, M \subseteq G,
         Typed(p, Kill(M, {r}) \union About(r, K), M)
  PROVE  Typed(<<[op |-> "each", into |-> r, left |-> X, do |-> p]>>, G, M)
<1>1. PICK I, W : Judgements(I, W) /\ <<p, Kill(M, {r}) \union About(r, K), M>> \in W
  BY DEF Typed
<1> DEFINE i == [op |-> "each", into |-> r, left |-> X, do |-> p]
<1>2. i.op = "each" /\ "left" \in DOMAIN i /\ i.into = r /\ i.left = X /\ i.do = p
  OBVIOUS
<1> HIDE DEF i
<1>3. LoopFits(i, G, M, W)
  BY <1>1, <1>2 DEF LoopFits
<1>4. Typed(<<i>>, G, M)
  BY <1>1, <1>3, Alone DEF Fits
<1> QED BY <1>4 DEF i

LEMMA IfTyped ==
  ASSUME NEW cond, NEW p, NEW G, NEW M, M \subseteq G, Typed(p, G \union Learnt(cond), M)
  PROVE  Typed(If(cond, p), G, M)
<1>1. PICK I, W : Judgements(I, W) /\ <<p, G \union Learnt(cond), M>> \in W
  BY DEF Typed
<1>2. Fits([op |-> "if", cond |-> cond, then |-> p], G, M, W)
  BY <1>1 DEF IfFits, Fits
<1> QED BY <1>1, <1>2, Alone DEF If

LEMMA MaybeTyped ==
  ASSUME NEW p, NEW G, NEW M, M \subseteq G, Typed(p, G, M)
  PROVE  Typed(Maybe(p), G, M)
<1>1. PICK I, W : Judgements(I, W) /\ <<p, G, M>> \in W
  BY DEF Typed
<1>2. Fits([op |-> "maybe", then |-> p], G, M, W)
  BY <1>1 DEF MaybeFits, Fits
<1> QED BY <1>1, <1>2, Alone DEF Maybe

LEMMA RunTyped ==
  ASSUME NEW name \in {"login", "loginReload"}, NEW G, NEW M, {IsMain, IsSimul} \subseteq G
  PROVE  Typed(Run(name), G, M)
<1>1. Judgements({}, {})
  BY DEF Judgements
<1>2. Fits([op |-> "run", name |-> name], G, M, {})
  BY DEF RunFits, Fits
<1> QED BY <1>1, <1>2, Alone DEF Run

LEMMA CatchTyped ==
  ASSUME NEW p, NEW G, NEW N, Typed(p, Here(G), N)
  PROVE  Typed(Catch(p), G, G)
<1>1. PICK I, W : Judgements(I, W) /\ <<p, Here(G), N>> \in W
  BY DEF Typed
<1>2. Fits([op |-> "catch", next |-> p], G, G, W)
  BY <1>1 DEF CatchFits, Fits
<1> QED BY <1>1, <1>2, Alone DEF Catch

LEMMA OthersTyped ==
  ASSUME NEW G, NEW M
  PROVE  /\ Typed(Info, G, M) /\ Typed(Err, G, M) /\ Typed(Panic, G, M) /\ Typed(Spin, G, M)
         /\ Typed(Connect, G, G) /\ Typed(Disconnect, G, G)
         /\ \A r \in Sets : /\ \A f \in {"nobody", "me", "preferred", "postsAuthors"} :
                                Typed(Gather(r, f), G, G)
                            /\ <<"user", "user">> \in G =>
                                 Typed(Gather(r, "theUser"), G, G) /\ Typed(Collect(r), G, G)
<1>1. Judgements({}, {})
  BY DEF Judgements
<1>2. ASSUME NEW i, EndFits(i) PROVE Typed(<<i>>, G, M)
  BY <1>1, <1>2, Alone DEF Fits
<1>3. ASSUME NEW i, LinkFits(i, G, G) \/ GatherFits(i, G, G) \/ CollectFits(i, G, G)
      PROVE  Typed(<<i>>, G, G)
  BY <1>1, <1>3, Alone DEF Fits
<1>4. Typed(Info, G, M) /\ Typed(Err, G, M) /\ Typed(Panic, G, M) /\ Typed(Spin, G, M)
  BY <1>2 DEF EndFits, Info, Err, Panic, Spin
<1>5. Typed(Connect, G, G) /\ Typed(Disconnect, G, G)
  BY <1>3 DEF LinkFits, Connect, Disconnect
<1>6. ASSUME NEW r \in Sets, NEW f \in {"nobody", "me", "preferred", "postsAuthors"}
      PROVE  Typed(Gather(r, f), G, G)
  BY <1>3 DEF GatherFits, Gather
<1>7. ASSUME NEW r \in Sets, <<"user", "user">> \in G
      PROVE  Typed(Gather(r, "theUser"), G, G)
  BY <1>3, <1>7 DEF GatherFits, Gather
<1>8. ASSUME NEW r \in Sets, <<"user", "user">> \in G
      PROVE  Typed(Collect(r), G, G)
  BY <1>3, <1>8 DEF CollectFits, Collect
<1> QED BY <1>4, <1>5, <1>6, <1>7, <1>8

-----------------------------------------------------------------------------
(* Judgements about the requests.  UserRequests has the instructions under *)
(* names of its own.                                                       *)
LEMMA Words ==
  /\ \A w, a, p : U!Ask(w, a, p) = Ask(w, a, p) /\ U!Try(w, a, p) = Try(w, a, p)
  /\ \A c, a : U!Do(c, a) = Do(c, a)
  /\ \A r, f, p : U!Each(r, f, p) = Each(r, f, p) /\ U!Pick(r, f, p) = Pick(r, f, p)
  /\ \A c, p : U!If(c, p) = If(c, p)
  /\ U!Info = Info
BY DEF U!Ask, Ask, U!Try, Try, U!Do, Do, U!Each, Each, U!Pick, Pick, U!If, If, U!Info, Info

(* What is known of an answer is forgotten with the next.                  *)
Lasting(G) == \A f \in G : f[1] \notin {"got", "nonempty", "item"}

LEMMA AskEach ==
  ASSUME NEW w, NEW a, NEW call, NEW G, Lasting(G), MayAsk(w, a, G),
         call \in {"SetUser", "SetPost", "SetStatus", "SetOneUser", "SetOneMember",
                   "SetChannel", "SetTeamMember"},
         <<"got", Takes[call]>> \in Got(w)
  PROVE  /\ Typed(Ask(w, a, U!EachAnswered(call)), G, G)
         /\ Typed(Ask(w, a, U!Locked(call)), G, G)
         /\ Typed(Ask(w, a, U!Locked(call)), G, G \union {<<"got", Takes[call]>>})
<1> DEFINE E == Kill(G, {"got", "nonempty"}) \union Got(w)
           M == G \union {<<"got", Takes[call]>>}
           k == Takes[call]
<1>1. k \in {"user", "cred", "team", "post", "member", "channel"} /\ call \in DOMAIN Takes
        /\ call \notin {"SetChannelView", "SetCurrentChannel", "Clear"} \union TakesSet
  BY DEF Takes, TakesSet
<1>2. M \subseteq E /\ G \subseteq M
  BY DEF Kill, Lasting
<1>3. k \in Chosen("got", E)
  BY <1>1 DEF Chosen
<1>4. ASSUME NEW N, M \subseteq N
      PROVE  Typed(Do(call, "item"), Kill(N, {"item"}) \union About("item", Chosen("got", E)), M)
  <2> DEFINE N1 == Kill(N, {"item"}) \union About("item", Chosen("got", E))
  <2>1. <<"item", k>> \in N1
    BY <1>3 DEF About
  <2>2. M \subseteq N1
    BY <1>4 DEF Kill, Lasting
  <2>3. MayCall(call, "item", N1)
    BY <1>1, <2>1 DEF MayCall
  <2>4. Called(call, "item", N1) = N1
    BY <1>1 DEF Called
  <2> HIDE DEF N1
  <2>5. Typed(Do(call, "item"), N1, N1)
    BY <2>3, <2>4, DoTyped
  <2>6. Typed(Do(call, "item"), N1, M)
    BY <2>2, <2>5, LearnLess
  <2> QED BY <2>6 DEF N1
<1> HIDE DEF k, M
<1>5. Typed(Each("item", "got", Do(call, "item")), E, M)
  BY <1>2, <1>4, EachTyped
<1>6. Typed(Do("Lock", "item"), E, E) /\ Typed(Do("Unlock", "item"), M, M)
  BY DoTyped DEF MayCall, Called
<1>7. Typed(U!EachAnswered(call), E, M)
  BY <1>5, Words DEF U!EachAnswered
<1>8. Typed(U!Locked(call), E, M)
  BY <1>5, <1>6, Words, InTurn DEF U!Locked
<1>9. Typed(U!EachAnswered(call), E, G)
  BY <1>2, <1>7, LearnLess
<1>10. Typed(U!Locked(call), E, G)
  BY <1>2, <1>8, LearnLess
<1>11. Typed(Ask(w, a, U!EachAnswered(call)), G, G) /\ Typed(Ask(w, a, U!Locked(call)), G, G)
  BY <1>9, <1>10, AskTyped
<1>12. Typed(Ask(w, a, U!Locked(call)), G, M)
  BY <1>8, AskTyped
<1> QED BY <1>11, <1>12 DEF M, k

(* An answer that is stored as it is, or that is not used.                 *)
LEMMA AskDo ==
  ASSUME NEW w, NEW a, NEW call, NEW r, NEW G, Lasting(G), MayAsk(w, a, G),
         call # "Clear", MayCall(call, r, Kill(G, {"got", "nonempty"}) \union Got(w))
  PROVE  /\ Typed(Ask(w, a, Do(call, r)), G, G)
         /\ Typed(Try(w, a, Do(call, r)), G, G)
         /\ call = "SetChannelView" => Typed(Ask(w, a, Do(call, r)), G, G \union {<<r, "viewed">>})
<1> DEFINE E == Kill(G, {"got", "nonempty"}) \union Got(w)
<1>1. /\ G \subseteq Called(call, r, E)
      /\ call = "SetChannelView" => G \union {<<r, "viewed">>} \subseteq Called(call, r, E)
  BY DEF Kill, Lasting, Called
<1>2. Typed(Do(call, r), E, Called(call, r, E))
  BY DoTyped
<1> HIDE DEF E
<1>3. ASSUME NEW N, N \subseteq Called(call, r, E) PROVE Typed(Do(call, r), E, N)
  BY <1>2, <1>3, LearnLess
<1>4. /\ Typed(Do(call, r), E, G)
      /\ call = "SetChannelView" => Typed(Do(call, r), E, G \union {<<r, "viewed">>})
  BY <1>1, <1>3
<1> QED BY <1>4, AskTyped DEF E

LEMMA AskNothing ==
  ASSUME NEW w, NEW a, NEW G, Lasting(G), MayAsk(w, a, G)
  PROVE  Typed(Ask(w, a, <<>>), G, G) /\ Typed(Try(w, a, <<>>), G, G)
<1>1. G \subseteq Kill(G, {"got", "nonempty"}) \union Got(w)
  BY DEF Kill, Lasting
<1> QED BY <1>1, Nothing, AskTyped

(* Requests that need nothing.                                             *)
LEMMA Fetches ==
  ASSUME NEW G, Lasting(G)
  PROVE  /\ Typed(U!SignUp, G, G) /\ Typed(U!Login, G, G) /\ Typed(U!GetMe, G, G)
         /\ Typed(U!PatchUser, G, G) /\ Typed(U!PatchPost, G, G)
         /\ Typed(U!GetPostsForChannel, G, G) /\ Typed(U!GetPostsBefore, G, G)
         /\ Typed(U!GetPostsSince, G, G) /\ Typed(U!GetPostsAroundLastUnread, G, G)
         /\ Typed(U!GetChannelsForTeam, G, G) /\ Typed(U!GetPublicChannelsForTeam, G, G)
         /\ Typed(U!GetTeamMembersForUser, G, G)
         /\ \A s \in Sets : Typed(U!GetUsersByIds(s), G, G) /\ Typed(U!GetUsersStatusesByIds(s), G, G)
         /\ Typed(U!GetUsersInChannel, G, G) /\ Typed(U!GetUsers, G, G \union {<<"got", "user">>})
         /\ Typed(U!GetPreferences, G, G)
         /\ Typed(U!GetTeamsForUser, G, G) /\ Typed(U!GetAllTeams, G, G)
         /\ Typed(U!Discarded, G, G) /\ Typed(U!UploadFile, G, G)
<1>1. /\ Typed(U!SignUp, G, G) /\ Typed(U!Login, G, G) /\ Typed(U!GetMe, G, G)
      /\ Typed(U!PatchUser, G, G)
  BY AskEach, Words DEF MayAsk, Got, Takes, About, ChannelTypes, U!SignUp, U!Login, U!GetMe, U!PatchUser
<1>2. /\ Typed(U!GetPostsForChannel, G, G) /\ Typed(U!GetPostsBefore, G, G)
      /\ Typed(U!GetPostsSince, G, G) /\ Typed(U!GetPostsAroundLastUnread, G, G)
      /\ Typed(U!PatchPost, G, G)
  BY AskEach, Words DEF MayAsk, Got, Takes, About, ChannelTypes, U!GetPostsForChannel, U!GetPostsBefore,
    U!GetPostsSince, U!GetPostsAroundLastUnread, U!PatchPost
<1>3. /\ Typed(U!GetChannelsForTeam, G, G) /\ Typed(U!GetPublicChannelsForTeam, G, G)
      /\ Typed(U!GetTeamMembersForUser, G, G)
  BY AskEach, Words DEF MayAsk, Got, Takes, About, ChannelTypes, U!GetChannelsForTeam,
    U!GetPublicChannelsForTeam, U!GetTeamMembersForUser
<1>4. ASSUME NEW s \in Sets
      PROVE  Typed(U!GetUsersByIds(s), G, G) /\ Typed(U!GetUsersStatusesByIds(s), G, G)
  BY AskEach, Words DEF MayAsk, Got, Takes, About, ChannelTypes, U!GetUsersByIds, U!GetUsersStatusesByIds
<1>5. Typed(U!GetUsersInChannel, G, G) /\ Typed(U!GetUsers, G, G \union {<<"got", "user">>})
  <2>1. MayAsk("users", "none", G) /\ Takes["SetOneUser"] = "user" /\ <<"got", "user">> \in Got("users")
    BY DEF MayAsk, Got, Takes, About, ChannelTypes
  <2>2. /\ Typed(Ask("users", "none", U!Locked("SetOneUser")), G, G)
        /\ Typed(Ask("users", "none", U!Locked("SetOneUser")), G, G \union {<<"got", "user">>})
    BY <2>1, AskEach
  <2> QED BY <2>2, Words DEF U!GetUsersInChannel, U!GetUsers
<1>6. Typed(U!GetPreferences, G, G) /\ Typed(U!GetTeamsForUser, G, G) /\ Typed(U!GetAllTeams, G, G)
  BY AskDo, Words DEF MayAsk, MayCall, Got, Takes, TakesSet, About, ChannelTypes, U!GetPreferences, U!GetTeamsForUser,
    U!GetAllTeams
<1>7. Typed(U!Discarded, G, G) /\ Typed(U!UploadFile, G, G)
  BY AskNothing, Words DEF MayAsk, ChannelTypes, U!Discarded, U!UploadFile
<1> QED BY <1>1, <1>2, <1>3, <1>4, <1>5, <1>6, <1>7

(* Requests about what the registers hold.                                 *)
LEMMA Sends ==
  ASSUME NEW G, Lasting(G)
  PROVE  /\ <<"chan", "joined">> \in G => Typed(U!CreatePost, G, G)
         /\ <<"chan", "direct">> \in G => Typed(U!UpdatePreferences, G, G)
         /\ <<"chan", "channel">> \in G => Typed(U!GetChannel, G, G)
         /\ <<"chan", "joined">> \in G => Typed(U!GetChannelMember, G, G)
         /\ <<"team", "team">> \in G => Typed(U!UpdateTeam, G, G) /\ Typed(U!AddTeamMember, G, G)
         /\ <<"user", "user">> \in G => Typed(U!GetProfileImageForUser, G, G)
         /\ <<"post", "post">> \in G =>
              Typed(U!SaveReaction, G, G) /\ Typed(U!TrySaveReaction, G, G) /\ Typed(U!DeleteReaction, G, G)
<1> USE Words DEF MayAsk, MayCall, Got, Takes, TakesSet, About, ChannelTypes, Registers, Kill
<1>1. <<"chan", "joined">> \in G => Typed(U!CreatePost, G, G)
  BY AskEach DEF U!CreatePost
<1>2. <<"chan", "direct">> \in G => Typed(U!UpdatePreferences, G, G)
  BY AskNothing DEF U!UpdatePreferences
<1>3. <<"chan", "channel">> \in G => Typed(U!GetChannel, G, G)
  BY AskDo DEF U!GetChannel
<1>4. <<"chan", "joined">> \in G => Typed(U!GetChannelMember, G, G)
  BY AskDo DEF U!GetChannelMember
<1>5. <<"team", "team">> \in G => Typed(U!UpdateTeam, G, G) /\ Typed(U!AddTeamMember, G, G)
  BY AskDo DEF U!UpdateTeam, U!AddTeamMember
<1>6. <<"user", "user">> \in G => Typed(U!GetProfileImageForUser, G, G)
  BY AskDo DEF U!GetProfileImageForUser
<1>7. <<"post", "post">> \in G =>
        Typed(U!SaveReaction, G, G) /\ Typed(U!TrySaveReaction, G, G) /\ Typed(U!DeleteReaction, G, G)
  BY AskDo DEF U!SaveReaction, U!TrySaveReaction, U!DeleteReaction
<1> QED BY <1>1, <1>2, <1>3, <1>4, <1>5, <1>6, <1>7

(* Requests of the goroutine that runs the actions.                        *)
LEMMA Visits ==
  ASSUME NEW G, Lasting(G), IsMain \in G
  PROVE  /\ \A r \in Registers : {<<r, "channel">>, <<r, "joined">>} \subseteq G =>
              /\ Typed(U!ViewChannel(r), G, G)
              /\ Typed(U!ViewChannel(r), G, G \union {<<r, "viewed">>})
         /\ <<"chan", "channel">> \in G =>
              Typed(U!AddChannelMember, G, G) /\ Typed(U!GetChannelMembers, G, G)
         /\ Typed(U!GetChannelMembersForUser, G, G)
<1>1. ASSUME NEW r \in Registers, {<<r, "channel">>, <<r, "joined">>} \subseteq G
      PROVE  /\ Typed(U!ViewChannel(r), G, G)
             /\ Typed(U!ViewChannel(r), G, G \union {<<r, "viewed">>})
  <2>1. MayAsk("view", r, G)
    BY <1>1 DEF MayAsk, ChannelTypes
  <2>2. MayCall("SetChannelView", r, Kill(G, {"got", "nonempty"}) \union Got("view"))
    BY <1>1 DEF MayCall, Takes, TakesSet, Kill, IsMain, Registers
  <2> QED BY <2>1, <2>2, AskDo, Words DEF U!ViewChannel
<1>2. ASSUME <<"chan", "channel">> \in G
      PROVE  Typed(U!AddChannelMember, G, G) /\ Typed(U!GetChannelMembers, G, G)
  <2>1. MayAsk("joinChannel", "chan", G) /\ MayAsk("members", "chan", G)
    BY <1>2 DEF MayAsk, ChannelTypes
  <2>2. MayCall("SetChannelMember", "chan", Kill(G, {"got", "nonempty"}) \union Got("joinChannel"))
    BY DEF MayCall, Takes, TakesSet, Got, Registers, ChannelTypes
  <2>3. Typed(U!AddChannelMember, G, G)
    BY <2>1, <2>2, AskDo, Words DEF U!AddChannelMember
  <2> QED BY <2>1, <2>3, AskEach, Words DEF Takes, Got, About, ChannelTypes, U!GetChannelMembers
<1>3. Typed(U!GetChannelMembersForUser, G, G)
  BY AskEach, Words DEF MayAsk, Takes, Got, About, ChannelTypes, U!GetChannelMembersForUser
<1> QED BY <1>1, <1>2, <1>3

(* A channel that was made is the user's.                                  *)
InChannel(G) == Kill(G, {"chan"}) \union {<<"chan", "channel">>, <<"chan", "joined">>}

LEMMA Makes ==
  ASSUME NEW G, Lasting(G), IsMain \in G
  PROVE  /\ \A type \in ChannelTypes : Typed(U!CreateChannel(type), G, InChannel(G))
         /\ Typed(U!CreateGroupChannel, G, InChannel(G))
         /\ Typed(U!CreateDirectChannel, G, InChannel(G))
<1>1. ASSUME NEW type \in ChannelTypes, NEW a
      PROVE  Typed(Ask(type, a, Each("chan", "got", Do("SetChannel", "chan"))), G, InChannel(G))
  <2> DEFINE E == Kill(G, {"got", "nonempty"}) \union Got(type)
             K == Chosen("got", E)
  <2>1. MayAsk(type, a, G)
    BY DEF MayAsk, ChannelTypes
  <2>2. Got(type) = About("got", {"channel", "joined"}) \union {Some}
    BY DEF Got, ChannelTypes
  <2>3. {"channel", "joined"} \subseteq K /\ Some \in E
    BY <2>2 DEF Chosen, About
  <2>4. ASSUME NEW N, Kill(G, {"chan"}) \subseteq N
        PROVE  Typed(Do("SetChannel", "chan"), Kill(N, {"chan"}) \union About("chan", K), InChannel(G))
    <3> DEFINE F == Kill(N, {"chan"}) \union About("chan", K)
    <3>1. InChannel(G) \subseteq F /\ <<"chan", "channel">> \in F
      BY <2>3, <2>4 DEF InChannel, Kill, About
    <3>2. MayCall("SetChannel", "chan", F) /\ Called("SetChannel", "chan", F) = F
      BY <3>1 DEF MayCall, Takes, TakesSet, Called, Registers
    <3> HIDE DEF F
    <3>3. Typed(Do("SetChannel", "chan"), F, F)
      BY <3>2, DoTyped
    <3>4. Typed(Do("SetChannel", "chan"), F, InChannel(G))
      BY <3>1, <3>3, LearnLess
    <3> QED BY <3>4 DEF F
  <2>5. Kill(G, {"chan"}) \subseteq E /\ Kill(G, {"chan"}) \subseteq InChannel(G)
    BY DEF Kill, Lasting, InChannel
  <2>6. Typed(Do("SetChannel", "chan"), Kill(E, {"chan"}) \union About("chan", K), InChannel(G))
    BY <2>4, <2>5
  <2>7. Typed(Do("SetChannel", "chan"), Kill(InChannel(G), {"chan"}) \union About("chan", K), InChannel(G))
    BY <2>4, <2>5
  <2> HIDE DEF E
  <2>8. Typed(Each("chan", "got", Do("SetChannel", "chan")), E, InChannel(G))
    BY <2>3, <2>6, <2>7, EachTyped DEF Registers
  <2> QED BY <2>1, <2>8, AskTyped DEF E
<1>2. "Group" \in ChannelTypes /\ "Direct" \in ChannelTypes
  BY DEF ChannelTypes
<1> QED BY <1>1, <1>2, Words DEF U!CreateChannel, U!CreateGroupChannel, U!CreateDirectChannel

-----------------------------------------------------------------------------
(* Judgements about the actions.  Each begins with what its goroutine is,  *)
(* and what it knows at its end is of no use.                              *)
Who == {IsMain, IsSimul, IsSimple}

WithTeam(G) == G \union {<<"team", "team">>}
WithChannel(G) == G \union {<<"chan", "channel">>, <<"chan", "joined">>}
WithPost(G) == G \union {<<"post", "post">>}
WithUser(G) == G \union {<<"user", "user">>}

LEMMA Contexts ==
  ASSUME NEW G \in SUBSET Who
  PROVE  /\ Lasting(G) /\ Lasting(WithTeam(G)) /\ Lasting(WithChannel(G))
         /\ Lasting(WithChannel(WithTeam(G))) /\ Lasting(WithPost(G)) /\ Lasting(WithUser(G))
         /\ Lasting(WithPost(WithChannel(G))) /\ Lasting(WithUser(WithChannel(G)))
         /\ Lasting(WithPost(WithChannel(WithTeam(G))))
         /\ Lasting(WithUser(WithChannel(WithTeam(G))))
BY DEF Who, Lasting, WithTeam, WithChannel, WithPost, WithUser, IsMain, IsSimul, IsSimple

(* What a choice adds to what is known, when the register was not in use.  *)
LEMMA PickMore ==
  ASSUME NEW r \in Registers, NEW from, NEW p, NEW G, NEW N, Typed(p, G, N),
         \A f \in G : f[1] # r,
         NEW K, K \subseteq Chosen(from, G)
  PROVE  Typed(Pick(r, from, p), G, G \union About(r, K))
<1>1. G \union About(r, K) \subseteq Kill(G, {r}) \union About(r, Chosen(from, G))
  BY DEF Kill, About
<1>2. Typed(Pick(r, from, p), G, Kill(G, {r}) \union About(r, Chosen(from, G)))
  BY PickTyped
<1> QED BY <1>1, <1>2, LearnLess

LEMMA Picks ==
  ASSUME NEW G, NEW p, NEW N, Typed(p, G, N)
  PROVE  /\ (\A f \in G : f[1] # "team") =>
              \A from \in {"currentTeam", "teamsToJoin", "myTeams"} :
                Typed(Pick("team", from, p), G, WithTeam(G))
         /\ (\A f \in G : f[1] # "chan") =>
              /\ Typed(Pick("chan", "currentChannel", p), G, WithChannel(G))
              /\ Typed(Pick("chan", "teamsChannels", p), G, G \union {<<"chan", "channel">>})
         /\ (\A f \in G : f[1] # "post") =>
              \A from \in {"posts", "channelPosts", "myPosts"} :
                Typed(Pick("post", from, p), G, WithPost(G))
         /\ (\A f \in G : f[1] # "user") =>
              \A from \in {"channelMembers", "others", "anyone"} :
                Typed(Pick("user", from, p), G, WithUser(G))
<1>1. ASSUME NEW r, NEW k PROVE About(r, {k}) = {<<r, k>>}
  BY DEF About
<1>2. About("chan", {"channel", "joined"}) = {<<"chan", "channel">>, <<"chan", "joined">>}
  BY DEF About
<1>3. ASSUME \A f \in G : f[1] # "team", NEW from \in {"currentTeam", "teamsToJoin", "myTeams"}
      PROVE  Typed(Pick("team", from, p), G, WithTeam(G))
  <2>1. {"team"} \subseteq Chosen(from, G)
    BY DEF Chosen
  <2>2. Typed(Pick("team", from, p), G, G \union About("team", {"team"}))
    BY <1>3, <2>1, PickMore DEF Registers
  <2> QED BY <1>1, <2>2 DEF WithTeam
<1>4. ASSUME \A f \in G : f[1] # "chan"
      PROVE  /\ Typed(Pick("chan", "currentChannel", p), G, WithChannel(G))
             /\ Typed(Pick("chan", "teamsChannels", p), G, G \union {<<"chan", "channel">>})
  <2>1. {"channel", "joined"} \subseteq Chosen("currentChannel", G)
        /\ {"channel"} \subseteq Chosen("teamsChannels", G)
    BY DEF Chosen
  <2>2. /\ Typed(Pick("chan", "currentChannel", p), G, G \union About("chan", {"channel", "joined"}))
        /\ Typed(Pick("chan", "teamsChannels", p), G, G \union About("chan", {"channel"}))
    BY <1>4, <2>1, PickMore DEF Registers
  <2> QED BY <1>1, <1>2, <2>2 DEF WithChannel
<1>5. ASSUME \A f \in G : f[1] # "post", NEW from \in {"posts", "channelPosts", "myPosts"}
      PROVE  Typed(Pick("post", from, p), G, WithPost(G))
  <2>1. {"post"} \subseteq Chosen(from, G)
    BY DEF Chosen
  <2>2. Typed(Pick("post", from, p), G, G \union About("post", {"post"}))
    BY <1>5, <2>1, PickMore DEF Registers
  <2> QED BY <1>1, <2>2 DEF WithPost
<1>6. ASSUME \A f \in G : f[1] # "user", NEW from \in {"channelMembers", "others", "anyone"}
      PROVE  Typed(Pick("user", from, p), G, WithUser(G))
  <2>1. {"user"} \subseteq Chosen(from, G)
    BY DEF Chosen
  <2>2. Typed(Pick("user", from, p), G, G \union About("user", {"user"}))
    BY <1>6, <2>1, PickMore DEF Registers
  <2> QED BY <1>1, <2>2 DEF WithUser
<1> QED BY <1>3, <1>4, <1>5, <1>6

LEMMA MyTeamTyped ==
  ASSUME NEW G \in SUBSET Who, IsMain \in G
  PROVE  /\ Typed(MyTeam, G, WithTeam(G))
         /\ \A none \in {Info, Err} : Typed(MyChannel(none), G, WithChannel(WithTeam(G)))
<1>1. Typed(MyTeam, G, WithTeam(G))
  <2>1. WithTeam(G) \subseteq Kill(G, {"team"}) \union {<<"team", "team">>}
    BY DEF WithTeam, Kill, Who, IsMain, IsSimul, IsSimple
  <2>2. Typed(MyTeam, G, Kill(G, {"team"}) \union {<<"team", "team">>})
    BY OthersTyped, PickTeamTyped DEF MyTeam
  <2> QED BY <2>1, <2>2, LearnLess
<1>2. ASSUME NEW none \in {Info, Err}
      PROVE  Typed(MyChannel(none), G, WithChannel(WithTeam(G)))
  <2> DEFINE T == WithTeam(G)
  <2>1. WithChannel(T) \subseteq Kill(T, {"chan"}) \union About("chan",
           IF "NotMemberOf" \in {"MemberOf"} THEN {"channel"} ELSE {"channel", "joined"})
    BY DEF WithTeam, WithChannel, About, Kill, Who, IsMain, IsSimul, IsSimple
  <2>2. IsMain \in T
    BY DEF WithTeam
  <2>3. Typed(none, T, {})
    BY OthersTyped
  <2> HIDE DEF T
  <2>4. Typed(PickChannel({"MemberOf"}, none), T, Kill(T, {"chan"}) \union About("chan",
           IF "NotMemberOf" \in {"MemberOf"} THEN {"channel"} ELSE {"channel", "joined"}))
    BY <2>2, <2>3, PickChannelTyped
  <2>5. Typed(PickChannel({"MemberOf"}, none), T, WithChannel(T))
    BY <2>1, <2>4, LearnLess
  <2> QED BY <1>1, <2>5, InTurn DEF MyChannel, T
<1> QED BY <1>1, <1>2

(* Requests that are not about anything.                                   *)
LEMMA Idle ==
  ASSUME NEW G, Lasting(G)
  PROVE  /\ Typed(U!Logout, G, G) /\ Typed(U!GetConfig, G, G) /\ Typed(U!SearchPosts, G, G)
         /\ Typed(U!GetPinnedPosts, G, G) /\ Typed(U!SearchChannels, G, G)
         /\ Typed(U!GetChannelUnread, G, G) /\ Typed(U!GetChannelStats, G, G)
         /\ Typed(U!GetUserStatus, G, G) /\ Typed(U!GetTeamsUnread, G, G)
         /\ Typed(U!GetFileThumbnail, G, G) /\ Typed(U!SetProfileImage, G, G)
         /\ Typed(U!SearchUsers, G, G) /\ Typed(U!AutoCompleteUsersInChannel, G, G)
         /\ Typed(U!GetWebappPlugins, G, G) /\ Typed(U!GetClientLicense, G, G)
         /\ Typed(U!FetchStaticAssets, G, G)
BY Fetches DEF U!Logout, U!GetConfig, U!SearchPosts, U!GetPinnedPosts, U!SearchChannels,
  U!GetChannelUnread, U!GetChannelStats, U!GetUserStatus, U!GetTeamsUnread, U!GetFileThumbnail,
  U!SetProfileImage, U!SearchUsers, U!AutoCompleteUsersInChannel, U!GetWebappPlugins,
  U!GetClientLicense, U!FetchStaticAssets

LEMMA TypingTyped ==
  ASSUME NEW p, NEW G, Typed(p, G, G) PROVE Typed(Typing(p), G, G)
<1>1. Typed(Maybe(p), G, G)
  BY MaybeTyped
<1> QED BY <1>1, InTurn DEF Typing

(* Actions that only ask and select.                                       *)
LEMMA CommonActions1 ==
  ASSUME NEW G \in SUBSET Who, IsMain \in G
  PROVE  /\ Typed(SignUp, G, {}) /\ Typed(JoinChannel, G, {}) /\ Typed(JoinTeam, G, {})
         /\ Typed(Login, G, G) /\ Typed(Logout, G, G)
<1>0. Lasting(G) /\ Lasting(WithTeam(G)) /\ Lasting(G \union {<<"chan", "channel">>})
      /\ (\A f \in G : f[1] \notin {"team", "chan"})
  BY Contexts DEF Who, Lasting, IsMain, IsSimul, IsSimple
<1>1. Typed(SignUp, G, {})
  <2>1. Typed(If("signedUp", Info), G, G)
    BY OthersTyped, IfTyped
  <2>2. Typed(Maybe(Info) \o Err, Here(G), {})
    BY OthersTyped, MaybeTyped, InTurn
  <2>3. Typed(Catch(Maybe(Info) \o Err), G, G)
    BY <2>2, CatchTyped
  <2>4. Typed(U!SignUp, G, G) /\ Typed(Info, G, {})
    BY <1>0, Fetches, OthersTyped
  <2> QED BY <2>1, <2>3, <2>4, InTurn DEF SignUp
<1>2. Typed(JoinChannel, G, {})
  <2> DEFINE C == G \union {<<"chan", "channel">>}
  <2>1. Typed(Pick("chan", "teamsChannels", Info), G, C)
    BY <1>0, OthersTyped, Picks
  <2>2. Typed(U!AddChannelMember, C, C)
    BY <1>0, Visits
  <2>3. Typed(Info, C, {})
    BY OthersTyped
  <2> QED BY <2>1, <2>2, <2>3, InTurn DEF JoinChannel
<1>3. Typed(JoinTeam, G, {})
  <2> DEFINE T == WithTeam(G)
  <2>1. Typed(U!GetAllTeams, G, G)
    BY <1>0, Fetches
  <2>2. Typed(Pick("team", "teamsToJoin", Info), G, T)
    BY <1>0, OthersTyped, Picks
  <2>3. Typed(U!AddTeamMember, T, T) /\ Typed(U!GetChannelsForTeam, T, T)
        /\ Typed(U!GetChannelMembersForUser, T, T)
    BY <1>0, Fetches, Sends, Visits DEF WithTeam
  <2>4. Typed(Info, T, {})
    BY OthersTyped
  <2>5. Typed(U!GetAllTeams \o Pick("team", "teamsToJoin", Info), G, T)
    BY <2>1, <2>2, InTurn
  <2>6. Typed(U!GetAllTeams \o Pick("team", "teamsToJoin", Info) \o U!AddTeamMember
                \o U!GetChannelsForTeam \o U!GetChannelMembersForUser, G, T)
    BY <2>3, <2>5, InTurn
  <2> QED BY <2>4, <2>6, InTurn DEF JoinTeam
<1>4. Typed(Login, G, G)
  <2>1. Typed(U!Login, G, G) /\ Typed(U!GetAllTeams, G, G) /\ Typed(U!GetTeamMembersForUser, G, G)
    BY <1>0, Fetches
  <2>2. Typed(U!GetChannelsForTeam, WithTeam(G), G)
    BY <1>0, Fetches, LearnLess DEF WithTeam
  <2>3. Kill(G, {"team"}) \union About("team", Chosen("myTeams", G)) = WithTeam(G)
    BY <1>0 DEF Kill, About, Chosen, WithTeam
  <2>4. Typed(Each("team", "myTeams", U!GetChannelsForTeam), G, G)
    BY <2>2, <2>3, EachTyped DEF Registers
  <2> QED BY <2>1, <2>4, InTurn DEF Login
<1>5. Typed(Logout, G, G)
  BY <1>0, Idle, OthersTyped, InTurn DEF Logout
<1> QED BY <1>1, <1>2, <1>3, <1>4, <1>5

(* Actions in a channel of the user.                                       *)
LEMMA CommonActions2 ==
  ASSUME NEW G \in SUBSET Who, IsMain \in G
  PROVE  /\ Typed(CreatePost, G, {}) /\ Typed(EditPost, G, {}) /\ Typed(CreatePostReply, G, {})
         /\ Typed(ViewChannel, G, {}) /\ Typed(ViewUser, G, {}) /\ Typed(CreateDirectChannel, G, {})
<1> DEFINE C == WithChannel(WithTeam(G))
           P == WithPost(C)
           E == WithUser(C)
<1>1. Typed(MyChannel(Info), G, C) /\ Typed(MyChannel(Err), G, C)
  BY MyTeamTyped
<1>2. Lasting(C) /\ Lasting(P) /\ Lasting(E)
  BY Contexts
<1>3. (\A f \in C : f[1] # "post") /\ (\A f \in C : f[1] # "user")
  BY DEF WithChannel, WithTeam, Who, IsMain, IsSimul, IsSimple
<1>4. {IsMain, <<"chan", "joined">>, <<"chan", "channel">>} \subseteq C
      /\ C \subseteq P /\ C \subseteq E
      /\ <<"user", "user">> \in E
  BY DEF WithChannel, WithTeam, WithUser, WithPost
<1>5. \A none \in {Info, Err} : Typed(Pick("post", "channelPosts", none), C, P)
                             /\ Typed(Pick("user", "channelMembers", none), C, E)
  BY <1>3, OthersTyped, Picks
<1> HIDE DEF C, P, E
<1>6. Typed(CreatePost, G, {})
  <2>1. Typed(U!CreatePost, C, C) /\ Typed(Info, C, {})
    BY <1>2, <1>4, Sends, OthersTyped
  <2> QED BY <1>1, <2>1, InTurn DEF CreatePost
<1>7. Typed(EditPost, G, {})
  <2>1. Typed(U!PatchPost, P, P) /\ Typed(Info, P, {})
    BY <1>2, Fetches, OthersTyped
  <2> QED BY <1>1, <1>5, <2>1, InTurn DEF EditPost
<1>8. Typed(CreatePostReply, G, {})
  <2>1. Typed(U!CreatePost, P, P) /\ Typed(Info, P, {})
    BY <1>2, <1>4, Sends, OthersTyped
  <2> QED BY <1>1, <1>5, <2>1, InTurn DEF CreatePostReply
<1>9. Typed(ViewChannel, G, {})
  <2>1. Typed(U!ViewChannel("chan"), C, C) /\ Typed(Info, C, {})
    BY <1>2, <1>4, Visits, OthersTyped DEF Registers
  <2> QED BY <1>1, <2>1, InTurn DEF ViewChannel
<1>10. Typed(ViewUser, G, {})
  <2>1. Typed(U!GetChannelMembers, C, C)
    BY <1>2, <1>4, Visits
  <2>2. Typed(Gather("ids", "theUser"), E, E) /\ Typed(U!GetUsersByIds("ids"), E, E)
        /\ Typed(Info, E, {})
    BY <1>2, <1>4, Fetches, OthersTyped DEF Sets
  <2>3. Typed(MyChannel(Info) \o U!GetChannelMembers \o Pick("user", "channelMembers", Err), G, E)
    BY <1>1, <1>5, <2>1, InTurn
  <2> QED BY <2>2, <2>3, InTurn DEF ViewUser
<1>11. Typed(CreateDirectChannel, G, {})
  <2>1. Typed(U!CreateDirectChannel, E, InChannel(E)) /\ Typed(Info, InChannel(E), {})
    BY <1>2, <1>4, Makes, OthersTyped
  <2> QED BY <1>1, <1>5, <2>1, InTurn DEF CreateDirectChannel
<1> QED BY <1>6, <1>7, <1>8, <1>9, <1>10, <1>11

(* The other actions that the controllers share.                           *)
LEMMA CommonActions3 ==
  ASSUME NEW G \in SUBSET Who, IsMain \in G
  PROVE  /\ Typed(AddReaction, G, {}) /\ Typed(RemoveReaction, G, {})
         /\ Typed(CreateGroupChannel, G, {}) /\ Typed(CreatePublicChannel, G, {})
         /\ Typed(CreatePrivateChannel, G, {}) /\ Typed(SearchUsers, G, {})
         /\ Typed(UpdateProfileImage, G, {}) /\ Typed(SearchChannels, G, {})
         /\ Typed(SearchPosts, G, {}) /\ Typed(FetchStaticAssets, G, {})
         /\ Typed(GetPinnedPosts, G, {})
<1>0. /\ Lasting(G) /\ Lasting(WithTeam(G)) /\ Lasting(WithPost(G)) /\ Lasting(WithChannel(G))
      /\ (\A f \in G : f[1] # "post") /\ (\A f \in G : f[1] # "chan")
  BY Contexts DEF Who, IsMain, IsSimul, IsSimple
<1>1. Typed(MyTeam, G, WithTeam(G)) /\ IsMain \in WithTeam(G)
  BY MyTeamTyped DEF WithTeam
<1>2. Typed(Maybe(Info), G, G) /\ Typed(Pick("post", "posts", Info), G, WithPost(G))
  BY <1>0, OthersTyped, MaybeTyped, Picks
<1>3. \A E : Typed(Info, E, {})
  BY OthersTyped
<1>4. \A cond : Typed(If(cond, Info), G, G)
  BY OthersTyped, IfTyped
<1>5. Typed(AddReaction, G, {}) /\ Typed(RemoveReaction, G, {})
  <2> DEFINE P == WithPost(G)
  <2>1. Typed(U!SaveReaction, P, P) /\ Typed(U!DeleteReaction, P, P)
    BY <1>0, Sends DEF WithPost
  <2>2. P \union Learnt("reacted") = P
    BY DEF Learnt
  <2> HIDE DEF P
  <2>3. Typed(If("reacted", U!DeleteReaction), P, P)
    BY <2>1, <2>2, IfTyped
  <2>4. Typed(Maybe(Info) \o Pick("post", "posts", Info), G, P)
    BY <1>2, InTurn DEF P
  <2>5. Typed(AddReaction, G, {})
    BY <1>3, <2>1, <2>4, InTurn DEF AddReaction
  <2>6. Typed(RemoveReaction, G, {})
    BY <1>3, <2>3, <2>4, InTurn DEF RemoveReaction
  <2> QED BY <2>5, <2>6
<1>6. Typed(CreateGroupChannel, G, {})
  BY <1>0, <1>3, <1>4, Makes, InTurn DEF CreateGroupChannel
<1>7. Typed(CreatePublicChannel, G, {}) /\ Typed(CreatePrivateChannel, G, {})
  <2> DEFINE T == WithTeam(G)
  <2>1. Typed(U!CreateChannel("Public"), T, InChannel(T))
        /\ Typed(U!CreateChannel("Private"), T, InChannel(T))
    BY <1>0, <1>1, Makes DEF ChannelTypes
  <2> HIDE DEF T
  <2>2. Typed(MyTeam, G, T)
    BY <1>1 DEF T
  <2>3. Typed(CreatePublicChannel, G, {})
    BY <1>3, <2>1, <2>2, InTurn DEF CreatePublicChannel
  <2>4. Typed(CreatePrivateChannel, G, {})
    BY <1>3, <2>1, <2>2, InTurn DEF CreatePrivateChannel
  <2> QED BY <2>3, <2>4
<1>8. Typed(SearchUsers, G, {})
  <2>1. Typed(Typing(U!SearchUsers), G, G)
    BY <1>0, Idle, TypingTyped
  <2> QED BY <1>3, <1>4, <2>1, InTurn DEF SearchUsers
<1>9. Typed(UpdateProfileImage, G, {}) /\ Typed(FetchStaticAssets, G, {})
  BY <1>0, <1>3, Idle, InTurn DEF UpdateProfileImage, FetchStaticAssets
<1>10. Typed(SearchChannels, G, {}) /\ Typed(SearchPosts, G, {})
  <2> DEFINE T == WithTeam(G)
  <2>1. Typed(Typing(U!SearchChannels), T, T) /\ Typed(U!SearchPosts, T, T)
    BY <1>0, Idle, TypingTyped
  <2> QED BY <1>1, <1>3, <2>1, InTurn DEF SearchChannels, SearchPosts
<1>11. Typed(GetPinnedPosts, G, {})
  <2>1. Typed(Pick("chan", "currentChannel", Err), G, WithChannel(G))
    BY <1>0, OthersTyped, Picks
  <2>2. Typed(U!GetPinnedPosts, WithChannel(G), WithChannel(G))
    BY <1>0, Idle
  <2> QED BY <1>3, <2>1, <2>2, InTurn DEF GetPinnedPosts
<1> QED BY <1>5, <1>6, <1>7, <1>8, <1>9, <1>10, <1>11

(* What the page of the web application asks for.                          *)
LEMMA ReloadTyped ==
  ASSUME NEW G \in SUBSET Who, IsMain \in G
  PROVE  Typed(Reload, G, G)
<1> DEFINE T == WithTeam(G)
           C == WithChannel(G)
<1>0. /\ Lasting(G) /\ Lasting(T) /\ Lasting(C)
      /\ (\A f \in G : f[1] # "chan") /\ (\A f \in G : f[1] # "team")
      /\ G \subseteq T /\ G \subseteq C
  <2>1. Lasting(G) /\ Lasting(T) /\ Lasting(C)
    BY Contexts
  <2>2. G \subseteq T /\ G \subseteq C
    BY DEF WithTeam, WithChannel
  <2> QED BY <2>1, <2>2 DEF Who, IsMain, IsSimul, IsSimple
<1>1. \A cond \in {"groupShown", "hasCurrent", "hasTeam", "directShown", "inTeam"} : \A E : E \union Learnt(cond) = E
  BY DEF Learnt
<1>2. Typed(ReloadChannel, G, G)
  <2>1. Typed(Pick("chan", "currentChannel", Err), G, C)
    BY <1>0, OthersTyped, Picks
  <2>2. Typed(U!ViewChannel("chan"), C, C)
    BY <1>0, Visits DEF WithChannel, Registers
  <2>3. Typed(Pick("chan", "currentChannel", Err) \o U!ViewChannel("chan"), G, G)
    BY <1>0, <2>1, <2>2, InTurn, LearnLess
  <2> QED BY <1>1, <2>3, IfTyped DEF ReloadChannel
<1>3. Typed(ReloadTeam, T, T)
  <2>1. Typed(U!GetTeamMembersForUser, T, T) /\ Typed(U!GetChannelsForTeam, T, T)
        /\ Typed(U!GetChannelMembersForUser, T, T)
    BY <1>0, Fetches, Visits
  <2>2. Typed(U!GetChannelsForTeam \o U!GetChannelMembersForUser, T, T)
    BY <2>1, InTurn
  <2>3. Typed(If("inTeam", U!GetChannelsForTeam \o U!GetChannelMembersForUser), T, T)
    BY <1>1, <2>2, IfTyped
  <2> QED BY <2>1, <2>3, InTurn DEF ReloadTeam
<1>4. Typed(If("hasTeam", Pick("team", "currentTeam", Err) \o ReloadTeam), G, G)
  <2>1. Typed(Pick("team", "currentTeam", Err), G, T)
    BY <1>0, OthersTyped, Picks
  <2>2. Typed(Pick("team", "currentTeam", Err) \o ReloadTeam, G, G)
    BY <1>0, <1>3, <2>1, InTurn, LearnLess
  <2> QED BY <1>1, <2>2, IfTyped
<1>5. /\ Typed(U!GetUsersByIds("ids"), G, G) /\ Typed(U!GetUsersStatusesByIds("ids"), G, G)
      /\ Typed(U!GetPreferences, G, G) /\ Typed(U!GetMe, G, G)
      /\ Typed(U!GetAllTeams, G, G) /\ Typed(U!GetTeamsForUser, G, G)
      /\ Typed(U!GetUsersInChannel, G, G)
  BY <1>0, Fetches DEF Sets
<1>6. /\ Typed(U!GetConfig, G, G) /\ Typed(U!GetClientLicense, G, G)
      /\ Typed(U!GetWebappPlugins, G, G) /\ Typed(U!GetTeamsUnread, G, G)
      /\ Typed(U!GetUserStatus, G, G) /\ Typed(U!GetChannelStats, G, G)
      /\ Typed(U!GetChannelUnread, G, G)
  BY <1>0, Idle
<1>7. Typed(Gather("ids", "preferred"), G, G)
  BY OthersTyped DEF Sets
<1>8. Typed(If("groupShown", U!GetUsersInChannel), G, G)
  BY <1>1, <1>5, IfTyped
<1>9. Typed(If("directShown", U!GetUsersByIds("ids") \o U!GetUsersStatusesByIds("ids")), G, G)
  <2>1. Typed(U!GetUsersByIds("ids") \o U!GetUsersStatusesByIds("ids"), G, G)
    BY <1>5, InTurn
  <2> QED BY <1>1, <2>1, IfTyped
<1>10. Typed(If("hasCurrent", U!GetChannelStats \o U!GetChannelUnread), G, G)
  <2>1. Typed(U!GetChannelStats \o U!GetChannelUnread, G, G)
    BY <1>6, InTurn
  <2> QED BY <1>1, <2>1, IfTyped
<1>11. Typed(Maybe(U!GetConfig), G, G)
  BY <1>6, MaybeTyped
<1>12. Typed(U!GetPreferences \o Gather("ids", "preferred") \o If("groupShown", U!GetUsersInChannel)
               \o ReloadChannel \o Maybe(U!GetConfig) \o U!GetClientLicense, G, G)
  BY <1>2, <1>5, <1>6, <1>7, <1>8, <1>11, InTurn
<1>13. Typed(U!GetPreferences \o Gather("ids", "preferred") \o If("groupShown", U!GetUsersInChannel)
               \o ReloadChannel \o Maybe(U!GetConfig) \o U!GetClientLicense
               \o U!GetMe \o U!GetWebappPlugins \o U!GetAllTeams \o U!GetTeamsForUser, G, G)
  BY <1>5, <1>6, <1>12, InTurn
<1> HIDE DEF T, C
<1>14. Typed(U!GetPreferences \o Gather("ids", "preferred") \o If("groupShown", U!GetUsersInChannel)
               \o ReloadChannel \o Maybe(U!GetConfig) \o U!GetClientLicense
               \o U!GetMe \o U!GetWebappPlugins \o U!GetAllTeams \o U!GetTeamsForUser
               \o If("hasTeam", Pick("team", "currentTeam", Err) \o ReloadTeam)
               \o U!GetTeamsUnread
               \o If("directShown", U!GetUsersByIds("ids") \o U!GetUsersStatusesByIds("ids")), G, G)
  BY <1>4, <1>6, <1>9, <1>13, InTurn
<1> QED BY <1>6, <1>10, <1>14, InTurn DEF Reload

-----------------------------------------------------------------------------
(* The actions of the simple controller.                                   *)
LEMMA SimpleTyped ==
  /\ Typed(simpleLogin, {IsMain, IsSimple}, {}) /\ Typed(simpleLogout, {IsMain, IsSimple}, {})
  /\ Typed(reload, {IsMain, IsSimple}, {}) /\ Typed(scrollChannel, {IsMain, IsSimple}, {})
  /\ Typed(updateProfile, {IsMain, IsSimple}, {}) /\ Typed(updateTeam, {IsMain, IsSimple}, {})
<1> DEFINE G == {IsMain, IsSimple}
           T == WithTeam(G)
           C == WithChannel(T)
           P == WithPost(C)
<1>0. /\ G \in SUBSET Who /\ IsMain \in G /\ Here(G) = G
      /\ Lasting(G) /\ Lasting(T) /\ Lasting(C) /\ Lasting(P)
      /\ C \subseteq P /\ \A f \in C : f[1] # "post"
  <2>1. G \in SUBSET Who /\ IsMain \in G
    BY DEF Who
  <2>2. Lasting(G) /\ Lasting(T) /\ Lasting(C) /\ Lasting(P)
    BY <2>1, Contexts
  <2>3. Here(G) = G
    BY DEF Here
  <2> QED BY <2>1, <2>2, <2>3 DEF WithTeam, WithChannel, WithPost, IsMain, IsSimple
<1>1. \A E : Typed(Info, E, {})
  BY OthersTyped
<1>2. Typed(Login, G, G) /\ Typed(Reload, G, G) /\ Typed(MyTeam, G, T) /\ Typed(MyChannel(Err), G, C)
  BY <1>0, CommonActions1, ReloadTyped, MyTeamTyped
<1>3. Typed(U!Logout, G, G) /\ Typed(U!PatchUser, G, G)
  BY <1>0, Idle, Fetches
<1>4. Typed(Connect, G, G) /\ Typed(Disconnect, G, G)
  BY OthersTyped
<1>5. Typed(Do("Clear", "none"), G, G)
  <2>1. MayCall("Clear", "none", G) /\ G \subseteq Called("Clear", "none", G)
    BY <1>0 DEF MayCall, Called, IsMain, IsSimple
  <2> QED BY <2>1, DoTyped, LearnLess
<1>6. Typed(Catch(Info), G, G)
  BY <1>1, CatchTyped
<1>7. Typed(Catch(Do("Clear", "none") \o Info), G, G)
  BY <1>0, <1>1, <1>5, InTurn, CatchTyped
<1>8. Typed(Maybe(Info), G, G)
  BY OthersTyped, MaybeTyped
<1>9. \A none \in {Info, Panic} : Typed(Pick("post", "channelPosts", none), C, P)
  BY <1>0, OthersTyped, Picks
<1>10. Typed(U!GetPostsForChannel, C, C) /\ Typed(U!GetPostsBefore, P, C)
       /\ Typed(U!UpdateTeam, T, T)
  BY <1>0, Fetches, Sends, LearnLess DEF WithTeam
<1> HIDE DEF G, T, C, P
<1>11. Typed(simpleLogin, G, {})
  BY <1>1, <1>2, <1>4, <1>6, InTurn DEF simpleLogin
<1>12. Typed(simpleLogout, G, {})
  BY <1>1, <1>3, <1>4, <1>5, <1>7, InTurn DEF simpleLogout
<1>13. Typed(reload, G, {})
  BY <1>1, <1>2, <1>4, <1>5, InTurn DEF reload
<1>14. Typed(scroll, P, P)
  BY <1>9, <1>10, InTurn DEF scroll
<1>15. Typed(scrollChannel, G, {})
  BY <1>1, <1>2, <1>9, <1>10, <1>14, InTurn DEF scrollChannel
<1>16. Typed(updateProfile, G, {})
  BY <1>1, <1>3, InTurn DEF updateProfile
<1>17. Typed(updateTeam, G, {})
  BY <1>1, <1>2, <1>8, <1>10, InTurn DEF updateTeam
<1> QED BY <1>11, <1>12, <1>13, <1>15, <1>16, <1>17 DEF G

-----------------------------------------------------------------------------
(* The actions of the simulative controller.                               *)
Simul == {IsMain, IsSimul}

LEMMA SimulIs ==
  /\ Simul \in SUBSET Who /\ IsMain \in Simul /\ Here(Simul) = Simul
  /\ Lasting(Simul)
  /\ \A f \in Simul : f[1] = "here"
<1>1. Simul \in SUBSET Who /\ IsMain \in Simul /\ Here(Simul) = Simul
  BY DEF Simul, Who, Here
<1> QED BY <1>1, Contexts DEF Simul, IsMain, IsSimul

(* A channel is at hand, and the other registers are not in use.           *)
Ready(E) ==
  /\ Lasting(E)
  /\ {IsMain, <<"chan", "channel">>, <<"chan", "joined">>} \subseteq E
  /\ \A f \in E : f[1] \notin {"prev", "user", "post"}

LEMMA ProfileImages ==
  ASSUME NEW G, Lasting(G), \A f \in G : f[1] # "user"
  PROVE  /\ Typed(getProfileImageForUsers("users"), G, G)
         /\ Typed(getProfileImageForUsers("got"), G \union {<<"got", "user">>}, G)
<1> DEFINE F == WithUser(G)
           get == If("noImage", U!GetProfileImageForUser)
<1>1. Typed(get, F, G)
  <2>1. Lasting(F) /\ <<"user", "user">> \in F /\ G \subseteq F
    BY DEF Lasting, WithUser
  <2>2. F \union Learnt("noImage") = F
    BY DEF Learnt
  <2>3. Typed(U!GetProfileImageForUser, F, F)
    BY <2>1, Sends
  <2> HIDE DEF F
  <2>4. Typed(get, F, F)
    BY <2>2, <2>3, IfTyped
  <2> QED BY <2>1, <2>4, LearnLess
<1> HIDE DEF get
<1>2. ASSUME NEW from, NEW E, G \subseteq E, \A f \in E : f[1] # "user", "user" \in Chosen(from, E)
      PROVE  Typed(Each("user", from, get), E, G)
  <2> DEFINE A == Kill(E, {"user"}) \union About("user", Chosen(from, E))
             B == Kill(G, {"user"}) \union About("user", Chosen(from, E))
  <2>1. F \subseteq A /\ F \subseteq B
    BY <1>2 DEF Kill, About, WithUser
  <2> HIDE DEF A, B, F
  <2>2. Typed(get, A, G) /\ Typed(get, B, G)
    BY <1>1, <2>1, KnowMore
  <2> QED BY <1>2, <2>2, EachTyped DEF A, B, Registers
<1>3. Typed(Each("user", "users", get), G, G)
  BY <1>2 DEF Chosen
<1>4. Typed(Each("user", "got", get), G \union {<<"got", "user">>}, G)
  <2>1. "user" \in Chosen("got", G \union {<<"got", "user">>})
    BY DEF Chosen
  <2> QED BY <1>2, <2>1
<1> QED BY <1>3, <1>4 DEF getProfileImageForUsers, get

LEMMA ViewedAuthors ==
  ASSUME NEW G, Lasting(G), \A f \in G : f[1] \notin {"user", "post"}
  PROVE  Typed(viewedAuthors, G, G)
<1> DEFINE P == WithPost(G)
           E == WithUser(P)
           note == Pick("user", "author", Err) \o Collect("users")
                     \o If("noStatus", Collect("noStatus")) \o If("noUser", Collect("noUser"))
           one == Maybe(U!GetFileThumbnail) \o If("postStored", note)
<1>1. Typed(Pick("user", "author", Err), P, E)
  <2>1. {"user"} \subseteq Chosen("author", P) /\ \A f \in P : f[1] # "user"
    BY DEF Chosen, WithPost
  <2>2. Typed(Err, P, {})
    BY OthersTyped
  <2> HIDE DEF P
  <2>3. Typed(Pick("user", "author", Err), P, P \union About("user", {"user"}))
    BY <2>1, <2>2, PickMore DEF Registers
  <2>4. About("user", {"user"}) = {<<"user", "user">>}
    BY DEF About
  <2> QED BY <2>3, <2>4 DEF WithUser
<1>2. \A r \in Sets : Typed(Collect(r), E, E)
  BY OthersTyped DEF WithUser
<1>3. E \union Learnt("noStatus") = E /\ E \union Learnt("noUser") = E /\ G \subseteq E
      /\ G \union Learnt("postStored") = P
  BY DEF Learnt, WithUser, WithPost
<1> HIDE DEF P, E
<1>4. Typed(If("noStatus", Collect("noStatus")), E, E) /\ Typed(If("noUser", Collect("noUser")), E, E)
  BY <1>2, <1>3, IfTyped DEF Sets
<1>5. Typed(note, P, E)
  BY <1>1, <1>2, <1>4, InTurn DEF Sets
<1>6. Typed(note, P, G)
  BY <1>3, <1>5, LearnLess
<1> HIDE DEF note
<1>7. Typed(If("postStored", note), G, G)
  BY <1>3, <1>6, IfTyped
<1>8. Typed(Maybe(U!GetFileThumbnail), G, G)
  BY Idle, MaybeTyped
<1>9. Typed(one, G, G)
  BY <1>7, <1>8, InTurn
<1>10. Kill(G, {"post"}) \union About("post", Chosen("got", G)) = G
  BY DEF Kill, About, Chosen, Lasting
<1> HIDE DEF one
<1>11. Typed(Each("post", "got", one), G, G)
  BY <1>9, <1>10, EachTyped DEF Registers
<1> QED BY <1>11 DEF viewedAuthors, one, note

LEMMA ViewChannelTyped ==
  ASSUME NEW E, Ready(E)
  PROVE  Typed(viewChannel, E, E \union {<<"chan", "viewed">>})
<1>0. Lasting(E) /\ IsMain \in E /\ {<<"chan", "channel">>, <<"chan", "joined">>} \subseteq E
  BY DEF Ready
<1>1. Typed(If("hasCurrent", Pick("prev", "currentChannel", Err) \o U!ViewChannel("prev")), E, E)
  <2> DEFINE V == E \union About("prev", {"channel", "joined"})
  <2>1. {"channel", "joined"} \subseteq Chosen("currentChannel", E) /\ (\A f \in E : f[1] # "prev")
    BY DEF Chosen, Ready
  <2>2. Typed(Err, E, {})
    BY OthersTyped
  <2>3. Typed(Pick("prev", "currentChannel", Err), E, V)
    BY <2>1, <2>2, PickMore DEF Registers
  <2>4. Lasting(V) /\ IsMain \in V /\ {<<"prev", "channel">>, <<"prev", "joined">>} \subseteq V
    BY <1>0 DEF About, Lasting
  <2>5. E \subseteq V
    OBVIOUS
  <2> HIDE DEF V
  <2>6. Typed(U!ViewChannel("prev"), V, V)
    BY <2>4, Visits DEF Registers
  <2>7. Typed(Pick("prev", "currentChannel", Err) \o U!ViewChannel("prev"), E, E)
    BY <2>3, <2>5, <2>6, InTurn, LearnLess
  <2>8. E \union Learnt("hasCurrent") = E
    BY DEF Learnt
  <2> QED BY <2>7, <2>8, IfTyped
<1>2. \A r \in {"users", "noStatus", "noUser"} : Typed(Gather(r, "nobody"), E, E)
  BY OthersTyped DEF Sets
<1>3. \A cond \in {"neverViewed", "viewed", "someNoStatus", "someNoUser"} : E \union Learnt(cond) = E
  BY DEF Learnt
<1>4. Typed(U!GetPostsAroundLastUnread, E, E) /\ Typed(U!GetPostsSince, E, E)
      /\ Typed(U!GetUsersStatusesByIds("noStatus"), E, E) /\ Typed(U!GetUsersByIds("noUser"), E, E)
  BY <1>0, Fetches DEF Sets
<1>5. Typed(If("neverViewed", U!GetPostsAroundLastUnread), E, E)
      /\ Typed(If("viewed", U!GetPostsSince), E, E)
      /\ Typed(If("someNoStatus", U!GetUsersStatusesByIds("noStatus")), E, E)
      /\ Typed(If("someNoUser", U!GetUsersByIds("noUser")), E, E)
  BY <1>3, <1>4, IfTyped
<1>6. Typed(viewedAuthors, E, E) /\ Typed(getProfileImageForUsers("users"), E, E)
  BY ViewedAuthors, ProfileImages DEF Ready
<1>7. Typed(If("directOrGroup", U!UpdatePreferences), E, E)
  <2> DEFINE F == E \union Learnt("directOrGroup")
  <2>1. Lasting(F) /\ <<"chan", "direct">> \in F /\ E \subseteq F
    BY <1>0 DEF Lasting, Learnt
  <2>2. Typed(U!UpdatePreferences, F, F)
    BY <2>1, Sends
  <2> HIDE DEF F
  <2>3. Typed(U!UpdatePreferences, F, E)
    BY <2>1, <2>2, LearnLess
  <2> QED BY <2>3, IfTyped DEF F
<1>8. Typed(U!GetChannelStats, E, E)
  BY <1>0, Idle
<1>9. Typed(U!ViewChannel("chan"), E, E \union {<<"chan", "viewed">>})
  BY <1>0, Visits DEF Registers
<1> DEFINE p1 == If("hasCurrent", Pick("prev", "currentChannel", Err) \o U!ViewChannel("prev"))
                   \o Gather("users", "nobody") \o Gather("noStatus", "nobody")
                   \o Gather("noUser", "nobody")
           p2 == p1 \o If("neverViewed", U!GetPostsAroundLastUnread) \o If("viewed", U!GetPostsSince)
                   \o viewedAuthors
           p3 == p2 \o If("someNoStatus", U!GetUsersStatusesByIds("noStatus"))
                   \o If("someNoUser", U!GetUsersByIds("noUser"))
           p4 == p3 \o getProfileImageForUsers("users") \o U!GetChannelStats
                   \o If("directOrGroup", U!UpdatePreferences)
<1>10. Typed(p1, E, E)
  BY <1>1, <1>2, InTurn
<1> HIDE DEF p1
<1>11. Typed(p2, E, E)
  BY <1>5, <1>6, <1>10, InTurn
<1> HIDE DEF p2
<1>12. Typed(p3, E, E)
  BY <1>5, <1>11, InTurn
<1> HIDE DEF p3
<1>13. Typed(p4, E, E)
  BY <1>6, <1>7, <1>8, <1>12, InTurn
<1> HIDE DEF p4
<1>14. Typed(p4 \o U!ViewChannel("chan"), E, E \union {<<"chan", "viewed">>})
  BY <1>9, <1>13, InTurn
<1> QED BY <1>14 DEF viewChannel, p1, p2, p3, p4

LEMMA Choosing ==
  ASSUME NEW G, NEW st, NEW p, NEW N, Typed(p, G, N)
  PROVE  /\ (\A f \in G : f[1] # "team") => Typed(PickTeam(st, p), G, WithTeam(G))
         /\ (\A f \in G : f[1] # "chan") /\ IsMain \in G =>
              /\ Typed(PickChannel(st, p), G, G \union {<<"chan", "channel">>})
              /\ "NotMemberOf" \notin st => Typed(PickChannel(st, p), G, WithChannel(G))
<1>1. ASSUME \A f \in G : f[1] # "team" PROVE Typed(PickTeam(st, p), G, WithTeam(G))
  <2>1. Kill(G, {"team"}) \union {<<"team", "team">>} = WithTeam(G)
    BY <1>1 DEF Kill, WithTeam
  <2> QED BY <2>1, PickTeamTyped
<1>2. ASSUME \A f \in G : f[1] # "chan", IsMain \in G
      PROVE  /\ Typed(PickChannel(st, p), G, G \union {<<"chan", "channel">>})
             /\ "NotMemberOf" \notin st => Typed(PickChannel(st, p), G, WithChannel(G))
  <2> DEFINE K == IF "NotMemberOf" \in st THEN {"channel"} ELSE {"channel", "joined"}
             M == Kill(G, {"chan"}) \union About("chan", K)
  <2>1. Typed(PickChannel(st, p), G, M)
    BY <1>2, PickChannelTyped
  <2>2. /\ G \union {<<"chan", "channel">>} \subseteq M
        /\ "NotMemberOf" \notin st => WithChannel(G) \subseteq M
    BY <1>2 DEF Kill, About, WithChannel
  <2> HIDE DEF M
  <2>3. \A H : H \subseteq M => Typed(PickChannel(st, p), G, H)
    BY <2>1, LearnLess
  <2> QED BY <2>2, <2>3
<1> QED BY <1>1, <1>2

LEMMA LoadTeam ==
  ASSUME NEW G, Lasting(G), IsMain \in G PROVE Typed(loadTeam, G, G)
<1>1. /\ Typed(U!GetChannelsForTeam, G, G) /\ Typed(U!GetChannelMembersForUser, G, G)
      /\ Typed(U!GetTeamsUnread, G, G) /\ Typed(U!GetUsersStatusesByIds("ids"), G, G)
  BY Fetches, Visits, Idle DEF Sets
<1>2. Typed(Gather("ids", "me"), G, G)
  BY OthersTyped DEF Sets
<1> QED BY <1>1, <1>2, InTurn DEF loadTeam

(* What the programs of the simulative controller know on their way.       *)
SimulTeam == WithTeam(Simul)
SimulChannel == WithChannel(Simul)
SimulTeamChannel == WithChannel(WithTeam(Simul))

LEMMA SimulContexts ==
  /\ Lasting(SimulTeam) /\ Simul \subseteq SimulTeam /\ IsMain \in SimulTeam
  /\ Ready(SimulChannel) /\ Lasting(SimulChannel) /\ Simul \subseteq SimulChannel
  /\ Ready(SimulTeamChannel) /\ Lasting(SimulTeamChannel) /\ Simul \subseteq SimulTeamChannel
  /\ (\A f \in SimulTeam : f[1] # "chan") /\ (\A f \in Simul : f[1] # "team")
  /\ (\A f \in Simul : f[1] # "chan") /\ (\A f \in SimulChannel : f[1] \notin {"post", "user"})
  /\ (\A f \in SimulChannel : f[1] # "team")
  /\ <<"team", "team">> \in SimulTeam /\ Simul = {IsMain, IsSimul}
  /\ {IsMain, <<"chan", "channel">>, <<"chan", "joined">>} \subseteq SimulChannel
  /\ {IsMain, <<"chan", "channel">>, <<"chan", "joined">>} \subseteq SimulTeamChannel
<1>1. /\ Lasting(SimulTeam) /\ Lasting(SimulChannel) /\ Lasting(SimulTeamChannel)
  BY SimulIs, Contexts DEF SimulTeam, SimulChannel, SimulTeamChannel
<1>2. /\ Simul \subseteq SimulTeam /\ Simul \subseteq SimulChannel /\ Simul \subseteq SimulTeamChannel
      /\ IsMain \in Simul /\ <<"team", "team">> \in SimulTeam
      /\ {<<"chan", "channel">>, <<"chan", "joined">>} \subseteq SimulChannel
      /\ {<<"chan", "channel">>, <<"chan", "joined">>} \subseteq SimulTeamChannel
  BY SimulIs DEF SimulTeam, SimulChannel, SimulTeamChannel, WithTeam, WithChannel
<1>3. /\ \A f \in SimulTeam : f[1] \in {"here", "team"}
      /\ \A f \in SimulChannel : f[1] \in {"here", "chan"}
      /\ \A f \in SimulTeamChannel : f[1] \in {"here", "team", "chan"}
  BY SimulIs DEF SimulTeam, SimulChannel, SimulTeamChannel, WithTeam, WithChannel
<1>4. Simul = {IsMain, IsSimul} /\ \A f \in Simul : f[1] = "here"
  BY SimulIs DEF Simul
<1> QED BY <1>1, <1>2, <1>3, <1>4 DEF Ready

LEMMA Switching ==
  /\ Typed(CurrentTeam, Simul, SimulTeam)
  /\ Typed(CurrentChannel, Simul, SimulChannel)
  /\ Typed(switchChannel, Simul, {}) /\ Typed(switchTeam, Simul, {})
  /\ Typed(openDirectOrGroupChannel, Simul, {})
<1> DEFINE T == SimulTeam
           C == SimulTeamChannel
           W == C \union {<<"chan", "viewed">>}
<1>1. \A E : Typed(Info, E, {}) /\ Typed(Err, E, {})
  BY OthersTyped
<1>2. Typed(CurrentTeam, Simul, T) /\ Typed(CurrentChannel, Simul, SimulChannel)
  BY <1>1, Picks, SimulContexts DEF CurrentTeam, CurrentChannel, SimulTeam, SimulChannel
<1>3. ASSUME NEW st, "NotMemberOf" \notin st, NEW none \in {Info, Err}
      PROVE  Typed(PickChannel(st, none), T, C)
  <2>1. Typed(none, T, {})
    BY <1>1
  <2> QED BY <1>3, <2>1, Choosing, SimulContexts DEF SimulTeamChannel, SimulTeam
<1>4. Typed(viewChannel, C, W)
  BY ViewChannelTyped, SimulContexts
<1>5. Typed(Do("SetCurrentChannel", "chan"), W, W)
  <2>1. MayCall("SetCurrentChannel", "chan", W)
    BY SimulContexts DEF MayCall, Takes, TakesSet, Registers
  <2> QED BY <2>1, DoTyped DEF Called
<1>6. Typed(loadTeam, T, T)
  BY LoadTeam, SimulContexts
<1>7. Typed(Do("SetCurrentTeam", "team"), T, T)
  <2>1. MayCall("SetCurrentTeam", "team", T)
    BY SimulContexts DEF MayCall, Takes, TakesSet, Registers
  <2> QED BY <2>1, DoTyped DEF Called
<1>8. Typed(PickTeam({"MemberOf", "NotCurrent"}, Info), Simul, T)
  BY <1>1, Choosing, SimulContexts DEF SimulTeam
<1>9. Simul \subseteq T
  BY SimulContexts
<1> HIDE DEF T, C, W
<1>10. Typed(switchChannel, Simul, {})
  <2>1. Typed(PickChannel({"MemberOf", "NotCurrent", "NotDirect", "NotGroup"}, Err), T, C)
    BY <1>3
  <2>2. Typed(CurrentTeam \o PickChannel({"MemberOf", "NotCurrent", "NotDirect", "NotGroup"}, Err), Simul, C)
    BY <1>2, <2>1, InTurn
  <2> QED BY <1>1, <1>4, <1>5, <2>2, InTurn DEF switchChannel
<1>11. Typed(switchTeam, Simul, {})
  <2>1. Typed(switchChannel, T, {})
    BY <1>9, <1>10, KnowMore
  <2> QED BY <1>6, <1>7, <1>8, <2>1, InTurn DEF switchTeam
<1>12. Typed(openDirectOrGroupChannel, Simul, {})
  <2>1. Typed(PickChannel({"MemberOf", "NotCurrent", "NotPublic", "NotPrivate"}, Info), T, C)
    BY <1>3
  <2> QED BY <1>1, <1>2, <1>4, <2>1, InTurn DEF openDirectOrGroupChannel
<1> QED BY <1>2, <1>10, <1>11, <1>12 DEF T

LEMMA Reloading ==
  /\ Typed(fullReload, Simul, {}) /\ Typed(login, Simul, {}) /\ Typed(loginReload, Simul, {})
  /\ Typed(logoutLogin, Simul, {})
<1> DEFINE T == SimulTeam
           C == SimulTeamChannel
           W == C \union {<<"chan", "viewed">>}
<1>1. /\ \A E : Typed(Info, E, {})
      /\ Typed(Connect, Simul, Simul) /\ Typed(Disconnect, Simul, Simul)
  BY OthersTyped
<1>2. Typed(Reload, Simul, Simul) /\ Typed(Login, Simul, Simul)
  BY SimulIs, ReloadTyped, CommonActions1
<1>3. Typed(U!Logout, Simul, Simul)
  BY SimulIs, Idle
<1>4. Typed(Do("Clear", "none"), Simul, Simul)
  <2>1. MayCall("Clear", "none", Simul) /\ Simul \subseteq Called("Clear", "none", Simul)
    BY DEF MayCall, Called, Simul, IsMain, IsSimul
  <2> QED BY <2>1, DoTyped, LearnLess
<1>5. \A name \in {"login", "loginReload"} : Typed(Run(name), Simul, {})
  BY RunTyped, SimulContexts
<1>6. Typed(Catch(Run("login")), Simul, Simul) /\ Typed(Catch(Run("loginReload")), Simul, Simul)
  BY <1>5, CatchTyped, SimulIs
<1>7. Typed(Uncatch, Simul, Simul)
  BY Nothing, CatchTyped DEF Uncatch
<1>8. Typed(Pick("team", "currentTeam", switchTeam), Simul, T)
  BY Switching, Picks, SimulContexts DEF SimulTeam
<1>9. Typed(loadTeam, T, T) /\ Typed(viewChannel, C, W)
  BY LoadTeam, ViewChannelTyped, SimulContexts
<1>10. Typed(Pick("chan", "currentChannel", switchChannel), T, C)
  <2>1. Typed(switchChannel, T, {})
    BY Switching, SimulContexts, KnowMore
  <2> QED BY <2>1, Picks, SimulContexts DEF SimulTeamChannel, SimulTeam
<1> HIDE DEF T, C, W
<1>11. Typed(reloadPage, Simul, {})
  BY <1>1, <1>2, <1>8, <1>9, <1>10, InTurn DEF reloadPage
<1>12. Typed(fullReload, Simul, {})
  BY <1>1, <1>4, <1>11, InTurn DEF fullReload
<1>13. Typed(login, Simul, {})
  BY <1>1, <1>2, <1>6, InTurn DEF login
<1>14. Typed(loginReload, Simul, {})
  BY <1>1, <1>2, <1>6, <1>7, <1>11, InTurn DEF loginReload
<1>15. Typed(clearLoginReload, Simul, {})
  BY <1>4, <1>5, InTurn DEF clearLoginReload
<1>16. Typed(logout, Simul, Simul)
  BY <1>1, <1>3, InTurn DEF logout
<1>17. Typed(Catch(clearLoginReload), Simul, Simul)
  BY <1>15, CatchTyped, SimulIs
<1>18. Typed(logoutLogin, Simul, {})
  BY <1>15, <1>16, <1>17, InTurn DEF logoutLogin
<1> QED BY <1>12, <1>13, <1>14, <1>18

LEMMA Joining ==
  /\ Typed(joinTeam, Simul, {}) /\ Typed(joinChannel, Simul, {})
  /\ Typed(unreadCheck, Simul, {}) /\ Typed(searchChannels, Simul, {})
<1> DEFINE T == SimulTeam
           C == SimulTeamChannel
           N == T \union {<<"chan", "channel">>}
<1>1. \A E : Typed(Info, E, {}) /\ Typed(Err, E, {})
  BY OthersTyped
<1>2. Typed(CurrentTeam, Simul, T) /\ Typed(switchTeam, T, {})
  BY Switching, SimulContexts, KnowMore
<1>3. Typed(U!GetAllTeams, Simul, Simul) /\ Typed(U!AddTeamMember, T, T)
      /\ Typed(U!GetPublicChannelsForTeam, T, T)
  BY SimulIs, SimulContexts, Fetches, Sends
<1>4. Typed(PickTeam({"NotMemberOf"}, switchTeam), Simul, T)
  BY Switching, Choosing, SimulContexts DEF SimulTeam
<1>5. Typed(PickChannel({"NotMemberOf"}, Info), T, N)
      /\ Typed(PickChannel({"MemberOf", "NotMemberOf"}, Info), T, N)
  BY <1>1, Choosing, SimulContexts
<1>6. Lasting(N) /\ IsMain \in N /\ <<"chan", "channel">> \in N
  BY SimulContexts DEF Lasting
<1>7. Typed(U!AddChannelMember, N, N) /\ Typed(Typing(U!SearchChannels), N, N)
  BY <1>6, Visits, Idle, TypingTyped
<1>8. Typed(CurrentChannel, T, C)
  BY <1>1, Picks, SimulContexts DEF CurrentChannel, SimulTeamChannel, SimulTeam
<1>9. Typed(U!GetChannelsForTeam, C, C) /\ Typed(U!GetChannelMembersForUser, C, C)
      /\ Typed(U!ViewChannel("chan"), C, C)
  BY Fetches, Visits, SimulContexts DEF Registers
<1> HIDE DEF T, C, N
<1>10. Typed(joinTeam, Simul, {})
  BY <1>2, <1>3, <1>4, InTurn DEF joinTeam
<1>11. Typed(joinChannel, Simul, {})
  BY <1>1, <1>2, <1>3, <1>5, <1>7, InTurn DEF joinChannel
<1>12. Typed(unreadCheck, Simul, {})
  BY <1>1, <1>2, <1>8, <1>9, InTurn DEF unreadCheck
<1>13. Typed(searchChannels, Simul, {})
  BY <1>1, <1>2, <1>5, <1>7, InTurn DEF searchChannels
<1> QED BY <1>10, <1>11, <1>12, <1>13

LEMMA CreateMessage ==
  ASSUME NEW G, Lasting(G), \A f \in G : f[1] # "user"
  PROVE  Typed(createMessage, G, G)
<1> DEFINE E == WithUser(G)
           mention == If("fewerThan1", Err) \o Pick("user", "others", Spin)
                        \o Typing(U!AutoCompleteUsersInChannel) \o Maybe(Err)
<1>1. \A F, M : Typed(Err, F, M) /\ Typed(Spin, F, M)
  BY OthersTyped
<1>2. Typed(If("fewerThan1", Err), G, G)
  BY <1>1, IfTyped
<1>3. Typed(Pick("user", "others", Spin), G, E)
  BY <1>1, Picks
<1>4. Lasting(E) /\ G \subseteq E
  BY DEF Lasting, WithUser
<1> HIDE DEF E
<1>5. Typed(Typing(U!AutoCompleteUsersInChannel), E, E)
  BY <1>4, Idle, TypingTyped
<1>6. Typed(Maybe(Err), E, E)
  BY <1>1, MaybeTyped
<1>7. Typed(mention, G, E)
  BY <1>2, <1>3, <1>5, <1>6, InTurn
<1>8. Typed(mention, G, G)
  BY <1>4, <1>7, LearnLess
<1> QED BY <1>8, MaybeTyped DEF createMessage

LEMMA Posting ==
  /\ Typed(editPost, Simul, {}) /\ Typed(createPostReply, Simul, {})
  /\ Typed(createPost, Simul, {}) /\ Typed(addReaction, Simul, {})
<1> DEFINE C == SimulChannel
           P == WithPost(C)
<1>1. \A E : Typed(Info, E, {})
  BY OthersTyped
<1>2. Typed(CurrentChannel, Simul, C)
  BY Switching
<1>3. \A from \in {"myPosts", "channelPosts"} : Typed(Pick("post", from, Info), C, P)
  BY <1>1, Picks, SimulContexts
<1>4. /\ Lasting(C) /\ Lasting(P) /\ (\A f \in C : f[1] # "user") /\ (\A f \in P : f[1] # "user")
      /\ <<"chan", "joined">> \in C /\ <<"chan", "joined">> \in P /\ <<"post", "post">> \in P
  BY SimulContexts DEF WithPost, Lasting
<1> HIDE DEF C, P
<1>5. Typed(createMessage, C, C) /\ Typed(createMessage, P, P)
  BY <1>4, CreateMessage
<1>6. /\ Typed(U!CreatePost, C, C) /\ Typed(U!CreatePost, P, P)
      /\ Typed(U!PatchPost, P, P) /\ Typed(U!TrySaveReaction, P, P)
      /\ Typed(U!UploadFile, C, C) /\ Typed(U!UploadFile, P, P)
  BY <1>4, Sends, Fetches
<1>7. Typed(Maybe(attachFilesToPost), C, C) /\ Typed(Maybe(attachFilesToPost), P, P)
  BY <1>6, MaybeTyped DEF attachFilesToPost
<1>8. Typed(If("reacted", Maybe(Info)), P, P)
  <2>1. P \union Learnt("reacted") = P
    BY DEF Learnt
  <2>2. Typed(Maybe(Info), P, P)
    BY OthersTyped, MaybeTyped
  <2> QED BY <2>1, <2>2, IfTyped
<1>9. Typed(editPost, Simul, {})
  BY <1>1, <1>2, <1>3, <1>5, <1>6, InTurn DEF editPost
<1>10. Typed(createPostReply, Simul, {})
  BY <1>1, <1>2, <1>3, <1>5, <1>6, <1>7, InTurn DEF createPostReply
<1>11. Typed(createPost, Simul, {})
  BY <1>1, <1>2, <1>5, <1>6, <1>7, InTurn DEF createPost
<1>12. Typed(addReaction, Simul, {})
  BY <1>1, <1>2, <1>3, <1>6, <1>8, InTurn DEF addReaction
<1> QED BY <1>9, <1>10, <1>11, <1>12

LEMMA Making ==
  /\ Typed(createDirectChannel, Simul, {}) /\ Typed(createGroupChannel, Simul, {})
<1> DEFINE C == SimulChannel
           Q == Simul \union {<<"got", "user">>}
           E == WithUser(Simul)
<1>1. \A F, M : Typed(Info, F, M) /\ Typed(Err, F, M) /\ Typed(Spin, F, M)
  BY OthersTyped
<1>2. Typed(U!GetUsers, Simul, Q)
  BY SimulIs, Fetches
<1>3. Typed(getProfileImageForUsers("got"), Q, Simul)
  BY SimulIs, ProfileImages
<1>4. Typed(If("fewerThan1", Info), Simul, Simul) /\ Typed(If("fewerThan2", Info), Simul, Simul)
  BY <1>1, IfTyped
<1>5. Typed(Pick("user", "others", Spin), Simul, E)
  BY <1>1, Picks, SimulIs
<1>6. Typed(U!CreateDirectChannel, E, C) /\ Typed(U!CreateGroupChannel, Simul, C)
  <2>1. Lasting(E) /\ IsMain \in E /\ C \subseteq InChannel(E) /\ InChannel(Simul) = C
    BY SimulIs DEF InChannel, SimulChannel, WithChannel, WithUser, Kill, Lasting
  <2>2. Typed(U!CreateDirectChannel, E, InChannel(E)) /\ Typed(U!CreateGroupChannel, Simul, InChannel(Simul))
    BY <2>1, Makes, SimulIs
  <2> QED BY <2>1, <2>2, LearnLess
<1>7. Typed(U!GetChannel, C, C) /\ Typed(U!GetChannelMember, C, C)
  BY Sends, SimulContexts
<1>8. Typed(Pick("chan", "theChannel", Err), C, C)
  BY <1>1, PickTyped DEF Registers
<1>9. Typed(viewChannel, C, C)
  <2>1. Typed(viewChannel, C, C \union {<<"chan", "viewed">>})
    BY ViewChannelTyped, SimulContexts
  <2> QED BY <2>1, LearnLess
<1>10. Typed(createPost, C, {})
  BY Posting, SimulContexts, KnowMore
<1> HIDE DEF C, Q, E
<1>11. Typed(createDirectChannel, Simul, {})
  BY <1>2, <1>3, <1>4, <1>5, <1>6, <1>7, <1>8, <1>9, <1>10, InTurn DEF createDirectChannel
<1>12. Typed(createGroupChannel, Simul, {})
  BY <1>2, <1>3, <1>4, <1>6, <1>8, <1>9, <1>10, InTurn DEF createGroupChannel
<1> QED BY <1>11, <1>12

-----------------------------------------------------------------------------
(* What the other goroutines run.                                          *)
LEMMA Waking ==
  /\ Typed(typingEvent, {}, {}) /\ Typed(getUsersStatuses, {}, {}) /\ Typed(sendDirectMessage, {}, {})
  /\ Typed(U!handlePostEvent, {<<"post", "post">>}, {})
  /\ Typed(U!handlePostDeleted, {<<"post", "post">>}, {})
  /\ \A call \in {"SetReaction", "DeleteReaction"} :
       Typed(U!handleReactionEvent(call), {<<"post", "post">>, <<"user", "user">>}, {})
<1>1. \A E : Typed(Info, E, {}) /\ Typed(Info, E, E)
  BY OthersTyped
<1>2. Typed(typingEvent, {}, {})
  <2> DEFINE E == WithUser({})
  <2>1. Typed(Pick("user", "anyone", Info), {}, E)
    BY <1>1, Picks
  <2>2. Typed(Gather("ids", "theUser"), E, E)
    BY OthersTyped DEF WithUser, Sets
  <2>3. Lasting(E)
    BY DEF WithUser, Lasting
  <2> HIDE DEF E
  <2>4. Typed(U!GetUsersByIds("ids"), E, E) /\ Typed(U!GetUsersStatusesByIds("ids"), E, E)
    BY <2>3, Fetches DEF Sets
  <2>5. Typed(fetchUserAndStatus, E, E) /\ Typed(fetchStatus, E, E)
    BY <1>1, <2>4, InTurn DEF fetchUserAndStatus, fetchStatus
  <2>6. E \union Learnt("noUser") = E /\ E \union Learnt("noStatus") = E
    BY DEF Learnt
  <2>7. Typed(If("noUser", fetchUserAndStatus), E, E) /\ Typed(If("noStatus", fetchStatus), E, E)
    BY <2>5, <2>6, IfTyped
  <2> QED BY <1>1, <2>1, <2>2, <2>7, InTurn DEF typingEvent
<1>3. Typed(getUsersStatuses, {}, {})
  <2> DEFINE C == WithChannel({})
  <2>1. Typed(Pick("chan", "currentChannel", Info), {}, C)
    BY <1>1, Picks
  <2>2. Typed(Gather("ids", "postsAuthors"), C, C)
    BY OthersTyped DEF Sets
  <2>3. Typed(U!GetUsersStatusesByIds("ids"), C, C)
    <3>1. Lasting(C)
      BY DEF Lasting, WithChannel
    <3> QED BY <3>1, Fetches DEF Sets
  <2> QED BY <1>1, <2>1, <2>2, <2>3, InTurn DEF getUsersStatuses
<1>4. Typed(sendDirectMessage, {}, {})
  <2> DEFINE C == WithChannel({})
  <2>1. Typed(Pick("user", "anyone", Info), {}, {})
    BY <1>1, Picks, LearnLess
  <2>2. Typed(Pick("chan", "directChannelByName", Info), {}, C)
    BY <1>1, PickTyped DEF Registers
  <2>3. Typed(U!CreatePost, C, C)
    BY Sends DEF Lasting, WithChannel
  <2> QED BY <1>1, <2>1, <2>2, <2>3, InTurn DEF sendDirectMessage
<1>5. ASSUME NEW G, G \subseteq {<<"post", "post">>, <<"user", "user">>}, NEW p,
             Typed(p, WithChannel(G), WithChannel(G))
      PROVE  Typed(U!inCurrentChannel(p) \o Info, G, {})
  <2> DEFINE C == WithChannel(G)
  <2>1. Typed(Pick("chan", "currentChannel", Info), G, C)
    <3>1. \A f \in G : f[1] # "chan"
      BY <1>5
    <3> QED BY <1>1, <3>1, Picks
  <2>2. C \union Learnt("postInChannel") = C
    BY DEF Learnt
  <2> HIDE DEF C
  <2>3. Typed(If("postInChannel", p), C, C)
    BY <1>5, <2>2, IfTyped DEF C
  <2>4. Typed(U!inCurrentChannel(p), G, C)
    BY <2>1, <2>3, InTurn, Words DEF U!inCurrentChannel
  <2> QED BY <1>1, <2>4, InTurn
<1>6. Typed(U!handlePostEvent, {<<"post", "post">>}, {})
  <2> DEFINE C == WithChannel({<<"post", "post">>})
  <2>1. MayCall("SetPost", "post", C) /\ Called("SetPost", "post", C) = C
    BY DEF MayCall, Takes, TakesSet, Registers, Called, WithChannel
  <2>2. Typed(Do("SetPost", "post"), C, C)
    BY <2>1, DoTyped
  <2> QED BY <1>5, <2>2, Words DEF U!handlePostEvent
<1>7. Typed(U!handlePostDeleted, {<<"post", "post">>}, {})
  <2> DEFINE P == {<<"post", "post">>}
  <2>1. MayCall("DeletePost", "post", P) /\ Called("DeletePost", "post", P) = P
    BY DEF MayCall, Takes, TakesSet, Registers, Called
  <2>2. Typed(Do("DeletePost", "post"), P, P)
    BY <2>1, DoTyped
  <2> HIDE DEF P
  <2>3. Typed(Do("DeletePost", "post") \o Info, P, {})
    BY <1>1, <2>2, InTurn
  <2> QED BY <2>3, Words DEF U!handlePostDeleted, P
<1>8. ASSUME NEW call \in {"SetReaction", "DeleteReaction"}
      PROVE  Typed(U!handleReactionEvent(call), {<<"post", "post">>, <<"user", "user">>}, {})
  <2> DEFINE C == WithChannel({<<"post", "post">>, <<"user", "user">>})
  <2>1. MayCall(call, "user", C) /\ Called(call, "user", C) = C
    BY DEF MayCall, Called, WithChannel
  <2>2. Typed(Do(call, "user"), C, C)
    BY <2>1, DoTyped
  <2>3. C \union Learnt("postStored") = C
    BY DEF Learnt, WithChannel
  <2>4. Typed(If("postStored", Do(call, "user")), C, C)
    BY <2>2, <2>3, IfTyped
  <2> QED BY <1>5, <2>4, Words DEF U!handleReactionEvent
<1> QED BY <1>2, <1>3, <1>4, <1>6, <1>7, <1>8

-----------------------------------------------------------------------------
(* Every action but LeaveChannel, whose membership ends before the store   *)
(* forgets it, is judged from what its goroutine is.                       *)
LEMMA SimulPrograms ==
  ASSUME NEW name \in Actions["simul"] \union {"loginReload"}
  PROVE  Typed(Program(name), Simul, {})
<1>1. /\ Program("signUp") = SignUp /\ Program("login") = login
      /\ Program("loginReload") = loginReload /\ Program("joinTeam") = joinTeam
      /\ Program("firstJoinChannel") = joinChannel /\ Program("joinChannel") = joinChannel
      /\ Program("switchChannel") = switchChannel /\ Program("switchTeam") = switchTeam
      /\ Program("openDirectOrGroupChannel") = openDirectOrGroupChannel
      /\ Program("unreadCheck") = unreadCheck
  BY DEF Program
<1>2. /\ Program("createPost") = createPost
      /\ Program("createPostReply") = createPostReply /\ Program("editPost") = editPost
      /\ Program("searchChannels") = searchChannels /\ Program("addReaction") = addReaction
      /\ Program("fullReload") = fullReload
      /\ Program("createDirectChannel") = createDirectChannel
      /\ Program("createGroupChannel") = createGroupChannel
      /\ Program("logoutLogin") = logoutLogin
  BY DEF Program
<1>3. Typed(SignUp, Simul, {})
  BY SimulIs, CommonActions1
<1>4. name \in {"signUp", "login", "loginReload", "joinTeam", "firstJoinChannel", "joinChannel",
                "switchChannel", "switchTeam", "openDirectOrGroupChannel", "unreadCheck"}
        \/ name \in {"createPost", "createPostReply", "editPost", "searchChannels", "addReaction",
                     "fullReload", "createDirectChannel", "createGroupChannel", "logoutLogin"}
  BY DEF Actions
<1> QED BY <1>1, <1>2, <1>3, <1>4, Switching, Reloading, Joining, Posting, Making

LEMMA SimplePrograms ==
  ASSUME NEW name \in Actions["simple"], name # "LeaveChannel"
  PROVE  Typed(Program(name), {IsMain, IsSimple}, {})
<1> DEFINE G == {IsMain, IsSimple}
<1>1. /\ Program("signUp") = SignUp /\ Program("Login") = simpleLogin
      /\ Program("Logout") = simpleLogout /\ Program("Reload") = reload
      /\ Program("ScrollChannel") = scrollChannel /\ Program("UpdateProfile") = updateProfile
      /\ Program("UpdateTeam") = updateTeam /\ Program("JoinChannel") = JoinChannel
      /\ Program("JoinTeam") = JoinTeam
  BY DEF Program
<1>2. /\ Program("CreatePost") = CreatePost /\ Program("EditPost") = EditPost
      /\ Program("CreatePostReply") = CreatePostReply /\ Program("AddReaction") = AddReaction
      /\ Program("RemoveReaction") = RemoveReaction
      /\ Program("CreateGroupChannel") = CreateGroupChannel
      /\ Program("CreatePublicChannel") = CreatePublicChannel
      /\ Program("CreatePrivateChannel") = CreatePrivateChannel
      /\ Program("CreateDirectChannel") = CreateDirectChannel
  BY DEF Program
<1>3. /\ Program("ViewChannel") = ViewChannel /\ Program("ViewUser") = ViewUser
      /\ Program("SearchUsers") = SearchUsers /\ Program("SearchChannels") = SearchChannels
      /\ Program("SearchPosts") = SearchPosts
      /\ Program("UpdateProfileImage") = UpdateProfileImage
      /\ Program("GetPinnedPosts") = GetPinnedPosts
      /\ Program("FetchStaticAssets") = FetchStaticAssets
  BY DEF Program
<1>4. G \in SUBSET Who /\ IsMain \in G
  BY DEF Who
<1> HIDE DEF G
<1>5. /\ Typed(SignUp, G, {}) /\ Typed(JoinChannel, G, {}) /\ Typed(JoinTeam, G, {})
      /\ Typed(CreatePost, G, {}) /\ Typed(EditPost, G, {}) /\ Typed(CreatePostReply, G, {})
      /\ Typed(ViewChannel, G, {}) /\ Typed(ViewUser, G, {}) /\ Typed(CreateDirectChannel, G, {})
  BY <1>4, CommonActions1, CommonActions2
<1>6. /\ Typed(AddReaction, G, {}) /\ Typed(RemoveReaction, G, {})
      /\ Typed(CreateGroupChannel, G, {}) /\ Typed(CreatePublicChannel, G, {})
      /\ Typed(CreatePrivateChannel, G, {}) /\ Typed(SearchUsers, G, {})
      /\ Typed(UpdateProfileImage, G, {}) /\ Typed(SearchChannels, G, {})
      /\ Typed(SearchPosts, G, {}) /\ Typed(FetchStaticAssets, G, {})
      /\ Typed(GetPinnedPosts, G, {})
  BY <1>4, CommonActions3
<1>7. /\ Typed(simpleLogin, G, {}) /\ Typed(simpleLogout, G, {}) /\ Typed(reload, G, {})
      /\ Typed(scrollChannel, G, {}) /\ Typed(updateProfile, G, {}) /\ Typed(updateTeam, G, {})
  BY SimpleTyped DEF G
<1>8. \/ name \in {"signUp", "Login", "Logout", "Reload", "ScrollChannel", "UpdateProfile",
                   "UpdateTeam", "JoinChannel", "JoinTeam"}
      \/ name \in {"CreatePost", "EditPost", "CreatePostReply", "AddReaction", "RemoveReaction",
                   "CreateGroupChannel", "CreatePublicChannel", "CreatePrivateChannel",
                   "CreateDirectChannel"}
      \/ name \in {"ViewChannel", "ViewUser", "SearchUsers", "SearchChannels", "SearchPosts",
                   "UpdateProfileImage", "GetPinnedPosts", "FetchStaticAssets"}
  BY DEF Actions
<1>9. Typed(Program(name), G, {})
  BY <1>1, <1>2, <1>3, <1>5, <1>6, <1>7, <1>8
<1> QED BY <1>9 DEF G

-----------------------------------------------------------------------------
(* What the facts mean.  Only the controller's goroutine makes the user    *)
(* leave a channel or clears the store, so what the others know of these   *)
(* does not last, except under the simulative controller, which never      *)
(* leaves.                                                                 *)
Joined(t) == IF t = "main" \/ kind = "simul" THEN server.joined ELSE {}
Viewed(t) == IF t = "main" THEN store.views ELSE {}

Is(k, x, t) ==
  CASE k = "team" -> x \in Teams
    [] k = "channel" -> x \in server.channels
    [] k = "joined" -> x \in Joined(t)
    [] k = "viewed" -> x \in Viewed(t)
    [] k = "post" -> x \in Posts
    [] k = "user" -> x \in Users
    [] k = "cred" -> x \in Credentials
    [] k = "member" -> x \in Channels \X Users /\ (x[2] = Me => x[1] \in Joined(t))
    [] k = "direct" -> ChannelType[x] \in {"Direct", "Group"}
    [] k = "pref" -> x \in {"Direct", "Group"}
    [] OTHER -> FALSE

Fact(f, t) ==
  CASE f[1] = "here" -> (f[2] = "main" /\ t = "main") \/ (f[2] \in {"simul", "simple"} /\ kind = f[2])
    [] f[1] = "got" -> \A x \in reg[t].got : Is(f[2], x, t)
    [] f[1] = "nonempty" -> reg[t].got # {}
    [] f[1] = "left" -> Is(f[2], f[3], t)
    [] f[1] \in Registers \union {"item"} -> Is(f[2], reg[t][f[1]], t)
    [] OTHER -> FALSE

Knows(t, G) == \A f \in G : Fact(f, t)

Judged(t) == \E G : Typed(todo[t], G, {}) /\ Knows(t, G)

Self(t) == {f \in Who : Fact(f, t)}

CatchOK(t) == Typed(catch[t], Self(t), {})

RegOK(t) == DOMAIN reg[t] = DOMAIN Blank /\ \A r \in Sets : reg[t][r] \subseteq Users

(* What a goroutine knew stays true when the registers it is about, the    *)
(* server and the store keep it so.                                        *)
Keeps(t) ==
  /\ kind' = kind
  /\ server.channels \subseteq server'.channels
  /\ Joined(t) \subseteq Joined(t)'
  /\ Viewed(t) \subseteq Viewed(t)'

LEMMA KindsKept ==
  ASSUME NEW t, Keeps(t), NEW k, NEW x, Is(k, x, t) PROVE Is(k, x, t)'
<1>1. CASE k \in {"team", "channel", "joined", "viewed", "post", "user"}
  BY <1>1 DEF Is, Keeps
<1>2. CASE k \in {"cred", "member", "direct", "pref"}
  BY <1>2 DEF Is, Keeps
<1> QED BY <1>1, <1>2 DEF Is

(* Registers that a fact is about.                                         *)
Uses(f) == IF f[1] = "nonempty" THEN "got" ELSE f[1]

LEMMA FactKept ==
  ASSUME NEW t, Keeps(t), NEW f, Fact(f, t),
         Uses(f) \notin {"here", "left"} => reg'[t][Uses(f)] = reg[t][Uses(f)]
  PROVE  Fact(f, t)'
<1>1. CASE f[1] = "here"
  BY <1>1 DEF Fact, Keeps, Registers
<1>2. CASE f[1] = "got"
  BY <1>2, KindsKept DEF Fact, Uses
<1>3. CASE f[1] = "nonempty"
  BY <1>3 DEF Fact, Uses, Registers
<1>4. CASE f[1] = "left"
  BY <1>4, KindsKept DEF Fact, Registers
<1>5. CASE f[1] \in Registers \union {"item"}
  <2>1. Is(f[2], reg[t][f[1]], t) /\ Uses(f) = f[1] /\ f[1] \notin {"here", "got", "nonempty", "left"}
    BY <1>5 DEF Fact, Uses, Registers
  <2>2. Is(f[2], reg[t][f[1]], t)'
    BY <2>1, KindsKept
  <2> QED BY <1>5, <2>1, <2>2 DEF Fact
<1> QED BY <1>1, <1>2, <1>3, <1>4, <1>5 DEF Fact

LEMMA AllKept ==
  ASSUME NEW t, Keeps(t), reg'[t] = reg[t], NEW G, Knows(t, G)
  PROVE  Knows(t, G)'
BY FactKept DEF Knows

LEMMA ThisKept ==
  ASSUME NEW t, kind' = kind PROVE Self(t)' = Self(t)
BY DEF Self, Fact, Who, IsMain, IsSimul, IsSimple

-----------------------------------------------------------------------------
(* The invariant of the session.                                           *)
ServerOK ==
  /\ server.teams \subseteq Teams /\ server.channels \subseteq Channels
  /\ server.joined \subseteq server.channels /\ DefaultChannels \subseteq server.channels
  /\ server.posts \subseteq Posts \ server.deleted /\ server.deleted \subseteq Posts
  /\ server.prefs \subseteq {"Direct", "Group"}
  /\ DOMAIN server = {"teams", "channels", "joined", "posts", "deleted", "prefs"}

(* LeaveChannel, in the order of its steps: the server is told first, and  *)
(* the store keeps the membership for one step more.                       *)
ForgetMember == U!Do("RemoveChannelMember", "chan") \o Info
Leave == U!RemoveUserFromChannel \o Info

Leaving == kind = "simple" /\ todo["main"] = ForgetMember /\ reg["main"].chan \in server.channels

Leaves ==
  kind = "simple" /\ \/ todo["main"] = LeaveChannel
                     \/ todo["main"] \in {Leave, ForgetMember} /\ reg["main"].chan \in server.channels

(* What the store has of the server is right.                              *)
Known ==
  /\ store.channels \subseteq server.channels
  /\ store.currentChannel # None => kind = "simul" /\ store.currentChannel \in server.joined
  /\ \A c \in Channels :
       IsMember(c) => c \in server.joined \/ (Leaving /\ c = reg["main"].chan)

Control ==
  /\ DOMAIN reg = Threads /\ DOMAIN todo = Threads /\ DOMAIN catch = Threads
  /\ connected \in BOOLEAN /\ panicked \in BOOLEAN /\ budget \in Nat
  /\ kind \in DOMAIN Actions
  /\ script \in Seq(Actions[kind] \union {"others"})
  /\ todo["main"] # <<>> => script # <<>> /\ Head(script) # "others"

Goroutine(t) == CatchOK(t) /\ RegOK(t) /\ (Judged(t) \/ (t = "main" /\ Leaves))

SessionInv ==
  /\ StoreInv /\ ServerOK /\ Known /\ Control
  /\ \A t \in Threads : Goroutine(t)

(* What a step of a goroutine does to the server and the store.            *)
Sound(t) ==
  /\ [StoreNext]_store /\ ServerOK'
  /\ kind' = kind /\ server.channels \subseteq server'.channels
  /\ server.joined \subseteq server'.joined
  /\ t # "main" => store.views \subseteq store'.views
  /\ store'.channels \subseteq store.channels \union server'.channels
  /\ store'.currentChannel = store.currentChannel
       \/ (kind = "simul" /\ store'.currentChannel \in server'.joined /\ store'.currentChannel \in store'.views)
  /\ \A c \in Channels : IsMember(c)' => IsMember(c) \/ c \in server'.joined

(* And to the goroutines.                                                  *)
Only(t) ==
  /\ DOMAIN reg' = Threads /\ DOMAIN todo' = Threads /\ DOMAIN catch' = Threads
  /\ \A s \in Threads \ {t} : todo'[s] = todo[s] /\ reg'[s] = reg[s] /\ catch'[s] = catch[s]

LEMMA OthersKeep ==
  ASSUME NEW t, NEW s, s # t, Sound(t) PROVE Keeps(s)
BY DEF Sound, Keeps, Joined, Viewed

(* One goroutine goes on, the others are where they were.                  *)
LEMMA OthersGoOn ==
  ASSUME SessionInv, NEW t \in Threads, Only(t), \A s \in Threads \ {t} : Keeps(s), Goroutine(t)'
  PROVE  \A s \in Threads : Goroutine(s)'
<1> SUFFICES ASSUME NEW s \in Threads, s # t PROVE Goroutine(s)'
  OBVIOUS
<1>1. todo'[s] = todo[s] /\ reg'[s] = reg[s] /\ catch'[s] = catch[s] /\ kind' = kind
  BY DEF Only, Keeps
<1>2. CatchOK(s)' /\ RegOK(s)'
  BY <1>1, ThisKept DEF SessionInv, Goroutine, CatchOK, RegOK
<1>3. CASE Judged(s)
  <2>1. PICK G : Typed(todo[s], G, {}) /\ Knows(s, G)
    BY <1>3 DEF Judged
  <2>2. Knows(s, G)'
    BY <1>1, <2>1, AllKept
  <2> QED BY <1>1, <1>2, <2>1, <2>2 DEF Judged, Goroutine
<1>4. CASE s = "main" /\ Leaves
  <2>1. Leaves'
    BY <1>1, <1>4 DEF Leaves, Keeps, Leave, ForgetMember
  <2> QED BY <1>2, <1>4, <2>1 DEF Goroutine
<1> QED BY <1>3, <1>4 DEF SessionInv, Goroutine

LEMMA StepKeepsSession ==
  ASSUME SessionInv, NEW t \in Threads, Sound(t), Only(t), Control', Goroutine(t)',
         t = "main" => ~Leaving
  PROVE  SessionInv'
<1>1. StoreInv'
  BY StoreInvStep DEF SessionInv, Sound
<1>2. \A s \in Threads : Goroutine(s)'
  BY OthersKeep, OthersGoOn
<1>3. Known'
  <2>1. store'.channels \subseteq server'.channels
    BY DEF Known, Sound, SessionInv
  <2>2. store'.currentChannel # None => kind' = "simul" /\ store'.currentChannel \in server'.joined
    BY DEF Known, Sound, SessionInv
  <2>3. ASSUME NEW c \in Channels, IsMember(c)'
        PROVE  c \in server'.joined \/ (Leaving' /\ c = reg'["main"].chan)
    <3>1. IsMember(c) \/ c \in server'.joined
      BY <2>3 DEF Sound
    <3>2. CASE IsMember(c)
      <4>1. c \in server.joined \/ (Leaving /\ c = reg["main"].chan)
        BY <3>2 DEF Known, SessionInv
      <4>2. CASE Leaving /\ c = reg["main"].chan
        <5>1. t # "main" /\ "main" \in Threads
          BY <4>2 DEF Threads
        <5>2. todo'["main"] = todo["main"] /\ reg'["main"] = reg["main"]
          BY <5>1 DEF Only
        <5> QED BY <4>2, <5>2 DEF Leaving, Sound, ForgetMember
      <4> QED BY <4>1, <4>2 DEF Sound
    <3> QED BY <3>1, <3>2
  <2> QED BY <2>1, <2>2, <2>3 DEF Known
<1> QED BY <1>1, <1>2, <1>3 DEF SessionInv, Sound

-----------------------------------------------------------------------------
(* The steps of a goroutine, one by one.                                   *)
LEMMA FactsOf ==
  ASSUME NEW t, NEW k
  PROVE  /\ \A r \in Registers \union {"item"} : Fact(<<r, k>>, t) <=> Is(k, reg[t][r], t)
         /\ \A r \in Registers \union {"item"} : Fact(<<r, k>>, t)' <=> Is(k, reg[t][r], t)'
         /\ Fact(<<"got", k>>, t) <=> \A x \in reg[t].got : Is(k, x, t)
         /\ Fact(<<"got", k>>, t)' <=> \A x \in reg'[t].got : Is(k, x, t)'
         /\ Fact(Some, t) <=> reg[t].got # {}
         /\ Fact(Some, t)' <=> reg'[t].got # {}
         /\ \A x : Fact(<<"left", k, x>>, t) <=> Is(k, x, t)
         /\ \A x : Fact(<<"left", k, x>>, t)' <=> Is(k, x, t)'
         /\ Fact(IsMain, t) <=> t = "main"
         /\ Fact(IsSimul, t) <=> kind = "simul"
<1>1. \A r \in Registers \union {"item"} : Fact(<<r, k>>, t) <=> Is(k, reg[t][r], t)
  BY DEF Fact, Registers
<1>2. \A r \in Registers \union {"item"} : Fact(<<r, k>>, t)' <=> Is(k, reg[t][r], t)'
  BY DEF Fact, Registers
<1>3. /\ Fact(<<"got", k>>, t) <=> \A x \in reg[t].got : Is(k, x, t)
      /\ Fact(<<"got", k>>, t)' <=> \A x \in reg'[t].got : Is(k, x, t)'
  BY DEF Fact, Registers
<1>4. Fact(Some, t) <=> reg[t].got # {}
  BY DEF Fact, Registers, Some
<1>5. Fact(Some, t)' <=> reg'[t].got # {}
  BY DEF Fact, Registers, Some
<1>6. \A x : Fact(<<"left", k, x>>, t) <=> Is(k, x, t)
  BY DEF Fact, Registers
<1>7. \A x : Fact(<<"left", k, x>>, t)' <=> Is(k, x, t)'
  BY DEF Fact, Registers
<1>8. Fact(IsMain, t) <=> t = "main"
  BY DEF Fact, Registers, IsMain
<1>9. Fact(IsSimul, t) <=> kind = "simul"
  BY DEF Fact, Registers, IsSimul
<1> QED BY <1>1, <1>2, <1>3, <1>4, <1>5, <1>6, <1>7, <1>8, <1>9

(* The goroutine's next instruction fits what it knows.                    *)
At(t, E, M, I, W) ==
  /\ Judgements(I, W) /\ Knows(t, E)
  /\ Fits(Head(todo[t]), E, M, W)
  /\ Typed(Tail(todo[t]), M, {})

LEMMA AtFirst ==
  ASSUME NEW t, Judged(t), todo[t] # <<>> PROVE \E E, M, I, W : At(t, E, M, I, W)
<1>1. PICK G : Typed(todo[t], G, {}) /\ Knows(t, G)
  BY DEF Judged
<1>2. PICK I, W, E, M : /\ Judgements(I, W) /\ E \subseteq G
                        /\ Fits(Head(todo[t]), E, M, W)
                        /\ Typed(Tail(todo[t]), M, {})
  BY <1>1, First
<1> QED BY <1>1, <1>2 DEF At, Knows

LEMMA FitsOp ==
  ASSUME NEW i, NEW E, NEW M, NEW W, Fits(i, E, M, W)
  PROVE  /\ i.op \in {"ask", "try"} => AskFits(i, E, M, W)
         /\ i.op = "do" => DoFits(i, E, M)
         /\ i.op = "pick" => PickFits(i, E, M, W)
         /\ i.op = "pickTeam" => PickTeamFits(i, E, M, W)
         /\ i.op = "pickChannel" => PickChannelFits(i, E, M, W)
         /\ i.op = "each" => IF "left" \in DOMAIN i THEN LoopFits(i, E, M, W) ELSE EachFits(i, E, M, W)
         /\ i.op = "if" => IfFits(i, E, M, W)
         /\ i.op = "gather" => GatherFits(i, E, M)
         /\ i.op = "collect" => CollectFits(i, E, M)
         /\ i.op = "maybe" => MaybeFits(i, E, M, W)
         /\ i.op = "run" => RunFits(i, E)
         /\ i.op = "catch" => CatchFits(i, E, M, W)
         /\ i.op \in {"connect", "disconnect"} => LinkFits(i, E, M)
<1> DEFINE op == i.op
<1>1. /\ AskFits(i, E, M, W) => op \in {"ask", "try"}
      /\ DoFits(i, E, M) => op = "do"
      /\ PickFits(i, E, M, W) => op = "pick"
      /\ PickTeamFits(i, E, M, W) => op = "pickTeam"
      /\ PickChannelFits(i, E, M, W) => op = "pickChannel"
  BY DEF AskFits, DoFits, PickFits, PickTeamFits, PickChannelFits
<1>2. /\ EachFits(i, E, M, W) => op = "each" /\ "left" \notin DOMAIN i
      /\ LoopFits(i, E, M, W) => op = "each" /\ "left" \in DOMAIN i
      /\ IfFits(i, E, M, W) => op = "if"
      /\ GatherFits(i, E, M) => op = "gather"
      /\ CollectFits(i, E, M) => op = "collect"
  BY DEF EachFits, LoopFits, IfFits, GatherFits, CollectFits
<1>3. /\ MaybeFits(i, E, M, W) => op = "maybe"
      /\ RunFits(i, E) => op = "run"
      /\ CatchFits(i, E, M, W) => op = "catch"
      /\ EndFits(i) => op \in {"info", "err", "panic", "spin"}
      /\ LinkFits(i, E, M) => op \in {"connect", "disconnect"}
  BY DEF MaybeFits, RunFits, CatchFits, EndFits, LinkFits
<1> QED BY <1>1, <1>2, <1>3 DEF Fits

(* A step that leaves the server and the store alone.                      *)
LEMMA SoundStill ==
  ASSUME NEW t, ServerOK, UNCHANGED <<store, server, kind>>
  PROVE  Sound(t) /\ Keeps(t)
<1>1. ServerOK'
  BY DEF ServerOK
<1>2. \A c \in Channels : IsMember(c)' => IsMember(c)
  BY DEF IsMember
<1> QED BY <1>1, <1>2 DEF Sound, Keeps, Joined, Viewed

LEMMA GoesOn ==
  ASSUME Control, NEW t \in Threads, NEW p, Continue(t, p)
  PROVE  /\ todo'[t] = p /\ DOMAIN todo' = Threads
         /\ \A s \in Threads \ {t} : todo'[s] = todo[s]
BY DEF Control, Continue

LEMMA NewValue ==
  ASSUME Control, NEW t \in Threads, NEW r \in Registers \union {"item"}, NEW v,
         Set(t, r, v), Keeps(t), RegOK(t), NEW G, Knows(t, G), NEW K,
         \A k \in K : Is(k, v, t)'
  PROVE  /\ Knows(t, Kill(G, {r}) \union About(r, K))'
         /\ RegOK(t)' /\ DOMAIN reg' = Threads
         /\ \A s \in Threads \ {t} : reg'[s] = reg[s]
<1>1. /\ reg' = [reg EXCEPT ![t] = [reg[t] EXCEPT ![r] = v]] /\ DOMAIN reg = Threads
      /\ DOMAIN reg[t] = DOMAIN Blank
  BY DEF Set, Control, RegOK
<1>2. r \in DOMAIN Blank /\ r \notin Sets \union {"got", "nonempty", "here", "left"}
  BY DEF Registers, Blank, Sets
<1>3. /\ reg'[t][r] = v /\ \A q \in DOMAIN Blank \ {r} : reg'[t][q] = reg[t][q]
      /\ DOMAIN reg'[t] = DOMAIN Blank /\ DOMAIN reg' = Threads
      /\ \A s \in Threads \ {t} : reg'[s] = reg[s]
  BY <1>1, <1>2
<1>4. RegOK(t)'
  <2>1. Sets \subseteq DOMAIN Blank \ {r}
    BY <1>2 DEF Sets, Blank
  <2>2. \A q \in Sets : reg'[t][q] = reg[t][q]
    BY <1>3, <2>1
  <2> QED BY <1>3, <2>2 DEF RegOK
<1>5. ASSUME NEW f \in Kill(G, {r}) PROVE Fact(f, t)'
  <2>1. f \in G /\ f[1] # r /\ Fact(f, t)
    BY DEF Kill, Knows
  <2>2. Uses(f) \in {"here", "left"} \union (DOMAIN Blank \ {r})
    <3>1. f[1] \in {"here", "got", "nonempty", "left"} \union Registers \union {"item"}
      BY <2>1 DEF Fact
    <3> QED BY <1>2, <2>1, <3>1 DEF Uses, Registers, Blank
  <2> QED BY <1>3, <2>1, <2>2, FactKept
<1>6. ASSUME NEW f \in About(r, K) PROVE Fact(f, t)'
  <2>1. PICK k \in K : f = <<r, k>>
    BY DEF About
  <2> QED BY <1>3, <2>1, FactsOf
<1> QED BY <1>3, <1>4, <1>5, <1>6 DEF Knows

(* The end of an action, or the start of what catches its error.           *)
LEMMA FailKeeps ==
  ASSUME SessionInv, NEW t \in Threads, todo[t] # <<>>,
         Fail(t) \/ Finish(t, FALSE), Sound(t),
         UNCHANGED <<connected, kind, budget, panicked>>
  PROVE  /\ Only(t) /\ CatchOK(t)' /\ RegOK(t)' /\ Judged(t)' /\ Control'
<1>1. /\ DOMAIN reg = Threads /\ DOMAIN todo = Threads /\ DOMAIN catch = Threads
      /\ script \in Seq(Actions[kind] \union {"others"})
      /\ t = "main" => script # <<>> /\ Head(script) # "others"
  BY DEF SessionInv, Control
<1>2. reg' = [reg EXCEPT ![t] = Blank] /\ catch' = [catch EXCEPT ![t] = <<>>]
  BY DEF Fail, Finish
<1>3. /\ todo' = [todo EXCEPT ![t] = <<>>] \/ todo' = [todo EXCEPT ![t] = catch[t]]
      /\ script' # script => t = "main" /\ script' = Tail(script) /\ todo' = [todo EXCEPT ![t] = <<>>]
  BY DEF Fail, Finish, Continue
<1>4. Only(t) /\ reg'[t] = Blank /\ catch'[t] = <<>> /\ (todo'[t] = <<>> \/ todo'[t] = catch[t])
  BY <1>1, <1>2, <1>3 DEF Only
<1>5. CatchOK(t)'
  BY <1>4, Nothing DEF CatchOK
<1>6. RegOK(t)'
  BY <1>4 DEF RegOK, Blank, Sets
<1>7. Judged(t)'
  <2>1. Typed(<<>>, {}, {}) /\ Knows(t, {})'
    BY Nothing DEF Knows
  <2>2. Typed(catch[t], Self(t), {}) /\ Self(t)' = Self(t)
    BY ThisKept DEF SessionInv, Goroutine, CatchOK
  <2>3. Knows(t, Self(t))'
    BY <2>2 DEF Knows, Self
  <2> QED BY <1>4, <2>1, <2>2, <2>3 DEF Judged
<1>8. script' \in Seq(Actions[kind] \union {"others"})
  BY <1>1, <1>3
<1>9. todo'["main"] # <<>> => script' # <<>> /\ Head(script') # "others"
  <2>1. CASE t = "main"
    <3>1. CASE script' = script BY <1>1, <2>1, <3>1
    <3>2. CASE script' # script
      <4>1. todo'[t] = <<>>
        BY <1>1, <1>3, <3>2
      <4> QED BY <2>1, <4>1
    <3> QED BY <3>1, <3>2
  <2>2. CASE t # "main"
    <3>1. "main" \in Threads \ {t}
      BY <2>2 DEF Threads
    <3>2. todo'["main"] = todo["main"] /\ script' = script
      BY <1>3, <1>4, <2>2, <3>1 DEF Only
    <3> QED BY <3>2 DEF SessionInv, Control
  <2> QED BY <2>1, <2>2
<1>10. Control'
  BY <1>4, <1>8, <1>9 DEF Control, Only, SessionInv
<1> QED BY <1>4, <1>5, <1>6, <1>7, <1>10

(* What each step has to do.                                               *)
Right(t) ==
  Sound(t) /\ Only(t) /\ CatchOK(t)' /\ RegOK(t)' /\ Judged(t)' /\ Control'

LEMMA ControlKept ==
  ASSUME Control, NEW t \in Threads, todo[t] # <<>>, Only(t), UNCHANGED <<script, kind, budget>>,
         connected' \in BOOLEAN, panicked' \in BOOLEAN
  PROVE  Control'
<1>1. todo'["main"] # <<>> => todo["main"] # <<>>
  BY DEF Only, Threads
<1> QED BY <1>1 DEF Control, Only

LEMMA NewSet ==
  ASSUME Control, NEW t \in Threads, NEW r \in Sets, NEW v \in SUBSET Users,
         Set(t, r, v), Keeps(t), RegOK(t), NEW G, Knows(t, G)
  PROVE  /\ Knows(t, G)'
         /\ RegOK(t)' /\ DOMAIN reg' = Threads
         /\ \A s \in Threads \ {t} : reg'[s] = reg[s]
<1>1. /\ reg' = [reg EXCEPT ![t] = [reg[t] EXCEPT ![r] = v]] /\ DOMAIN reg = Threads
      /\ DOMAIN reg[t] = DOMAIN Blank
  BY DEF Set, Control, RegOK
<1>2. r \in DOMAIN Blank
  BY DEF Sets, Blank
<1>3. /\ reg'[t][r] = v /\ \A q \in DOMAIN Blank \ {r} : reg'[t][q] = reg[t][q]
      /\ DOMAIN reg'[t] = DOMAIN Blank /\ DOMAIN reg' = Threads
      /\ \A s \in Threads \ {t} : reg'[s] = reg[s]
  BY <1>1, <1>2
<1>4. RegOK(t)'
  <2>1. Sets \subseteq DOMAIN Blank
    BY DEF Sets, Blank
  <2>2. \A q \in Sets : reg'[t][q] \subseteq Users
    BY <1>3, <2>1 DEF RegOK
  <2> QED BY <1>3, <2>2 DEF RegOK
<1>5. ASSUME NEW f \in G PROVE Fact(f, t)'
  <2>1. Fact(f, t)
    BY DEF Knows
  <2>2. Uses(f) \in {"here", "left"} \union (DOMAIN Blank \ {r})
    <3>1. f[1] \in {"here", "got", "nonempty", "left"} \union Registers \union {"item"}
      BY <2>1 DEF Fact
    <3> QED BY <3>1 DEF Uses, Registers, Blank, Sets
  <2> QED BY <1>3, <2>1, <2>2, FactKept
<1> QED BY <1>3, <1>4, <1>5 DEF Knows

(* Most steps leave the server, the store and what an error continues with *)
(* alone.                                                                  *)
LEMMA QuietStep ==
  ASSUME SessionInv, NEW t \in Threads, todo[t] # <<>>,
         UNCHANGED <<store, server, kind, catch, script, budget>>,
         connected' \in BOOLEAN, panicked' \in BOOLEAN,
         DOMAIN todo' = Threads, \A s \in Threads \ {t} : todo'[s] = todo[s],
         DOMAIN reg' = Threads, \A s \in Threads \ {t} : reg'[s] = reg[s],
         RegOK(t)', NEW G, Typed(todo'[t], G, {}), Knows(t, G)'
  PROVE  Right(t)
<1>1. Sound(t)
  BY SoundStill DEF SessionInv
<1>2. Only(t)
  BY DEF Only, SessionInv, Control
<1>3. CatchOK(t)'
  BY ThisKept DEF CatchOK, SessionInv, Goroutine
<1>4. Control'
  BY <1>2, ControlKept DEF SessionInv
<1> QED BY <1>1, <1>2, <1>3, <1>4 DEF Right, Judged

LEMMA RefusedUnnoticedStep ==
  ASSUME SessionInv, NEW t \in Threads, Judged(t), RefusedUnnoticed(t) PROVE Right(t)
<1>1. /\ todo[t] # <<>> /\ Head(todo[t]).op = "try" /\ Continue(t, Tail(todo[t]))
      /\ UNCHANGED <<store, reg, catch, outside>>
  BY DEF RefusedUnnoticed, Op
<1>2. PICK E, M, I, W : At(t, E, M, I, W)
  BY <1>1, AtFirst
<1>3. M \subseteq E
  BY <1>1, <1>2, FitsOp DEF At, AskFits
<1>4. Typed(Tail(todo[t]), E, {})
  BY <1>2, <1>3, KnowMore DEF At
<1>5. Knows(t, E)'
  BY <1>1, <1>2, AllKept, SoundStill DEF At, SessionInv, outside
<1> QED BY <1>1, <1>4, <1>5, QuietStep, GoesOn DEF SessionInv, Control, Goroutine, RegOK, outside

LEMMA BranchStep ==
  ASSUME SessionInv, NEW t \in Threads, Judged(t), Branch(t) PROVE Right(t)
<1>1. /\ todo[t] # <<>> /\ Head(todo[t]).op = "maybe"
      /\ Continue(t, Head(todo[t]).then \o Tail(todo[t])) \/ Continue(t, Tail(todo[t]))
      /\ UNCHANGED <<store, reg, catch, outside>>
  BY DEF Branch, Op
<1>2. PICK E, M, I, W : At(t, E, M, I, W)
  BY <1>1, AtFirst
<1>3. MaybeFits(Head(todo[t]), E, M, W)
  BY <1>1, <1>2, FitsOp DEF At
<1>4. Typed(Tail(todo[t]), E, {}) /\ Typed(Head(todo[t]).then \o Tail(todo[t]), E, {})
  <2>1. Typed(Head(todo[t]).then, E, M)
    BY <1>2, <1>3, KnowLess DEF At, MaybeFits
  <2>2. Typed(Tail(todo[t]), M, {}) /\ M \subseteq E
    BY <1>2, <1>3 DEF At, MaybeFits
  <2> QED BY <2>1, <2>2, KnowMore, InTurn
<1>5. Knows(t, E)'
  BY <1>1, <1>2, AllKept, SoundStill DEF At, SessionInv, outside
<1>6. Typed(todo'[t], E, {}) /\ DOMAIN todo' = Threads /\ \A s \in Threads \ {t} : todo'[s] = todo[s]
  BY <1>1, <1>4, GoesOn DEF SessionInv
<1> QED BY <1>1, <1>5, <1>6, QuietStep DEF SessionInv, Control, Goroutine, RegOK, outside

LEMMA JumpStep ==
  ASSUME SessionInv, NEW t \in Threads, Judged(t), Jump(t) PROVE Right(t)
<1> DEFINE i == Head(todo[t])
<1>1. /\ todo[t] # <<>> /\ UNCHANGED <<store, reg, outside>>
  BY DEF Jump, Op
<1>2. PICK E, M, I, W : At(t, E, M, I, W)
  BY <1>1, AtFirst
<1>3. Knows(t, E)'
  BY <1>1, <1>2, AllKept, SoundStill DEF At, SessionInv, outside
<1>4. CASE i.op = "run" /\ Continue(t, Program(i.name)) /\ UNCHANGED catch
  <2>1. i.name \in {"login", "loginReload"} /\ {IsMain, IsSimul} \subseteq E
    BY <1>2, <1>4, FitsOp DEF At, RunFits
  <2>2. Typed(Program(i.name), Simul, {})
    BY <2>1, SimulPrograms DEF Actions
  <2>3. Knows(t, Simul)'
    BY <1>3, <2>1 DEF Knows, Simul
  <2> QED BY <1>1, <1>4, <2>2, <2>3, QuietStep, GoesOn DEF SessionInv, Control, Goroutine, RegOK, outside
<1>5. CASE i.op = "catch" /\ Continue(t, Tail(todo[t])) /\ catch' = [catch EXCEPT ![t] = i.next]
  <2>1. CatchFits(i, E, M, W)
    BY <1>2, <1>5, FitsOp DEF At
  <2>2. PICK N : <<i.next, Here(E), N>> \in W
    BY <2>1 DEF CatchFits
  <2>3. Typed(i.next, Here(E), N)
    BY <1>2, <2>2, KnowLess DEF At
  <2>4. Here(E) \subseteq Self(t)'
    BY <1>3 DEF Here, Self, Knows, Who
  <2>5. Typed(i.next, Here(E), {})
    BY <2>3, LearnLess
  <2>6. Typed(i.next, Self(t)', {})
    BY <2>4, <2>5, KnowMore
  <2>7. todo'[t] = Tail(todo[t]) /\ DOMAIN todo' = Threads /\ \A s \in Threads \ {t} : todo'[s] = todo[s]
    BY <1>5, GoesOn DEF SessionInv
  <2>8. Only(t) /\ catch'[t] = i.next
    BY <1>1, <1>5, <2>7 DEF Only, SessionInv, Control
  <2>9. CatchOK(t)'
    BY <2>6, <2>8 DEF CatchOK
  <2>10. Typed(Tail(todo[t]), E, {})
    BY <1>2, <2>1, KnowMore DEF At, CatchFits
  <2>11. Judged(t)'
    BY <1>3, <2>7, <2>10 DEF Judged
  <2>12. Sound(t)
    BY <1>1, SoundStill DEF SessionInv, outside
  <2>13. Control'
    BY <1>1, <2>8, ControlKept DEF SessionInv, outside, Control
  <2>14. RegOK(t)'
    BY <1>1 DEF SessionInv, Goroutine, RegOK
  <2> QED BY <2>8, <2>9, <2>11, <2>12, <2>13, <2>14 DEF Right
<1> QED BY <1>4, <1>5 DEF Jump

LEMMA RefusedStep ==
  ASSUME SessionInv, NEW t \in Threads, Refused(t) PROVE Right(t)
<1>1. todo[t] # <<>> /\ Fail(t) /\ UNCHANGED <<store, server, connected, kind, budget, panicked>>
  BY DEF Refused, Op
<1>2. Sound(t)
  BY <1>1, SoundStill DEF SessionInv
<1> QED BY <1>1, <1>2, FailKeeps DEF Right

LEMMA EndStep ==
  ASSUME SessionInv, NEW t \in Threads, Judged(t), End(t) PROVE Right(t)
<1>1. todo[t] # <<>> /\ UNCHANGED <<store, server, connected, kind, budget>>
  BY DEF End, Op
<1>2. Sound(t)
  BY <1>1, SoundStill DEF SessionInv
<1>3. CASE (Finish(t, FALSE) \/ Fail(t)) /\ UNCHANGED panicked
  BY <1>1, <1>2, <1>3, FailKeeps DEF Right
<1>4. CASE panicked' = TRUE /\ UNCHANGED <<machine, script>>
  <2>1. PICK G : Typed(todo[t], G, {}) /\ Knows(t, G)
    BY DEF Judged
  <2>2. Knows(t, G)'
    BY <1>1, <1>4, <2>1, AllKept, SoundStill DEF SessionInv, machine
  <2>3. UNCHANGED <<todo, reg, catch, script>> /\ RegOK(t)'
    BY <1>4 DEF machine, SessionInv, Goroutine, RegOK
  <2> QED BY <1>1, <1>4, <2>1, <2>2, <2>3, QuietStep DEF SessionInv, Control
<1> QED BY <1>3, <1>4 DEF End

LEMMA LinkStep ==
  ASSUME SessionInv, NEW t \in Threads, Judged(t), Link(t) PROVE Right(t)
<1>1. /\ todo[t] # <<>> /\ UNCHANGED <<store, server, kind, budget, panicked>>
      /\ Head(todo[t]).op \in {"connect", "disconnect"}
  BY DEF Link, Op
<1>2. CASE Fail(t) /\ UNCHANGED connected
  BY <1>1, <1>2, FailKeeps, SoundStill DEF Right, SessionInv
<1>3. CASE connected' = ~connected /\ Continue(t, Tail(todo[t])) /\ UNCHANGED <<reg, catch, script>>
  <2>1. PICK E, M, I, W : At(t, E, M, I, W)
    BY <1>1, AtFirst
  <2>2. M \subseteq E
    BY <1>1, <2>1, FitsOp DEF At, LinkFits
  <2>3. Typed(Tail(todo[t]), E, {})
    BY <2>1, <2>2, KnowMore DEF At
  <2>4. Knows(t, E)'
    BY <1>1, <1>3, <2>1, AllKept, SoundStill DEF At, SessionInv
  <2> QED BY <1>1, <1>3, <2>3, <2>4, QuietStep, GoesOn DEF SessionInv, Control, Goroutine, RegOK
<1> QED BY <1>1, <1>2, <1>3 DEF Link

(* What is chosen is of the kinds it is chosen for.                        *)
LEMMA ChoicesAre ==
  ASSUME SessionInv, NEW t \in Threads, NEW E, Knows(t, E), NEW from,
         NEW x \in Choices(from, reg[t]), NEW k \in Chosen(from, E)
  PROVE  Is(k, x, t)
<1>1. /\ store.teams \subseteq Teams /\ store.channels \subseteq server.channels
      /\ store.currentTeam \in Teams \union {None}
      /\ store.currentChannel # None => kind = "simul" /\ store.currentChannel \in server.joined
      /\ server.joined \subseteq server.channels
  BY DEF SessionInv, StoreInv, Rest, Known, ServerOK
<1>2. StoredPosts \subseteq Posts /\ StoredUsers \subseteq Users
  <2>1. store.queue["posts"] \in Queue(Posts, MaxStoredPosts)
        /\ store.queue["users"] \in Queue(Users, MaxStoredUsers)
    <3>1. "posts" \in Queues /\ "users" \in Queues /\ Keys["posts"] = Posts /\ Keys["users"] = Users
          /\ Size["posts"] = MaxStoredPosts /\ Size["users"] = MaxStoredUsers
      BY DEF Queues, Keys, Size
    <3>2. \A n \in Queues : store.queue[n] \in Queue(Keys[n], Size[n])
      BY DEF SessionInv, StoreInv, QueuesOK
    <3> QED BY <3>1, <3>2
  <2> QED BY <2>1 DEF StoredPosts, StoredUsers, Stored, Queue
<1>3. CASE from \in {"currentTeam", "teamsToJoin", "myTeams"}
  <2>1. k = "team"
    BY <1>3 DEF Chosen
  <2>2. x \in Teams
    BY <1>1, <1>3, ServerAssumption DEF Choices, Current
  <2> QED BY <2>1, <2>2 DEF Is
<1>4. CASE from = "currentChannel"
  <2>1. k \in {"channel", "joined"}
    BY <1>4 DEF Chosen
  <2>2. x = store.currentChannel /\ x # None
    BY <1>4 DEF Choices, Current
  <2> QED BY <1>1, <2>1, <2>2 DEF Is, Joined
<1>5. CASE from = "teamsChannels"
  <2>1. k = "channel"
    BY <1>5 DEF Chosen
  <2>2. x \in store.channels
    BY <1>5 DEF Choices
  <2> QED BY <1>1, <2>1, <2>2 DEF Is
<1>6. CASE from \in {"posts", "channelPosts", "myPosts"}
  <2>1. k = "post"
    BY <1>6 DEF Chosen
  <2>2. x \in StoredPosts
    BY <1>6 DEF Choices, ChannelPosts, PostChoiceByUser
  <2> QED BY <1>2, <2>1, <2>2 DEF Is
<1>7. CASE from \in {"channelMembers", "others", "anyone"}
  <2>1. k = "user"
    BY <1>7 DEF Chosen
  <2>2. x \in Users
    BY <1>2, <1>7 DEF Choices, MemberChoice, UserChoice
  <2> QED BY <2>1, <2>2 DEF Is
<1>8. CASE from = "users"
  <2>1. k = "user" /\ x \in reg[t].users
    BY <1>8 DEF Chosen, Choices
  <2>2. x \in Users
    BY <2>1 DEF SessionInv, Goroutine, RegOK, Sets
  <2> QED BY <2>1, <2>2 DEF Is
<1>9. CASE from = "author"
  <2>1. k = "user" /\ <<"post", "post">> \in E /\ x = PostUser[reg[t].post]
    BY <1>9 DEF Chosen, Choices
  <2>2. Is("post", reg[t].post, t)
    BY <2>1, FactsOf DEF Knows, Registers
  <2>3. x \in Users
    BY <2>1, <2>2, ServerAssumption DEF Is
  <2> QED BY <2>1, <2>3 DEF Is
<1>10. CASE from = "got"
  <2>1. <<"got", k>> \in E /\ x \in reg[t].got
    BY <1>10 DEF Chosen, Choices
  <2> QED BY <2>1, FactsOf DEF Knows
<1> QED BY <1>3, <1>4, <1>5, <1>6, <1>7, <1>8, <1>9, <1>10 DEF Chosen

LEMMA GatheredAreUsers ==
  ASSUME SessionInv, NEW t \in Threads, NEW E, Knows(t, E), NEW from,
         \/ from \in {"nobody", "me", "preferred", "postsAuthors"}
         \/ from = "theUser" /\ <<"user", "user">> \in E
  PROVE  Choices(from, reg[t]) \subseteq Users
<1>1. CASE from \in {"nobody", "me", "preferred"}
  BY <1>1, ServerAssumption DEF Choices
<1>2. CASE from = "postsAuthors"
  <2>1. Choices(from, reg[t]) = {Me} \union {PostUser[p] : p \in ChannelPosts(reg[t].chan)}
    BY <1>2 DEF Choices
  <2>2. store.queue["posts"] \in Queue(Posts, MaxStoredPosts)
    <3>1. "posts" \in Queues /\ Keys["posts"] = Posts /\ Size["posts"] = MaxStoredPosts
      BY DEF Queues, Keys, Size
    <3>2. \A n \in Queues : store.queue[n] \in Queue(Keys[n], Size[n])
      BY DEF SessionInv, StoreInv, QueuesOK
    <3> QED BY <3>1, <3>2
  <2>3. ChannelPosts(reg[t].chan) \subseteq Posts
    BY <2>2 DEF ChannelPosts, StoredPosts, Stored, Queue
  <2> QED BY <2>1, <2>3, ServerAssumption
<1>3. CASE from = "theUser" /\ <<"user", "user">> \in E
  <2>1. Choices(from, reg[t]) = {reg[t].user}
    BY <1>3 DEF Choices
  <2>2. Is("user", reg[t].user, t)
    BY <1>3, FactsOf DEF Knows, Registers
  <2> QED BY <2>1, <2>2 DEF Is
<1> QED BY <1>1, <1>2, <1>3

LEMMA LookStep ==
  ASSUME SessionInv, NEW t \in Threads, Judged(t), Look(t) PROVE Right(t)
<1> DEFINE i == Head(todo[t])
           rest == Tail(todo[t])
<1>1. /\ todo[t] # <<>> /\ i.op \in {"if", "gather", "collect"}
      /\ UNCHANGED <<store, catch, outside>>
  BY DEF Look, Op
<1>2. PICK E, M, I, W : At(t, E, M, I, W)
  BY <1>1, AtFirst
<1>3. Knows(t, E) /\ Typed(rest, M, {}) /\ Fits(i, E, M, W) /\ Judgements(I, W)
  BY <1>2 DEF At
<1>4. Keeps(t) /\ Control /\ RegOK(t) /\ UNCHANGED <<store, server, kind, catch, script, budget>>
      /\ connected' \in BOOLEAN /\ panicked' \in BOOLEAN
  BY <1>1, SoundStill DEF SessionInv, outside, Goroutine, Control
<1>5. CASE i.op = "if"
  <2>1. Continue(t, (IF Holds(i.cond, reg[t]) THEN i.then ELSE <<>>) \o rest) /\ UNCHANGED reg
    BY <1>5 DEF Look
  <2>2. IfFits(i, E, M, W)
    BY <1>3, <1>5, FitsOp
  <2>3. Typed(i.then, E \union Learnt(i.cond), M) /\ M \subseteq E
    BY <1>3, <2>2, KnowLess DEF IfFits
  <2>4. Knows(t, E)' /\ RegOK(t)' /\ DOMAIN reg' = Threads
    BY <1>3, <1>4, <2>1, AllKept DEF RegOK, Control
  <2>5. CASE Holds(i.cond, reg[t])
    <3>1. Continue(t, i.then \o rest)
      BY <2>1, <2>5
    <3>2. Typed(i.then \o rest, E \union Learnt(i.cond), {})
      BY <1>3, <2>3, InTurn
    <3>3. Knows(t, Learnt(i.cond))
      <4>1. CASE i.cond = "postStored"
        <5>1. reg[t].post \in StoredPosts
          BY <2>5, <4>1 DEF Holds
        <5>2. store.queue["posts"] \in Queue(Posts, MaxStoredPosts)
          <6>1. "posts" \in Queues /\ Keys["posts"] = Posts /\ Size["posts"] = MaxStoredPosts
            BY DEF Queues, Keys, Size
          <6>2. \A n \in Queues : store.queue[n] \in Queue(Keys[n], Size[n])
            BY DEF SessionInv, StoreInv, QueuesOK
          <6> QED BY <6>1, <6>2
        <5>3. Is("post", reg[t].post, t)
          BY <5>1, <5>2 DEF StoredPosts, Stored, Queue, Is
        <5>4. Learnt(i.cond) = {<<"post", "post">>}
          BY <4>1 DEF Learnt
        <5> QED BY <5>3, <5>4, FactsOf DEF Knows, Registers
      <4>2. CASE i.cond = "directOrGroup"
        <5>1. Is("direct", reg[t].chan, t)
          BY <2>5, <4>2 DEF Holds, Is
        <5>2. Learnt(i.cond) = {<<"chan", "direct">>}
          BY <4>2 DEF Learnt
        <5> QED BY <5>1, <5>2, FactsOf DEF Knows, Registers
      <4>3. CASE i.cond \notin {"postStored", "directOrGroup"}
        BY <4>3 DEF Learnt, Knows
      <4> QED BY <4>1, <4>2, <4>3
    <3>4. Knows(t, E \union Learnt(i.cond))
      BY <1>3, <3>3 DEF Knows
    <3>5. PICK G : G = E \union Learnt(i.cond)
      OBVIOUS
    <3>7. Knows(t, G)'
      BY <1>4, <2>1, <3>4, <3>5, AllKept
    <3>6. todo'[t] = i.then \o rest /\ DOMAIN todo' = Threads /\ \A s \in Threads \ {t} : todo'[s] = todo[s]
      BY <1>4, <3>1, GoesOn
    <3>8. Typed(todo'[t], G, {})
      BY <3>2, <3>5, <3>6
    <3> HIDE DEF i, rest
    <3> QED BY <1>1, <1>4, <2>1, <2>4, <3>6, <3>7, <3>8, QuietStep
  <2>6. CASE ~Holds(i.cond, reg[t])
    <3>1. Continue(t, <<>> \o rest)
      BY <2>1, <2>6
    <3>2. PICK J : rest \in Seq(J)
      BY <1>3, IsSequence
    <3>3. <<>> \o rest = rest
      BY <3>2, ConcatEmptySeq
    <3>4. Typed(rest, E, {})
      BY <1>3, <2>3, KnowMore
    <3>5. todo'[t] = rest /\ DOMAIN todo' = Threads /\ \A s \in Threads \ {t} : todo'[s] = todo[s]
      BY <1>4, <3>1, <3>3, GoesOn
    <3> HIDE DEF i, rest
    <3> QED BY <1>1, <1>4, <2>1, <2>4, <3>4, <3>5, QuietStep
  <2> QED BY <2>5, <2>6
<1>6. CASE i.op \in {"gather", "collect"}
  <2>1. /\ Continue(t, rest)
        /\ \E v \in SUBSET Users : Set(t, i.into, v)
        /\ i.into \in Sets /\ M \subseteq E
    <3>1. CASE i.op = "gather"
      <4>1. Set(t, i.into, Choices(i.from, reg[t])) /\ Continue(t, rest)
        BY <3>1 DEF Look
      <4>2. GatherFits(i, E, M)
        BY <1>3, <3>1, FitsOp
      <4>3. Choices(i.from, reg[t]) \subseteq Users
        BY <1>3, <4>2, GatheredAreUsers DEF GatherFits
      <4> QED BY <4>1, <4>2, <4>3 DEF GatherFits
    <3>2. CASE i.op = "collect"
      <4>1. Set(t, i.into, reg[t][i.into] \union {reg[t].user}) /\ Continue(t, rest)
        BY <3>2 DEF Look
      <4>2. CollectFits(i, E, M)
        BY <1>3, <3>2, FitsOp
      <4>3. Is("user", reg[t].user, t)
        BY <1>3, <4>2, FactsOf DEF Knows, Registers, CollectFits
      <4>4. reg[t][i.into] \union {reg[t].user} \subseteq Users
        BY <1>4, <4>2, <4>3 DEF Is, RegOK, CollectFits
      <4> QED BY <4>1, <4>2, <4>4 DEF CollectFits
    <3> QED BY <1>6, <3>1, <3>2
  <2>2. PICK v \in SUBSET Users : Set(t, i.into, v)
    BY <2>1
  <2>3. /\ Knows(t, E)' /\ RegOK(t)' /\ DOMAIN reg' = Threads
        /\ \A s \in Threads \ {t} : reg'[s] = reg[s]
    BY <1>3, <1>4, <2>1, <2>2, NewSet
  <2>4. Typed(rest, E, {})
    BY <1>3, <2>1, KnowMore
  <2>5. todo'[t] = rest /\ DOMAIN todo' = Threads /\ \A s \in Threads \ {t} : todo'[s] = todo[s]
    BY <1>4, <2>1, GoesOn
  <2> HIDE DEF i, rest
  <2> QED BY <1>1, <1>4, <2>3, <2>4, <2>5, QuietStep
<1> QED BY <1>1, <1>5, <1>6

(* One turn of a loop: what it has left is known until its next turn.      *)
LEMMA LoopTurn ==
  ASSUME SessionInv, NEW t \in Threads, todo[t] # <<>>, UNCHANGED <<store, catch, outside>>,
         NEW r \in Registers \union {"item"}, NEW do, NEW rest, NEW X, NEW x \in X,
         NEW K, "viewed" \notin K, \A k \in K : \A y \in X : Is(k, y, t),
         NEW G, Knows(t, G), NEW M,
         Typed(do, Kill(G, {r}) \union About(r, K), M),
         Typed(do, Kill(M, {r}) \union About(r, K), M),
         Typed(rest, M, {}),
         Set(t, r, x),
         Continue(t, do \o <<[op |-> "each", into |-> r, left |-> X \ {x}, do |-> do]>> \o rest)
  PROVE  Right(t)
<1> DEFINE A == Kill(G, {r}) \union About(r, K)
           L == Left(K, X \ {x})
           loop == <<[op |-> "each", into |-> r, left |-> X \ {x}, do |-> do]>>
<1>1. UNCHANGED <<store, server, kind, catch, script, budget>> /\ Keeps(t) /\ RegOK(t) /\ Control
      /\ connected' \in BOOLEAN /\ panicked' \in BOOLEAN
  BY SoundStill DEF SessionInv, outside, Goroutine, Control
<1>2. \A f \in L : f[1] = "left" /\ f[2] # "viewed"
  BY DEF Left
<1>3. Typed(do, A \union L, M \union L)
  BY <1>2, Meanwhile
<1>4. Typed(loop, M \union L, M)
  BY LoopTyped
<1>5. Typed(do \o loop \o rest, A \union L, {})
  <2> HIDE DEF A, L, loop
  <2> QED BY <1>3, <1>4, InTurn
<1>6. /\ Knows(t, A)' /\ RegOK(t)' /\ DOMAIN reg' = Threads
      /\ \A s \in Threads \ {t} : reg'[s] = reg[s]
  <2>1. \A k \in K : Is(k, x, t)'
    BY <1>1, KindsKept
  <2> QED BY <1>1, <2>1, NewValue
<1>7. Knows(t, L)'
  <2> SUFFICES ASSUME NEW f \in L PROVE Fact(f, t)'
    BY DEF Knows
  <2>1. PICK k \in K, y \in X : f = <<"left", k, y>>
    BY DEF Left
  <2>2. Is(k, y, t)'
    BY <1>1, KindsKept
  <2> QED BY <2>1, <2>2, FactsOf
<1>8. PICK H, p : H = A \union L /\ p = do \o loop \o rest
  OBVIOUS
<1>9. Knows(t, H)'
  BY <1>6, <1>7, <1>8 DEF Knows
<1>10. todo'[t] = p /\ DOMAIN todo' = Threads /\ \A s \in Threads \ {t} : todo'[s] = todo[s]
  BY <1>1, <1>8, GoesOn
<1>11. Typed(todo'[t], H, {})
  BY <1>5, <1>8, <1>10
<1> HIDE DEF A, L, loop
<1> QED BY <1>1, <1>6, <1>9, <1>10, <1>11, QuietStep

LEMMA LoopStep ==
  ASSUME SessionInv, NEW t \in Threads, Judged(t), Loop(t) PROVE Right(t)
<1>0. /\ todo[t] # <<>> /\ Head(todo[t]).op = "each" /\ UNCHANGED <<store, catch, outside>>
  BY DEF Loop, Op
<1>1. PICK i, rest : i = Head(todo[t]) /\ rest = Tail(todo[t])
  OBVIOUS
<1>2. PICK X : X = IF "left" \in DOMAIN i THEN i.left ELSE Choices(i.from, reg[t])
  OBVIOUS
<1>3. \/ X = {} /\ Continue(t, rest) /\ UNCHANGED reg
      \/ \E x \in X :
           /\ Set(t, i.into, x)
           /\ Continue(t, i.do \o <<[op |-> "each", into |-> i.into, left |-> X \ {x},
                                     do |-> i.do]>> \o rest)
  BY <1>1, <1>2 DEF Loop
<1>4. PICK E, M, I, W : At(t, E, M, I, W)
  BY <1>0, AtFirst
<1>5. Knows(t, E) /\ Typed(rest, M, {}) /\ Fits(i, E, M, W) /\ Judgements(I, W) /\ i.op = "each"
  BY <1>0, <1>1, <1>4 DEF At
<1>6. ASSUME X = {}, Continue(t, rest), UNCHANGED reg, M \subseteq E PROVE Right(t)
  <2>1. Typed(rest, E, {})
    BY <1>5, <1>6, KnowMore
  <2>2. Knows(t, E)'
    BY <1>0, <1>5, <1>6, AllKept, SoundStill DEF SessionInv, outside
  <2> QED BY <1>0, <1>6, <2>1, <2>2, QuietStep, GoesOn DEF SessionInv, Control, Goroutine, RegOK, outside
<1>7. CASE "left" \in DOMAIN i
  <2>1. LoopFits(i, E, M, W) /\ X = i.left
    BY <1>2, <1>5, <1>7, FitsOp
  <2>2. PICK K : /\ "viewed" \notin K
                 /\ Left(K, i.left) \subseteq E
                 /\ <<i.do, Kill(M, {i.into}) \union About(i.into, K), M>> \in W
    BY <2>1 DEF LoopFits
  <2>3. M \subseteq E /\ i.into \in Registers \union {"item"}
    BY <2>1 DEF LoopFits
  <2>4. Typed(i.do, Kill(M, {i.into}) \union About(i.into, K), M)
    BY <1>5, <2>2, KnowLess
  <2>5. \A k \in K : \A y \in X : Is(k, y, t)
    <3> SUFFICES ASSUME NEW k \in K, NEW y \in X PROVE Is(k, y, t)
      OBVIOUS
    <3>1. <<"left", k, y>> \in E
      BY <2>1, <2>2 DEF Left
    <3> QED BY <1>5, <3>1, FactsOf DEF Knows
  <2>6. Knows(t, M)
    BY <1>5, <2>3 DEF Knows
  <2> QED BY <1>0, <1>3, <1>5, <1>6, <2>2, <2>3, <2>4, <2>5, <2>6, LoopTurn
<1>8. CASE "left" \notin DOMAIN i
  <2>1. EachFits(i, E, M, W) /\ X = Choices(i.from, reg[t])
    BY <1>2, <1>5, <1>8, FitsOp
  <2>2. PICK K : K = Chosen(i.from, E)
    OBVIOUS
  <2>3. /\ i.into \in Registers \union {"item"}
        /\ <<i.do, Kill(E, {i.into}) \union About(i.into, K), M>> \in W
        /\ <<i.do, Kill(M, {i.into}) \union About(i.into, K), M>> \in W
        /\ M \subseteq E \/ (i.from = "got" /\ Some \in E)
    BY <2>1, <2>2 DEF EachFits
  <2>4. "viewed" \notin K
    BY <2>2 DEF Chosen
  <2>5. \A k \in K : \A y \in X : Is(k, y, t)
    BY <1>5, <2>1, <2>2, ChoicesAre
  <2>6. /\ Typed(i.do, Kill(E, {i.into}) \union About(i.into, K), M)
        /\ Typed(i.do, Kill(M, {i.into}) \union About(i.into, K), M)
    BY <1>5, <2>3, KnowLess
  <2>7. X = {} => M \subseteq E
    <3> SUFFICES ASSUME X = {}, i.from = "got", Some \in E PROVE FALSE
      BY <2>3
    <3>1. reg[t].got # {}
      BY <1>5, FactsOf DEF Knows
    <3>2. Choices("got", reg[t]) = reg[t].got
      BY DEF Choices
    <3> QED BY <2>1, <3>1, <3>2
  <2> QED BY <1>0, <1>3, <1>5, <1>6, <2>3, <2>4, <2>5, <2>6, <2>7, LoopTurn
<1> QED BY <1>7, <1>8

(* Once the server has been told, the store is next.                       *)
LEMMA OneThen ==
  ASSUME NEW a, NEW I, NEW p \in Seq(I)
  PROVE  <<a>> \o p # <<>> /\ Head(<<a>> \o p) = a /\ Tail(<<a>> \o p) = p
<1>1. <<a>> \in Seq(I \union {a}) /\ p \in Seq(I \union {a})
  BY SeqMonotonic, I \subseteq I \union {a}
<1>2. <<a>> # <<>> /\ Head(<<a>>) = a /\ Tail(<<a>>) = <<>>
  OBVIOUS
<1>3. <<a>> \o p # <<>> /\ Head(<<a>> \o p) = a /\ Tail(<<a>> \o p) = <<>> \o p
  BY <1>1, <1>2, HeadTailConcat
<1> QED BY <1>3, ConcatEmptySeq

LEMMA ForgetMemberIs ==
  /\ ForgetMember # <<>> /\ Tail(ForgetMember) = Info
  /\ Head(ForgetMember) = [op |-> "do", call |-> "RemoveChannelMember", arg |-> "chan"]
<1>1. ForgetMember = <<[op |-> "do", call |-> "RemoveChannelMember", arg |-> "chan"]>> \o Info
  BY Words DEF ForgetMember, Do
<1>2. Info \in Seq({[op |-> "info"]})
  BY DEF Info
<1> QED BY <1>1, <1>2, OneThen

LEMMA LeavingIs ==
  ASSUME Leaving
  PROVE  /\ todo["main"] # <<>> /\ Head(todo["main"]) = [op |-> "do", call |-> "RemoveChannelMember", arg |-> "chan"]
         /\ Tail(todo["main"]) = Info
BY ForgetMemberIs DEF Leaving

(* A choice from things of known kinds.                                    *)
LEMMA ChooseStep ==
  ASSUME SessionInv, NEW t \in Threads, todo[t] # <<>>, UNCHANGED <<store, catch, outside>>,
         NEW r \in Registers, NEW S, NEW none, Choose(t, r, S, none),
         NEW K, \A k \in K : \A x \in S : Is(k, x, t),
         NEW G, Knows(t, G), NEW N, Typed(none, G, N),
         NEW M, M \subseteq Kill(G, {r}) \union About(r, K), Typed(Tail(todo[t]), M, {})
  PROVE  Right(t)
<1>1. UNCHANGED <<store, server, kind, catch, script, budget>> /\ Keeps(t) /\ RegOK(t) /\ Control
      /\ connected' \in BOOLEAN /\ panicked' \in BOOLEAN
  BY SoundStill DEF SessionInv, outside, Goroutine, Control
<1>2. ASSUME NEW x \in S, Set(t, r, x), Continue(t, Tail(todo[t]))
      PROVE  Right(t)
  <2>1. \A k \in K : Is(k, x, t)'
    BY <1>1, KindsKept
  <2>2. /\ Knows(t, Kill(G, {r}) \union About(r, K))' /\ RegOK(t)' /\ DOMAIN reg' = Threads
        /\ \A s \in Threads \ {t} : reg'[s] = reg[s]
    BY <1>1, <1>2, <2>1, NewValue
  <2>3. Knows(t, M)'
    BY <2>2 DEF Knows
  <2>4. todo'[t] = Tail(todo[t]) /\ DOMAIN todo' = Threads /\ \A s \in Threads \ {t} : todo'[s] = todo[s]
    BY <1>1, <1>2, GoesOn
  <2> QED BY <1>1, <2>2, <2>3, <2>4, QuietStep
<1>3. CASE Continue(t, none) /\ UNCHANGED reg
  <2>1. Knows(t, G)' /\ RegOK(t)' /\ DOMAIN reg' = Threads
    BY <1>1, <1>3, AllKept DEF RegOK, Control
  <2>2. todo'[t] = none /\ DOMAIN todo' = Threads /\ \A s \in Threads \ {t} : todo'[s] = todo[s]
    BY <1>1, <1>3, GoesOn
  <2>3. Typed(none, G, {})
    BY LearnLess
  <2> QED BY <1>1, <1>3, <2>1, <2>2, <2>3, QuietStep
<1> QED BY <1>2, <1>3 DEF Choose

(* The channel that a register names, chosen into it again.                *)
LEMMA SameValue ==
  ASSUME Control, NEW t \in Threads, RegOK(t), Keeps(t), Set(t, "chan", reg[t].chan),
         NEW G, Knows(t, G)
  PROVE  Knows(t, G)' /\ RegOK(t)' /\ DOMAIN reg' = Threads
         /\ \A s \in Threads \ {t} : reg'[s] = reg[s]
<1>1. /\ reg' = [reg EXCEPT ![t] = [reg[t] EXCEPT !["chan"] = reg[t].chan]] /\ DOMAIN reg = Threads
      /\ DOMAIN reg[t] = DOMAIN Blank
  BY DEF Set, Control, RegOK
<1>2. /\ \A q \in DOMAIN Blank : reg'[t][q] = reg[t][q]
      /\ DOMAIN reg'[t] = DOMAIN Blank /\ DOMAIN reg' = Threads
      /\ \A s \in Threads \ {t} : reg'[s] = reg[s]
  BY <1>1
<1>3. RegOK(t)'
  <2>1. Sets \subseteq DOMAIN Blank
    BY DEF Sets, Blank
  <2> QED BY <1>2, <2>1 DEF RegOK
<1>4. ASSUME NEW f \in G PROVE Fact(f, t)'
  <2>1. Fact(f, t)
    BY DEF Knows
  <2>2. Uses(f) \in {"here", "left"} \union DOMAIN Blank
    <3>1. f[1] \in {"here", "got", "nonempty", "left"} \union Registers \union {"item"}
      BY <2>1 DEF Fact
    <3> QED BY <3>1 DEF Uses, Registers, Blank
  <2> QED BY <1>2, <2>1, <2>2, FactKept
<1> QED BY <1>2, <1>3, <1>4 DEF Knows

LEMMA SelectStep ==
  ASSUME SessionInv, NEW t \in Threads, Judged(t), Select(t) PROVE Right(t)
<1>0. /\ todo[t] # <<>> /\ Head(todo[t]).op \in {"pick", "pickTeam", "pickChannel"}
      /\ UNCHANGED <<store, catch, outside>>
  BY DEF Select, Op
<1>1. PICK i : i = Head(todo[t])
  OBVIOUS
<1>2. PICK E, M, I, W : At(t, E, M, I, W)
  BY <1>0, AtFirst
<1>3. Knows(t, E) /\ Typed(Tail(todo[t]), M, {}) /\ Fits(i, E, M, W) /\ Judgements(I, W)
  BY <1>1, <1>2 DEF At
<1>4. CASE i.op = "pick"
  <2>1. Choose(t, i.into, Choices(i.from, reg[t]), i.none)
    BY <1>1, <1>4 DEF Select
  <2>2. PickFits(i, E, M, W)
    BY <1>3, <1>4, FitsOp
  <2>3. PICK N : <<i.none, E, N>> \in W
    BY <2>2 DEF PickFits
  <2>4. i.into \in Registers /\ Typed(i.none, E, N)
    BY <1>3, <2>2, <2>3, KnowLess DEF PickFits
  <2>5. CASE M \subseteq Kill(E, {i.into}) \union About(i.into, Chosen(i.from, E))
    <3>1. PICK K, S : K = Chosen(i.from, E) /\ S = Choices(i.from, reg[t])
      OBVIOUS
    <3>2. \A k \in K : \A x \in S : Is(k, x, t)
      BY <1>3, <3>1, ChoicesAre
    <3> QED BY <1>0, <1>3, <2>1, <2>4, <2>5, <3>1, <3>2, ChooseStep
  <2>6. CASE i.from = "directChannelByName"
    <3>1. Choices(i.from, reg[t]) = {}
      BY <2>6 DEF Choices
    <3>2. PICK K : K = {f[2] : f \in M}
      OBVIOUS
    <3>3. Continue(t, i.none) /\ UNCHANGED reg
      BY <2>1, <3>1 DEF Choose
    <3>4. todo'[t] = i.none /\ DOMAIN todo' = Threads /\ \A s \in Threads \ {t} : todo'[s] = todo[s]
      BY <3>3, GoesOn DEF SessionInv
    <3>5. Typed(i.none, E, {})
      BY <2>4, LearnLess
    <3>6. Knows(t, E)'
      BY <1>0, <1>3, <3>3, AllKept, SoundStill DEF SessionInv, outside
    <3> QED BY <1>0, <3>3, <3>4, <3>5, <3>6, QuietStep DEF SessionInv, Control, Goroutine, RegOK, outside
  <2>7. CASE i.from = "theChannel" /\ i.into = "chan" /\ M \subseteq E
    <3>1. Choices(i.from, reg[t]) = store.channels \intersect {reg[t].chan}
      BY <2>7 DEF Choices
    <3>2. CASE Continue(t, i.none) /\ UNCHANGED reg
      <4>4. todo'[t] = i.none /\ DOMAIN todo' = Threads /\ \A s \in Threads \ {t} : todo'[s] = todo[s]
        BY <3>2, GoesOn DEF SessionInv
      <4>5. Typed(i.none, E, {})
        BY <2>4, LearnLess
      <4>6. Knows(t, E)'
        BY <1>0, <1>3, <3>2, AllKept, SoundStill DEF SessionInv, outside
      <4> QED BY <1>0, <3>2, <4>4, <4>5, <4>6, QuietStep DEF SessionInv, Control, Goroutine, RegOK, outside
    <3>3. CASE Set(t, "chan", reg[t].chan) /\ Continue(t, Tail(todo[t]))
      <4>1. /\ Knows(t, E)' /\ RegOK(t)' /\ DOMAIN reg' = Threads
            /\ \A s \in Threads \ {t} : reg'[s] = reg[s]
        BY <1>0, <1>3, <3>3, SameValue, SoundStill DEF SessionInv, outside, Goroutine
      <4>2. Typed(Tail(todo[t]), E, {})
        BY <1>3, <2>7, KnowMore
      <4>3. /\ todo'[t] = Tail(todo[t]) /\ DOMAIN todo' = Threads
            /\ \A s \in Threads \ {t} : todo'[s] = todo[s]
        BY <3>3, GoesOn DEF SessionInv
      <4> QED BY <1>0, <4>1, <4>2, <4>3, QuietStep DEF SessionInv, Control, outside
    <3> QED BY <2>1, <2>7, <3>1, <3>2, <3>3 DEF Choose
  <2> QED BY <2>2, <2>5, <2>6, <2>7 DEF PickFits
<1>5. CASE i.op = "pickTeam"
  <2>1. Choose(t, "team", TeamChoice(i.st), i.none)
    BY <1>1, <1>5 DEF Select
  <2>2. PickTeamFits(i, E, M, W)
    BY <1>3, <1>5, FitsOp
  <2>3. PICK N : <<i.none, E, N>> \in W
    BY <2>2 DEF PickTeamFits
  <2>4. PICK K, S : K = {"team"} /\ S = TeamChoice(i.st)
    OBVIOUS
  <2>5. \A k \in K : \A x \in S : Is(k, x, t)
    <3>1. store.teams \subseteq Teams
      BY DEF SessionInv, StoreInv, Rest
    <3> QED BY <2>4, <3>1 DEF TeamChoice, Is
  <2>6. M \subseteq Kill(E, {"team"}) \union About("team", K)
    BY <2>2, <2>4 DEF PickTeamFits, About
  <2>7. Typed(i.none, E, N) /\ "team" \in Registers
    BY <1>3, <2>3, KnowLess DEF Registers
  <2> QED BY <1>0, <1>3, <2>1, <2>4, <2>5, <2>6, <2>7, ChooseStep
<1>6. CASE i.op = "pickChannel"
  <2>1. Choose(t, "chan", ChannelChoice(reg[t].team, i.st),
               IF reg[t].team \in store.teams THEN i.none ELSE Err)
    BY <1>1, <1>6 DEF Select
  <2>2. PickChannelFits(i, E, M, W)
    BY <1>3, <1>6, FitsOp
  <2>3. PICK N : <<i.none, E, N>> \in W
    BY <2>2 DEF PickChannelFits
  <2>4. PICK K, S, none :
          /\ K = IF "NotMemberOf" \in i.st THEN {"channel"} ELSE {"channel", "joined"}
          /\ S = ChannelChoice(reg[t].team, i.st)
          /\ none = IF reg[t].team \in store.teams THEN i.none ELSE Err
    OBVIOUS
  <2>5. \A k \in K : \A x \in S : Is(k, x, t)
    <3> SUFFICES ASSUME NEW k \in K, NEW x \in S PROVE Is(k, x, t)
      OBVIOUS
    <3>1. x \in store.channels /\ Membership(IsMember(x)) \in i.st
      BY <2>4 DEF ChannelChoice
    <3>2. x \in server.channels /\ x \in Channels
      BY <3>1 DEF SessionInv, Known, ServerOK
    <3>3. t = "main"
      BY <1>3, <2>2, FactsOf DEF PickChannelFits, Knows
    <3>4. CASE k = "channel"
      BY <3>2, <3>4 DEF Is
    <3>5. CASE k = "joined" /\ "NotMemberOf" \notin i.st
      <4>1. IsMember(x)
        BY <3>1, <3>5 DEF Membership
      <4>2. ~Leaving
        BY <1>0, <1>1, <1>6, <3>3, LeavingIs
      <4>3. x \in server.joined
        BY <3>2, <4>1, <4>2 DEF SessionInv, Known
      <4> QED BY <3>3, <3>5, <4>3 DEF Is, Joined
    <3> QED BY <2>4, <3>4, <3>5
  <2>6. M \subseteq Kill(E, {"chan"}) \union About("chan", K)
    BY <2>2, <2>4 DEF PickChannelFits
  <2>7. Typed(none, E, N) /\ "chan" \in Registers
    BY <1>3, <2>3, <2>4, KnowLess, OthersTyped DEF Registers
  <2> QED BY <1>0, <1>3, <2>1, <2>4, <2>5, <2>6, <2>7, ChooseStep
<1> QED BY <1>0, <1>1, <1>4, <1>5, <1>6

LEMMA NewAnswer ==
  ASSUME Control, NEW t \in Threads, NEW v, Set(t, "got", v), Keeps(t), RegOK(t),
         NEW G, Knows(t, G)
  PROVE  /\ Knows(t, Kill(G, {"got", "nonempty"}))'
         /\ reg'[t].got = v /\ reg'[t].chan = reg[t].chan
         /\ RegOK(t)' /\ DOMAIN reg' = Threads
         /\ \A s \in Threads \ {t} : reg'[s] = reg[s]
<1>1. /\ reg' = [reg EXCEPT ![t] = [reg[t] EXCEPT !["got"] = v]] /\ DOMAIN reg = Threads
      /\ DOMAIN reg[t] = DOMAIN Blank
  BY DEF Set, Control, RegOK
<1>2. "got" \in DOMAIN Blank /\ "got" \notin Sets /\ "chan" \in DOMAIN Blank
  BY DEF Blank, Sets
<1>3. /\ reg'[t].got = v /\ \A q \in DOMAIN Blank \ {"got"} : reg'[t][q] = reg[t][q]
      /\ DOMAIN reg'[t] = DOMAIN Blank /\ DOMAIN reg' = Threads
      /\ \A s \in Threads \ {t} : reg'[s] = reg[s]
  BY <1>1, <1>2
<1>4. RegOK(t)'
  <2>1. Sets \subseteq DOMAIN Blank \ {"got"}
    BY <1>2 DEF Sets, Blank
  <2>2. \A q \in Sets : reg'[t][q] = reg[t][q]
    BY <1>3, <2>1
  <2> QED BY <1>3, <2>2 DEF RegOK
<1>5. ASSUME NEW f \in Kill(G, {"got", "nonempty"}) PROVE Fact(f, t)'
  <2>1. f \in G /\ f[1] \notin {"got", "nonempty"} /\ Fact(f, t)
    BY DEF Kill, Knows
  <2>2. Uses(f) \in {"here", "left"} \union (DOMAIN Blank \ {"got"})
    <3>1. f[1] \in {"here", "left"} \union Registers \union {"item"}
      BY <2>1 DEF Fact
    <3> QED BY <2>1, <3>1 DEF Uses, Registers, Blank
  <2> QED BY <1>3, <2>1, <2>2, FactKept
<1> QED BY <1>2, <1>3, <1>4, <1>5 DEF Knows

(* What the server answers, and what it makes of it.                       *)
LEMMA ServerStep ==
  ASSUME ServerOK, NEW what, what # "leaveChannel", NEW arg, NEW r, NEW got \in Answers(what, arg, r),
         server' = ServerAfter(what, r, got),
         what = "joinTeam" => r.team \in Teams,
         what = "joinChannel" => r.chan \in server.channels,
         what = "newPref" => ChannelType[r.chan] \in {"Direct", "Group"}
  PROVE  /\ ServerOK' /\ server.channels \subseteq server'.channels
         /\ server.joined \subseteq server'.joined
<1>1. CASE what = "joinTeam"
  <2>1. server' = [server EXCEPT !.teams = server.teams \union {r.team},
                     !.joined = server.joined \union {c \in DefaultChannels : ChannelTeam[c] = r.team}]
    BY <1>1 DEF ServerAfter, ChannelTypes
  <2>2. PICK teams, defaults : /\ teams = server.teams \union {r.team}
                               /\ defaults = {c \in DefaultChannels : ChannelTeam[c] = r.team}
    OBVIOUS
  <2>3. teams \subseteq Teams /\ defaults \subseteq server.channels
    BY <1>1, <2>2 DEF ServerOK
  <2>4. server' = [server EXCEPT !.teams = teams, !.joined = server.joined \union defaults]
    BY <2>1, <2>2
  <2> QED BY <2>3, <2>4 DEF ServerOK
<1>2. CASE what = "joinChannel"
  <2>1. server' = [server EXCEPT !.joined = server.joined \union {r.chan}]
    BY <1>2 DEF ServerAfter, ChannelTypes
  <2> QED BY <1>2, <2>1 DEF ServerOK
<1>3. CASE what = "newPost"
  <2>1. server' = [server EXCEPT !.posts = server.posts \union got]
    BY <1>3 DEF ServerAfter, ChannelTypes
  <2>2. got \subseteq Posts \ server.deleted
    BY <1>3 DEF Answers
  <2> QED BY <2>1, <2>2 DEF ServerOK
<1>4. CASE what = "newPref"
  <2>1. server' = [server EXCEPT !.prefs = server.prefs \union {ChannelType[r.chan]}]
    BY <1>4 DEF ServerAfter, ChannelTypes
  <2> QED BY <1>4, <2>1 DEF ServerOK
<1>5. CASE what \in ChannelTypes
  <2>1. server' = [server EXCEPT !.channels = server.channels \union got,
                                 !.joined = server.joined \union got]
    BY <1>5 DEF ServerAfter, ChannelTypes
  <2>2. got \subseteq Channels
    BY <1>5 DEF Answers, ChannelTypes
  <2> QED BY <2>1, <2>2 DEF ServerOK
<1>6. CASE what \notin {"joinTeam", "joinChannel", "newPost", "newPref"} \union ChannelTypes
  <2>1. server' = server
    BY <1>6 DEF ServerAfter, ChannelTypes
  <2> QED BY <2>1 DEF ServerOK
<1> QED BY <1>1, <1>2, <1>3, <1>4, <1>5, <1>6

LEMMA AnswersAre ==
  ASSUME SessionInv, NEW t \in Threads, NEW E, Knows(t, E), NEW what, NEW arg, MayAsk(what, arg, E),
         NEW got \in Answers(what, arg, reg[t]), server' = ServerAfter(what, reg[t], got),
         server.channels \subseteq server'.channels, server.joined \subseteq server'.joined,
         kind' = kind, reg'[t].got = got, reg'[t].chan = reg[t].chan
  PROVE  Knows(t, Got(what))'
<1> DEFINE r == reg[t]
<1>1. ASSUME NEW k, Got(what) = About("got", {k}), \A x \in got : Is(k, x, t)'
      PROVE  Knows(t, Got(what))'
  BY <1>1, FactsOf DEF Knows, About
<1>2. ServerOK
  BY DEF SessionInv
<1>3. CASE what \in {"newUser", "me"}
  <2>1. got \subseteq Credentials
    BY <1>3 DEF Answers, Credentials
  <2>9. Got(what) = About("got", {"cred"})
    BY <1>3 DEF Got, ChannelTypes
  <2> QED BY <1>1, <2>1, <2>9 DEF Is
<1>4. CASE what \in {"teams", "ownTeams"}
  <2>1. got \subseteq Teams
    BY <1>2, <1>4 DEF Answers, ServerOK
  <2>9. Got(what) = About("got", {"team"})
    BY <1>4 DEF Got, ChannelTypes
  <2> QED BY <1>1, <2>1, <2>9 DEF Is
<1>5. CASE what \in {"ownChannels", "publicChannels"}
  <2>1. got \subseteq server.channels
    BY <1>2, <1>5 DEF Answers, ServerOK, OfTeam
  <2>9. Got(what) = About("got", {"channel"})
    BY <1>5 DEF Got, ChannelTypes
  <2> QED BY <1>1, <2>1, <2>9 DEF Is
<1>6. CASE what \in {"ownMembers", "members"}
  <2>1. t = "main" /\ (what = "members" => r.chan \in server.channels)
    <3>1. IsMain \in E /\ (what = "members" => <<"chan", "channel">> \in E)
      BY <1>6 DEF MayAsk
    <3>2. what = "members" => Is("channel", r.chan, t)
      BY <3>1, FactsOf DEF Knows, Registers
    <3> QED BY <3>1, <3>2, FactsOf DEF Knows, Is
  <2>2. ASSUME NEW x \in got PROVE x \in Channels \X Users /\ (x[2] = Me => x[1] \in server.joined)
    <3>1. CASE what = "ownMembers"
      <4>1. got = OfTeam(r.team) \X {Me}
        BY <3>1 DEF Answers
      <4> QED BY <1>2, <4>1, ServerAssumption DEF ServerOK, OfTeam
    <3>2. CASE what = "members"
      <4>1. got = {r.chan} \X (IF r.chan \in server.joined THEN Users ELSE Users \ {Me})
        BY <3>2 DEF Answers
      <4>2. r.chan \in Channels
        BY <1>2, <2>1, <3>2 DEF ServerOK
      <4> QED BY <4>1, <4>2
    <3> QED BY <1>6, <3>1, <3>2
  <2>3. ASSUME NEW x \in got PROVE Is("member", x, t)'
    BY <2>1, <2>2 DEF Is, Joined
  <2>9. Got(what) = About("got", {"member"})
    BY <1>6 DEF Got, ChannelTypes
  <2> QED BY <1>1, <2>3, <2>9
<1>7. CASE what \in {"posts", "editPost", "newPost"}
  <2>1. got \subseteq Posts
    BY <1>2, <1>7 DEF Answers, ServerOK
  <2>9. Got(what) = About("got", {"post"})
    BY <1>7 DEF Got, ChannelTypes
  <2> QED BY <1>1, <2>1, <2>9 DEF Is
<1>8. CASE what \in {"users", "usersByIds"}
  <2>1. got \subseteq Users
    <3>1. CASE what = "users"
      BY <3>1, SessionAssumption DEF Answers
    <3>2. CASE what = "usersByIds"
      <4>1. got = reg[t][arg] /\ arg \in Sets
        BY <3>2 DEF Answers, MayAsk
      <4> QED BY <4>1 DEF SessionInv, Goroutine, RegOK
    <3> QED BY <1>8, <3>1, <3>2
  <2>9. Got(what) = About("got", {"user"})
    BY <1>8 DEF Got, ChannelTypes
  <2> QED BY <1>1, <2>1, <2>9 DEF Is
<1>9. CASE what = "prefs"
  <2>1. got \subseteq {"Direct", "Group"}
    BY <1>2, <1>9 DEF Answers, ServerOK
  <2>9. Got(what) = About("got", {"pref"})
    BY <1>9 DEF Got, ChannelTypes
  <2> QED BY <1>1, <2>1, <2>9 DEF Is
<1>10. CASE what = "joinChannel"
  <2>1. t = "main"
    BY <1>10, FactsOf DEF MayAsk, Knows
  <2>2. reg'[t].chan \in server'.joined
    <3>1. server' = [server EXCEPT !.joined = server.joined \union {r.chan}]
      BY <1>10 DEF ServerAfter, ChannelTypes
    <3> QED BY <1>2, <3>1 DEF ServerOK
  <2>3. Is("joined", reg[t].chan, t)'
    BY <2>1, <2>2 DEF Is, Joined
  <2>4. Got(what) = {<<"chan", "joined">>}
    BY <1>10 DEF Got, ChannelTypes
  <2> QED BY <2>3, <2>4, FactsOf DEF Knows, Registers
<1>11. CASE what \in ChannelTypes
  <2>1. t = "main"
    BY <1>11, FactsOf DEF MayAsk, Knows
  <2>2. got # {} /\ got \subseteq server'.channels /\ got \subseteq server'.joined
    <3>1. server' = [server EXCEPT !.channels = server.channels \union got,
                                   !.joined = server.joined \union got]
      BY <1>11 DEF ServerAfter, ChannelTypes
    <3>2. got # {}
      BY <1>11 DEF Answers, ChannelTypes
    <3> QED BY <1>2, <3>1, <3>2 DEF ServerOK
  <2>3. \A x \in got : Is("channel", x, t)' /\ Is("joined", x, t)'
    BY <2>1, <2>2 DEF Is, Joined
  <2>4. Got(what) = About("got", {"channel", "joined"}) \union {Some}
    BY <1>11 DEF Got, ChannelTypes
  <2>5. Fact(Some, t)'
    BY <2>2, FactsOf
  <2>6. Fact(<<"got", "channel">>, t)' /\ Fact(<<"got", "joined">>, t)'
    BY <2>3, FactsOf
  <2> QED BY <2>4, <2>5, <2>6 DEF Knows, About
<1> QED BY <1>3, <1>4, <1>5, <1>6, <1>7, <1>8, <1>9, <1>10, <1>11 DEF Got, Knows

LEMMA AnsweredStep ==
  ASSUME SessionInv, NEW t \in Threads, Judged(t), Answered(t) PROVE Right(t)
<1>0. /\ todo[t] # <<>> /\ Head(todo[t]).op \in {"ask", "try"}
      /\ UNCHANGED <<store, catch, connected, kind, script, budget, panicked>>
  BY DEF Answered, Op
<1>1. PICK i, what : i = Head(todo[t]) /\ what = i.what
  OBVIOUS
<1>2. PICK got \in Answers(what, i.arg, reg[t]) :
        /\ Set(t, "got", got)
        /\ server' = ServerAfter(what, reg[t], got)
        /\ Continue(t, i.then \o Tail(todo[t]))
  BY <1>1 DEF Answered
<1>3. PICK E, M, I, W : At(t, E, M, I, W)
  BY <1>0, AtFirst
<1>4. Knows(t, E) /\ Typed(Tail(todo[t]), M, {}) /\ AskFits(i, E, M, W) /\ Judgements(I, W)
  BY <1>0, <1>1, <1>3, FitsOp DEF At
<1>5. PICK F : F = Kill(E, {"got", "nonempty"}) \union Got(what)
  OBVIOUS
<1>6. MayAsk(what, i.arg, E) /\ <<i.then, F, M>> \in W
  BY <1>1, <1>4, <1>5 DEF AskFits
<1>7. /\ what # "leaveChannel"
      /\ what = "joinTeam" => reg[t].team \in Teams
      /\ what = "joinChannel" => reg[t].chan \in server.channels
      /\ what = "newPref" => ChannelType[reg[t].chan] \in {"Direct", "Group"}
  <2>1. what = "joinTeam" => Is("team", reg[t].team, t)
    BY <1>4, <1>6, FactsOf DEF MayAsk, Knows, Registers
  <2>2. what = "joinChannel" => Is("channel", reg[t].chan, t)
    BY <1>4, <1>6, FactsOf DEF MayAsk, Knows, Registers
  <2>3. what = "newPref" => Is("direct", reg[t].chan, t)
    BY <1>4, <1>6, FactsOf DEF MayAsk, Knows, Registers
  <2> QED BY <1>6, <2>1, <2>2, <2>3 DEF MayAsk, Is
<1>8. /\ ServerOK' /\ server.channels \subseteq server'.channels
      /\ server.joined \subseteq server'.joined
  BY <1>2, <1>7, ServerStep DEF SessionInv
<1>9. Sound(t) /\ Keeps(t)
  <2>1. \A c \in Channels : IsMember(c)' => IsMember(c)
    BY <1>0 DEF IsMember
  <2> QED BY <1>0, <1>8, <2>1 DEF Sound, Keeps, Joined, Viewed
<1>10. Control /\ RegOK(t)
  BY DEF SessionInv, Goroutine
<1>11. /\ Knows(t, Kill(E, {"got", "nonempty"}))'
       /\ reg'[t].got = got /\ reg'[t].chan = reg[t].chan
       /\ RegOK(t)' /\ DOMAIN reg' = Threads
       /\ \A s \in Threads \ {t} : reg'[s] = reg[s]
  BY <1>2, <1>4, <1>9, <1>10, NewAnswer
<1>12. Knows(t, Got(what))'
  BY <1>0, <1>2, <1>4, <1>6, <1>8, <1>11, AnswersAre
<1>13. Knows(t, F)'
  BY <1>5, <1>11, <1>12 DEF Knows
<1>14. PICK p : p = i.then \o Tail(todo[t])
  OBVIOUS
<1>15. todo'[t] = p /\ DOMAIN todo' = Threads /\ \A s \in Threads \ {t} : todo'[s] = todo[s]
  BY <1>2, <1>10, <1>14, GoesOn
<1>16. Typed(p, F, {})
  BY <1>4, <1>6, <1>14, KnowLess, InTurn
<1>17. Judged(t)'
  BY <1>13, <1>15, <1>16 DEF Judged
<1>18. Only(t)
  BY <1>0, <1>10, <1>11, <1>15 DEF Only, Control
<1>19. CatchOK(t)'
  BY <1>0, ThisKept DEF CatchOK, SessionInv, Goroutine
<1>20. Control'
  BY <1>0, <1>10, <1>18, ControlKept DEF Control
<1> QED BY <1>9, <1>11, <1>17, <1>18, <1>19, <1>20 DEF Right

(* What the queue of members holds after a call.                           *)
LEMMA StoredAfter ==
  ASSUME NEW K, NEW size \in Nat \ {0}, NEW q \in Queue(K, size), NEW k \in K
  PROVE  /\ Stored(Put(q, k, size)) \subseteq Stored(q) \union {k}
         /\ Stored(Delete(q, k)) \subseteq Stored(q) \ {k}
         /\ Stored(Reset(q)) = {}
<1>1. DOMAIN q.at = K /\ q.next # Nowhere /\ DOMAIN q = {"data", "next", "at"}
  BY DEF Queue, Nowhere
<1>2. Stored(Put(q, k, size)) \subseteq Stored(q) \union {k}
  <2> SUFFICES ASSUME NEW j \in Stored(Put(q, k, size)), j # k PROVE j \in Stored(q)
    OBVIOUS
  <2>1. Put(q, k, size).at = [Forget(q) EXCEPT ![k] = q.next]
    BY DEF Put
  <2>2. DOMAIN Forget(q) = K /\ \A l \in K : Forget(q)[l] \in {Nowhere, q.at[l]}
    BY <1>1 DEF Forget
  <2>3. j \in K /\ Forget(q)[j] # Nowhere
    BY <2>1, <2>2 DEF Stored
  <2> QED BY <1>1, <2>2, <2>3 DEF Stored
<1>3. Stored(Delete(q, k)) \subseteq Stored(q) \ {k}
  <2>1. Delete(q, k).at = [q.at EXCEPT ![k] = Nowhere]
    BY <1>1 DEF Delete
  <2> QED BY <1>1, <2>1 DEF Stored
<1>4. Stored(Reset(q)) = {}
  BY <1>1 DEF Stored, Reset
<1> QED BY <1>2, <1>3, <1>4

LEMMA CallIs ==
  ASSUME NEW call, NEW x, NEW r, Call(call, x, r)
  PROVE  /\ call = "Clear" => Clear
         /\ call = "Lock" => Lock
         /\ call = "Unlock" => Unlock
         /\ call = "SetUser" => SetUser(x)
         /\ call = "SetPreferences" => SetPreferences(x)
         /\ call = "SetPost" => SetPost(x)
         /\ call = "DeletePost" => DeletePost(x)
         /\ call = "SetStatus" => SetStatus(x)
         /\ call = "SetOneUser" => SetOneUser(x)
         /\ call = "SetOneMember" => SetOneMember(x[1], x[2])
         /\ call = "SetChannelMember" => SetChannelMember(x, Me)
         /\ call = "RemoveChannelMember" => RemoveChannelMember(x, Me)
         /\ call = "SetTeams" => SetTeams(x)
         /\ call = "SetTeam" => SetTeam(x)
         /\ call = "SetTeamMember" => SetTeamMember(x)
         /\ call = "SetChannel" => SetChannel(x)
         /\ call = "SetChannelView" => SetChannelView(x)
         /\ call = "SetProfileImage" => SetProfileImage(x)
         /\ call = "SetCurrentTeam" => SetCurrentTeam(x)
         /\ call = "SetCurrentChannel" => SetCurrentChannel(x)
         /\ call = "SetReaction" => SetReaction(r.post, x)
         /\ call = "DeleteReaction" => DeleteReaction(r.post, x)
BY DEF Call

(* Most calls are about nothing that the invariant speaks of.              *)
Untouched ==
  /\ store'.views = store.views /\ store'.channels = store.channels
  /\ store'.currentChannel = store.currentChannel
  /\ store'.queue["members"] = store.queue["members"]

LEMMA Harmless ==
  ASSUME Rest, NEW p, NEW x,
         \/ Lock \/ Unlock \/ SetUser(x) \/ SetPreferences(x) \/ SetPost(x) \/ DeletePost(x)
         \/ SetStatus(x) \/ SetOneUser(x) \/ SetTeams(x) \/ SetTeam(x) \/ SetTeamMember(x)
         \/ SetProfileImage(x) \/ SetCurrentTeam(x) \/ SetReaction(p, x) \/ DeleteReaction(p, x)
  PROVE  Untouched
<1>1. "members" \in DOMAIN store.queue /\ "queue" \in DOMAIN store
      /\ {"views", "channels", "currentChannel"} \subseteq DOMAIN store
  BY DEF Rest, Queues
<1>2. ASSUME NEW n, n # "members", NEW k, store' = Putting(n, k)
      PROVE  Untouched
  BY <1>1, <1>2 DEF Putting, Untouched
<1>3. CASE Lock \/ Unlock
  BY <1>1, <1>3 DEF Lock, Unlock, Untouched
<1>4. CASE SetUser(x) \/ SetPreferences(x)
  BY <1>1, <1>4 DEF SetUser, SetPreferences, Untouched
<1>5. CASE SetPost(x) \/ SetStatus(x) \/ SetOneUser(x)
  BY <1>2, <1>5 DEF SetPost, SetStatus, SetOneUser
<1>6. CASE DeletePost(x)
  BY <1>1, <1>6 DEF DeletePost, Untouched
<1>7. CASE SetTeams(x) \/ SetTeam(x) \/ SetTeamMember(x) \/ SetCurrentTeam(x)
  BY <1>1, <1>7 DEF SetTeams, SetTeam, SetTeamMember, SetCurrentTeam, Untouched
<1>8. CASE SetProfileImage(x) \/ SetReaction(p, x) \/ DeleteReaction(p, x)
  BY <1>1, <1>8 DEF SetProfileImage, SetReaction, DeleteReaction, Untouched
<1> QED BY <1>3, <1>4, <1>5, <1>6, <1>7, <1>8

(* What a call is about is what it may be about.                           *)
Argument(t, arg) == IF arg = "me" THEN Me ELSE IF arg = "none" THEN None ELSE reg[t][arg]

LEMMA ArgumentIs ==
  ASSUME NEW t \in Threads, NEW E, Knows(t, E), NEW call, NEW arg, MayCall(call, arg, E)
  PROVE  /\ call \in DOMAIN Takes \ TakesSet => Is(Takes[call], Argument(t, arg), t)
         /\ call \in TakesSet => \A y \in Argument(t, arg) : Is(Takes[call], y, t)
         /\ call \in {"SetReaction", "DeleteReaction"} =>
              Argument(t, arg) \in Users /\ reg[t].post \in Posts
         /\ call = "SetCurrentChannel" =>
              kind = "simul" /\ Is("joined", Argument(t, arg), t)
         /\ call \in {"Clear", "SetChannelView", "SetCurrentChannel"} => t = "main"
         /\ call \in {"Lock", "Unlock", "Clear", "SetReaction", "DeleteReaction"} \union DOMAIN Takes
<1>1. ASSUME call \in DOMAIN Takes
      PROVE  /\ <<arg, Takes[call]>> \in E
             /\ arg \in IF call \in TakesSet THEN {"got"} ELSE Registers \union {"item"}
             /\ call = "SetChannelView" => IsMain \in E
             /\ call = "SetCurrentChannel" => {<<arg, "joined">>, IsMain, IsSimul} \subseteq E
  BY <1>1 DEF MayCall, Takes
<1>2. TakesSet \subseteq DOMAIN Takes
  BY DEF TakesSet, Takes
<1>3. ASSUME call \in DOMAIN Takes \ TakesSet
      PROVE  Is(Takes[call], Argument(t, arg), t)
  <2>1. arg \in Registers \union {"item"} /\ Fact(<<arg, Takes[call]>>, t)
    BY <1>1, <1>3 DEF Knows
  <2>2. Argument(t, arg) = reg[t][arg]
    BY <2>1 DEF Argument, Registers
  <2> QED BY <2>1, <2>2, FactsOf
<1>4. ASSUME call \in TakesSet
      PROVE  \A y \in Argument(t, arg) : Is(Takes[call], y, t)
  <2>1. arg = "got" /\ Fact(<<"got", Takes[call]>>, t)
    BY <1>1, <1>2, <1>4 DEF Knows
  <2>2. Argument(t, arg) = reg[t].got
    BY <2>1 DEF Argument
  <2> QED BY <2>1, <2>2, FactsOf
<1>5. ASSUME call \in {"SetReaction", "DeleteReaction"}
      PROVE  Argument(t, arg) \in Users /\ reg[t].post \in Posts
  <2>1. <<"post", "post">> \in E /\ (arg = "me" \/ (arg = "user" /\ <<"user", "user">> \in E))
    BY <1>5 DEF MayCall, Takes
  <2>2. Is("post", reg[t].post, t) /\ (arg = "me" \/ (arg = "user" /\ Is("user", reg[t].user, t)))
    BY <2>1, FactsOf DEF Knows, Registers
  <2> QED BY <2>2, ServerAssumption DEF Argument, Is
<1>6. ASSUME call = "SetCurrentChannel"
      PROVE  kind = "simul" /\ t = "main" /\ Is("joined", Argument(t, arg), t)
  <2>1. call \in DOMAIN Takes /\ call \notin TakesSet
    BY <1>6 DEF Takes, TakesSet
  <2>2. arg \in Registers \union {"item"} /\ {<<arg, "joined">>, IsMain, IsSimul} \subseteq E
    BY <1>1, <1>6, <2>1
  <2>3. Argument(t, arg) = reg[t][arg]
    BY <2>2 DEF Argument, Registers
  <2> QED BY <2>2, <2>3, FactsOf DEF Knows
<1>7. ASSUME call \in {"Clear", "SetChannelView"} PROVE t = "main"
  <2>1. IsMain \in E
    BY <1>7 DEF MayCall, Takes
  <2> QED BY <2>1, FactsOf DEF Knows
<1>8. call \in {"Lock", "Unlock", "Clear", "SetReaction", "DeleteReaction"} \union DOMAIN Takes
  BY DEF MayCall
<1> QED BY <1>3, <1>4, <1>5, <1>6, <1>7, <1>8

LEMMA CallSound ==
  ASSUME SessionInv, NEW t \in Threads, NEW E, Knows(t, E), NEW call, NEW arg,
         MayCall(call, arg, E), Call(call, Argument(t, arg), reg[t]), UNCHANGED <<server, kind>>
  PROVE  /\ Sound(t)
         /\ call # "Clear" => store.views \subseteq store'.views
         /\ call = "SetChannelView" => Argument(t, arg) \in store'.views
<1>1. PICK x : x = Argument(t, arg)
  OBVIOUS
<1>2. /\ Rest /\ ServerOK /\ Known /\ "members" \in Queues
      /\ store.queue["members"] \in Queue(Channels \X Users, MaxStoredChannelMembers)
      /\ MaxStoredChannelMembers \in Nat \ {0}
  <2>1. "members" \in Queues /\ Keys["members"] = Channels \X Users
        /\ Size["members"] = MaxStoredChannelMembers
    BY DEF Queues, Keys, Size
  <2>2. \A n \in Queues : store.queue[n] \in Queue(Keys[n], Size[n])
    BY DEF SessionInv, StoreInv, QueuesOK
  <2> QED BY <2>1, <2>2, ConfigIsValid DEF SessionInv, StoreInv
<1>3. ServerOK' /\ server.channels \subseteq server'.channels /\ server.joined \subseteq server'.joined
  BY <1>2 DEF ServerOK
<1>4. ASSUME StoreNext, Untouched
      PROVE  Sound(t) /\ store.views \subseteq store'.views
  <2>1. \A c \in Channels : IsMember(c)' => IsMember(c)
    BY <1>4 DEF Untouched, IsMember
  <2> QED BY <1>3, <1>4, <2>1 DEF Untouched, Sound
<1>5. ASSUME call \in {"Lock", "Unlock", "SetUser", "SetPreferences", "SetPost", "DeletePost",
                       "SetStatus", "SetOneUser", "SetTeams", "SetTeam", "SetTeamMember",
                       "SetProfileImage", "SetCurrentTeam", "SetReaction", "DeleteReaction"}
      PROVE  StoreNext /\ Untouched
  <2>1. CASE call \in {"Lock", "Unlock"}
    <3>1. Lock \/ Unlock
      BY <2>1, CallIs
    <3> QED BY <1>2, <3>1, Harmless DEF StoreNext
  <2>2. CASE call \in {"SetUser", "SetPreferences"}
    <3>1. call = "SetUser" => SetUser(x) /\ x \in Credentials
      BY <1>1, CallIs, ArgumentIs DEF Is, Takes, TakesSet
    <3>2. call = "SetPreferences" => SetPreferences(x) /\ x \subseteq {"Direct", "Group"}
      BY <1>1, CallIs, ArgumentIs DEF Is, Takes, TakesSet
    <3> QED BY <1>2, <2>2, <3>1, <3>2, Harmless DEF StoreNext
  <2>3. CASE call \in {"SetPost", "DeletePost"}
    <3>1. x \in Posts
      BY <1>1, <2>3, ArgumentIs DEF Is, Takes, TakesSet
    <3>2. SetPost(x) \/ DeletePost(x)
      BY <1>1, <2>3, CallIs
    <3> QED BY <1>2, <3>1, <3>2, Harmless DEF StoreNext, SomePut
  <2>4. CASE call \in {"SetStatus", "SetOneUser"}
    <3>1. x \in Users
      BY <1>1, <2>4, ArgumentIs DEF Is, Takes, TakesSet
    <3>2. SetStatus(x) \/ SetOneUser(x)
      BY <1>1, <2>4, CallIs
    <3> QED BY <1>2, <3>1, <3>2, Harmless DEF StoreNext, SomePut
  <2>5. CASE call = "SetTeams"
    <3>1. x \in SUBSET Teams
      BY <1>1, <2>5, ArgumentIs DEF Is, Takes, TakesSet
    <3>2. SetTeams(x)
      BY <1>1, <2>5, CallIs
    <3> QED BY <1>2, <3>1, <3>2, Harmless DEF StoreNext, SomeMap
  <2>6. CASE call \in {"SetTeam", "SetTeamMember", "SetCurrentTeam"}
    <3>1. x \in Teams
      BY <1>1, <2>6, ArgumentIs DEF Is, Takes, TakesSet
    <3>2. SetTeam(x) \/ SetTeamMember(x) \/ SetCurrentTeam(x)
      BY <1>1, <2>6, CallIs
    <3> QED BY <1>2, <3>1, <3>2, Harmless DEF StoreNext, SomeMap
  <2>7. CASE call = "SetProfileImage"
    <3>1. x \in Users
      BY <1>1, <2>7, ArgumentIs DEF Is, Takes, TakesSet
    <3>2. SetProfileImage(x)
      BY <1>1, <2>7, CallIs
    <3> QED BY <1>2, <3>1, <3>2, Harmless DEF StoreNext, SomeMap
  <2>8. CASE call \in {"SetReaction", "DeleteReaction"}
    <3>1. x \in Users /\ reg[t].post \in Posts
      BY <1>1, <2>8, ArgumentIs
    <3>2. SetReaction(reg[t].post, x) \/ DeleteReaction(reg[t].post, x)
      BY <1>1, <2>8, CallIs
    <3> QED BY <1>2, <3>1, <3>2, Harmless DEF StoreNext, SomeMap
  <2> QED BY <1>5, <2>1, <2>2, <2>3, <2>4, <2>5, <2>6, <2>7, <2>8
<1>6. ASSUME call \in {"SetOneMember", "SetChannelMember"}
      PROVE  Sound(t) /\ store.views \subseteq store'.views
  <2>1. PICK c \in Channels, u \in Users :
          /\ u = Me => c \in server.joined
          /\ SetOneMember(c, u) \/ SetChannelMember(c, u)
    <3>1. CASE call = "SetOneMember"
      <4>1. SetOneMember(x[1], x[2]) /\ Is("member", x, t)
        BY <1>1, <3>1, CallIs, ArgumentIs DEF Takes, TakesSet
      <4>2. x[1] \in Channels /\ x[2] \in Users /\ (x[2] = Me => x[1] \in server.joined)
        BY <4>1 DEF Is, Joined
      <4> QED BY <4>1, <4>2
    <3>2. CASE call = "SetChannelMember"
      <4>1. SetChannelMember(x, Me) /\ Is("joined", x, t)
        BY <1>1, <3>2, CallIs, ArgumentIs DEF Takes, TakesSet
      <4>2. x \in server.joined /\ x \in Channels
        BY <1>2, <4>1 DEF Is, Joined, ServerOK
      <4> QED BY <4>1, <4>2, ServerAssumption
    <3> QED BY <1>6, <3>1, <3>2
  <2>2. StoreNext /\ store' = Putting("members", <<c, u>>)
    BY <2>1 DEF StoreNext, SomePut, SetOneMember, SetChannelMember
  <2>3. /\ store'.views = store.views /\ store'.channels = store.channels
        /\ store'.currentChannel = store.currentChannel
        /\ store'.queue["members"] = Put(store.queue["members"], <<c, u>>, MaxStoredChannelMembers)
    BY <1>2, <2>2 DEF Putting, Rest, Size
  <2>4. Stored(store'.queue["members"]) \subseteq Stored(store.queue["members"]) \union {<<c, u>>}
    BY <1>2, <2>3, StoredAfter
  <2>5. \A d \in Channels : IsMember(d)' => IsMember(d) \/ d \in server'.joined
    BY <2>1, <2>4 DEF IsMember
  <2> QED BY <1>3, <2>2, <2>3, <2>5 DEF Sound
<1>7. ASSUME call \in {"SetChannel", "SetChannelView", "SetCurrentChannel"}
      PROVE  /\ Sound(t) /\ store.views \subseteq store'.views
             /\ call = "SetChannelView" => x \in store'.views
  <2>1. /\ call \in {"SetChannel", "SetChannelView"} => x \in server.channels
        /\ call = "SetCurrentChannel" => kind = "simul" /\ x \in store.views /\ x \in server.joined
    <3>1. call \in {"SetChannel", "SetChannelView"} => Is("channel", x, t)
      BY <1>1, ArgumentIs DEF Takes, TakesSet
    <3>2. call = "SetCurrentChannel" => kind = "simul" /\ Is("joined", x, t) /\ Is("viewed", x, t)
      BY <1>1, ArgumentIs DEF Takes, TakesSet
    <3> QED BY <3>1, <3>2 DEF Is, Joined, Viewed
  <2>2. x \in Channels
    BY <1>2, <1>7, <2>1 DEF ServerOK
  <2>3. /\ call = "SetChannel" => SetChannel(x)
        /\ call = "SetChannelView" => SetChannelView(x)
        /\ call = "SetCurrentChannel" => SetCurrentChannel(x)
    BY <1>1, CallIs
  <2>4. StoreNext
    BY <1>7, <2>2, <2>3 DEF StoreNext, SomeMap
  <2>5. store'.queue = store.queue
    BY <1>2, <1>7, <2>3 DEF SetChannel, SetChannelView, SetCurrentChannel, Rest
  <2>6. \A c \in Channels : IsMember(c)' => IsMember(c)
    BY <2>5 DEF IsMember
  <2>7. CASE call = "SetChannel"
    <3>1. /\ store'.views = store.views /\ store'.channels = store.channels \union {x}
          /\ store'.currentChannel = store.currentChannel
      BY <1>2, <2>3, <2>7 DEF SetChannel, Rest
    <3> QED BY <1>3, <2>1, <2>4, <2>6, <2>7, <3>1 DEF Sound
  <2>8. CASE call = "SetChannelView"
    <3>1. /\ store'.views = store.views \union {x} /\ store'.channels = store.channels
          /\ store'.currentChannel = store.currentChannel
      BY <1>2, <2>3, <2>8 DEF SetChannelView, Rest
    <3> QED BY <1>3, <2>4, <2>6, <3>1 DEF Sound
  <2>9. CASE call = "SetCurrentChannel"
    <3>1. /\ store'.views = store.views /\ store'.channels = store.channels
          /\ store'.currentChannel = x
      BY <1>2, <2>3, <2>9 DEF SetCurrentChannel, Rest
    <3> QED BY <1>3, <2>1, <2>4, <2>6, <2>9, <3>1 DEF Sound
  <2> QED BY <1>7, <2>7, <2>8, <2>9
<1>8. ASSUME call = "Clear" PROVE Sound(t)
  <2>1. Clear /\ t = "main"
    BY <1>8, CallIs, ArgumentIs
  <2>2. /\ store'.channels = {} /\ store'.currentChannel = store.currentChannel
        /\ store'.queue["members"] = Reset(store.queue["members"])
    BY <1>2, <2>1 DEF Clear, New
  <2>3. ASSUME NEW c \in Channels PROVE ~IsMember(c)'
    <3>1. <<c, Me>> \in Channels \X Users
      BY ServerAssumption
    <3>2. Stored(store'.queue["members"]) = {}
      BY <1>2, <2>2, <3>1, StoredAfter
    <3> QED BY <3>2 DEF IsMember
  <2> QED BY <1>3, <2>1, <2>2, <2>3 DEF Sound, StoreNext
<1>9. \/ call \in {"Lock", "Unlock", "SetUser", "SetPreferences", "SetPost", "DeletePost",
                   "SetStatus", "SetOneUser", "SetTeams", "SetTeam", "SetTeamMember",
                   "SetProfileImage", "SetCurrentTeam", "SetReaction", "DeleteReaction"}
      \/ call \in {"SetOneMember", "SetChannelMember", "SetChannel", "SetChannelView",
                   "SetCurrentChannel", "Clear"}
  BY ArgumentIs DEF Takes
<1> QED BY <1>1, <1>4, <1>5, <1>6, <1>7, <1>8, <1>9

(* A fact that is not about what was viewed outlasts the store.            *)
LEMMA NotOfViews ==
  ASSUME NEW t, UNCHANGED <<server, kind, reg>>, NEW f, Fact(f, t), f[2] # "viewed"
  PROVE  Fact(f, t)'
<1>1. ASSUME NEW k, k # "viewed", NEW x, Is(k, x, t) PROVE Is(k, x, t)'
  <2>1. CASE k \in {"team", "channel", "joined", "post", "user"}
    BY <1>1, <2>1 DEF Is, Joined
  <2>2. CASE k \in {"cred", "member", "direct", "pref"}
    BY <1>1, <2>2 DEF Is, Joined
  <2> QED BY <1>1, <2>1, <2>2 DEF Is
<1>2. CASE f[1] = "here"
  BY <1>2 DEF Fact, Registers
<1>3. CASE f[1] = "got"
  BY <1>1, <1>3 DEF Fact
<1>4. CASE f[1] = "nonempty"
  BY <1>4 DEF Fact, Registers
<1>5. CASE f[1] = "left"
  BY <1>1, <1>5 DEF Fact, Registers
<1>6. CASE f[1] \in Registers \union {"item"}
  <2>1. Is(f[2], reg[t][f[1]], t) /\ f[1] \notin {"here", "got", "nonempty", "left"}
    BY <1>6 DEF Fact, Registers
  <2>2. Is(f[2], reg[t][f[1]], t)'
    BY <1>1, <2>1
  <2> QED BY <1>6, <2>1, <2>2 DEF Fact
<1> QED BY <1>2, <1>3, <1>4, <1>5, <1>6 DEF Fact

LEMMA CallStep ==
  ASSUME SessionInv, NEW t \in Threads, Judged(t), CallStore(t) PROVE Right(t)
<1>0. /\ todo[t] # <<>> /\ Head(todo[t]).op = "do" /\ UNCHANGED <<reg, catch, outside>>
      /\ Continue(t, Tail(todo[t]))
  BY DEF CallStore, Op
<1>1. PICK i : i = Head(todo[t])
  OBVIOUS
<1>2. PICK E, M, I, W : At(t, E, M, I, W)
  BY <1>0, AtFirst
<1>3. Knows(t, E) /\ Typed(Tail(todo[t]), M, {}) /\ DoFits(i, E, M)
  BY <1>0, <1>1, <1>2, FitsOp DEF At
<1>4. MayCall(i.call, i.arg, E) /\ M \subseteq Called(i.call, i.arg, E)
  BY <1>3 DEF DoFits
<1>5. PICK x : x = Argument(t, i.arg)
  OBVIOUS
<1>6. Call(i.call, x, reg[t]) /\ UNCHANGED <<server, kind>>
  BY <1>0, <1>1, <1>5 DEF CallStore, Argument, outside
<1>7. /\ Sound(t)
      /\ i.call # "Clear" => store.views \subseteq store'.views
      /\ i.call = "SetChannelView" => x \in store'.views
  BY <1>3, <1>4, <1>5, <1>6, CallSound
<1>8. Knows(t, M)'
  <2>1. CASE i.call # "Clear"
    <3>1. Keeps(t)
      BY <1>6, <1>7, <2>1 DEF Sound, Keeps, Joined, Viewed
    <3>2. Knows(t, E)'
      BY <1>0, <1>3, <3>1, AllKept
    <3>3. CASE i.call = "SetChannelView"
      <4>1. i.arg \in Registers \union {"item"}
        BY <1>4, <3>3 DEF MayCall, Takes, TakesSet
      <4>2. reg'[t][i.arg] \in store'.views /\ t = "main"
        <5>1. x = reg[t][i.arg]
          BY <1>5, <4>1 DEF Argument, Registers
        <5> QED BY <1>0, <1>3, <1>4, <1>7, <3>3, <5>1, ArgumentIs
      <4>3. Fact(<<i.arg, "viewed">>, t)'
        BY <4>1, <4>2, FactsOf DEF Is, Viewed
      <4>4. M \subseteq E \union {<<i.arg, "viewed">>}
        BY <1>4, <3>3 DEF Called
      <4> QED BY <3>2, <4>3, <4>4 DEF Knows
    <3>4. CASE i.call # "SetChannelView"
      BY <1>4, <2>1, <3>2, <3>4 DEF Called, Knows
    <3> QED BY <3>3, <3>4
  <2>2. CASE i.call = "Clear"
    <3>1. M \subseteq {f \in E : f[2] # "viewed"}
      BY <1>4, <2>2 DEF Called
    <3> SUFFICES ASSUME NEW f \in M PROVE Fact(f, t)'
      BY DEF Knows
    <3>2. Fact(f, t) /\ f[2] # "viewed"
      BY <1>3, <3>1 DEF Knows
    <3> QED BY <1>0, <1>6, <3>2, NotOfViews
  <2> QED BY <2>1, <2>2
<1>9. /\ todo'[t] = Tail(todo[t]) /\ DOMAIN todo' = Threads
      /\ \A s \in Threads \ {t} : todo'[s] = todo[s]
  BY <1>0, GoesOn DEF SessionInv
<1>10. Judged(t)'
  BY <1>3, <1>8, <1>9 DEF Judged
<1>11. Only(t)
  BY <1>0, <1>9 DEF Only, SessionInv, Control
<1>12. CatchOK(t)' /\ RegOK(t)'
  BY <1>0, <1>6, ThisKept DEF CatchOK, RegOK, SessionInv, Goroutine
<1>13. Control'
  BY <1>0, <1>11, ControlKept DEF SessionInv, Control, outside
<1> QED BY <1>7, <1>10, <1>11, <1>12, <1>13 DEF Right

-----------------------------------------------------------------------------
(* LeaveChannel, step by step.                                             *)
LEMMA LeaveIs ==
  /\ Leave # <<>> /\ Tail(Leave) = Info
  /\ Head(Leave) = [op |-> "ask", what |-> "leaveChannel", arg |-> "chan",
                    then |-> Do("RemoveChannelMember", "chan")]
  /\ Head(Leave).then \o Tail(Leave) = ForgetMember
<1> DEFINE a == [op |-> "ask", what |-> "leaveChannel", arg |-> "chan",
                 then |-> Do("RemoveChannelMember", "chan")]
<1>1. Leave = <<a>> \o Info
  BY Words DEF Leave, U!RemoveUserFromChannel, Ask
<1>2. Info \in Seq({[op |-> "info"]})
  BY DEF Info
<1> HIDE DEF a
<1>3. Leave # <<>> /\ Tail(Leave) = Info /\ Head(Leave) = a
  BY <1>1, <1>2, OneThen
<1>4. Do("RemoveChannelMember", "chan") \o Info = ForgetMember
  BY Words DEF ForgetMember
<1>5. Head(Leave).then = Do("RemoveChannelMember", "chan")
  BY <1>3 DEF a
<1>6. Head(Leave).then \o Tail(Leave) = ForgetMember
  BY <1>3, <1>4, <1>5
<1> QED BY <1>3, <1>6 DEF a

LEMMA LeaveChannelIs ==
  /\ LeaveChannel # <<>> /\ Tail(LeaveChannel) = Leave
  /\ Head(LeaveChannel) = [op |-> "pick", into |-> "chan", from |-> "channelsToLeave", none |-> Info]
<1> DEFINE a == [op |-> "pick", into |-> "chan", from |-> "channelsToLeave", none |-> Info]
           b == [op |-> "ask", what |-> "leaveChannel", arg |-> "chan",
                 then |-> Do("RemoveChannelMember", "chan")]
           c == [op |-> "info"]
<1>1. LeaveChannel = (<<a>> \o <<b>>) \o <<c>>
  BY Words DEF LeaveChannel, U!RemoveUserFromChannel, Ask, Pick, Info
<1>2. Leave = <<b>> \o <<c>>
  BY Words DEF Leave, U!RemoveUserFromChannel, Ask, Info
<1> HIDE DEF a, b, c
<1>3. <<a>> \in Seq({a, b, c}) /\ <<b>> \in Seq({a, b, c}) /\ <<c>> \in Seq({a, b, c})
  OBVIOUS
<1>4. <<a>> \o <<b>> # <<>> /\ Head(<<a>> \o <<b>>) = a /\ Tail(<<a>> \o <<b>>) = <<b>>
  BY <1>3, OneThen
<1>5. <<a>> \o <<b>> \in Seq({a, b, c})
  BY <1>3, ConcatProperties
<1> QED BY <1>1, <1>2, <1>3, <1>4, <1>5, HeadTailConcat DEF a

(* The user chooses a channel, or has none to leave.                       *)
LEMMA LeaveChooses ==
  ASSUME SessionInv, kind = "simple", todo["main"] = LeaveChannel, Select("main")
  PROVE  SessionInv'
<1> DEFINE t == "main"
<1>0. /\ t \in Threads /\ todo[t] # <<>> /\ UNCHANGED <<store, catch, outside>>
      /\ Control /\ RegOK(t) /\ CatchOK(t)
  BY LeaveChannelIs DEF Select, Threads, SessionInv, Goroutine
<1>1. PICK S : S = Choices("channelsToLeave", reg[t])
  OBVIOUS
<1>2. Choose(t, "chan", S, Info)
  <2>1. PICK i : i = Head(todo[t])
    OBVIOUS
  <2>2. i.op = "pick" /\ i.into = "chan" /\ i.from = "channelsToLeave" /\ i.none = Info
    BY <2>1, LeaveChannelIs
  <2>3. Choose(t, i.into, Choices(i.from, reg[t]), i.none)
    BY <2>1, <2>2 DEF Select
  <2> QED BY <1>1, <2>2, <2>3
<1>3. ~Leaving
  BY LeavingIs, LeaveChannelIs
<1>4. Sound(t) /\ Keeps(t)
  BY <1>0, SoundStill DEF SessionInv, outside
<1>5. ASSUME NEW x \in S, Set(t, "chan", x), Continue(t, Leave)
      PROVE  SessionInv'
  <2>1. x \in server.channels
    <3>1. x \in store.channels
      BY <1>1 DEF Choices
    <3> QED BY <3>1 DEF SessionInv, Known
  <2>2. PICK G, K : G = {} /\ K = {"channel"}
    OBVIOUS
  <2>3. Knows(t, G) /\ \A k \in K : Is(k, x, t)'
    BY <1>4, <2>1, <2>2 DEF Knows, Is, Keeps
  <2>10. /\ Knows(t, Kill(G, {"chan"}) \union About("chan", K))'
         /\ RegOK(t)' /\ DOMAIN reg' = Threads
         /\ \A s \in Threads \ {t} : reg'[s] = reg[s]
    <3>1. "chan" \in Registers \union {"item"}
      BY DEF Registers
    <3> QED BY <1>0, <1>4, <1>5, <2>3, <3>1, NewValue
  <2>4. reg'[t].chan \in server'.channels
    <3>1. <<"chan", "channel">> \in About("chan", K)
      BY <2>2 DEF About
    <3>2. Fact(<<"chan", "channel">>, t)'
      BY <2>10, <3>1 DEF Knows
    <3>3. Is("channel", reg[t].chan, t)'
      BY <3>2, FactsOf DEF Registers
    <3> QED BY <3>3 DEF Is
  <2>5. /\ todo'[t] = Leave /\ DOMAIN todo' = Threads
        /\ \A s \in Threads \ {t} : todo'[s] = todo[s]
    BY <1>0, <1>5, GoesOn
  <2>6. Only(t)
    BY <1>0, <2>10, <2>5 DEF Only, Control
  <2>7. Leaves'
    BY <1>0, <2>4, <2>5 DEF Leaves, outside, Leave
  <2>8. CatchOK(t)'
    BY <1>0, ThisKept DEF CatchOK, outside
  <2>9. Control'
    BY <1>0, <2>6, ControlKept DEF outside, Control
  <2> QED BY <1>0, <1>3, <1>4, <2>10, <2>6, <2>7, <2>8, <2>9, StepKeepsSession DEF Goroutine
<1>6. CASE Continue(t, Info) /\ UNCHANGED reg
  <2>1. /\ todo'[t] = Info /\ DOMAIN todo' = Threads
        /\ \A s \in Threads \ {t} : todo'[s] = todo[s]
    BY <1>0, <1>6, GoesOn
  <2>2. Typed(Info, {}, {}) /\ Knows(t, {})'
    BY OthersTyped DEF Knows
  <2>3. Right(t)
    BY <1>0, <1>6, <2>1, <2>2, QuietStep DEF SessionInv, Control, RegOK, outside
  <2> QED BY <1>0, <1>3, <2>3, StepKeepsSession DEF Right, Goroutine
<1> QED BY <1>2, <1>5, <1>6, LeaveChannelIs DEF Choose

(* The server lets the user go.                                            *)
LEMMA LeaveTold ==
  ASSUME SessionInv, kind = "simple", todo["main"] = Leave, reg["main"].chan \in server.channels,
         Answered("main")
  PROVE  SessionInv'
<1> DEFINE t == "main"
<1>0. /\ t \in Threads /\ todo[t] # <<>> /\ Control /\ RegOK(t) /\ CatchOK(t)
      /\ UNCHANGED <<store, catch, connected, kind, script, budget, panicked>>
  BY LeaveIs DEF Answered, Threads, SessionInv, Goroutine
<1>1. ~Leaving
  BY LeavingIs, LeaveIs
<1>2. PICK got : /\ Set(t, "got", got)
                 /\ server' = ServerAfter("leaveChannel", reg[t], got)
                 /\ Continue(t, ForgetMember)
  <2>1. PICK i : i = Head(todo[t])
    OBVIOUS
  <2>2. i.what = "leaveChannel" /\ i.then \o Tail(todo[t]) = ForgetMember
    BY <2>1, LeaveIs
  <2>3. PICK got : /\ Set(t, "got", got)
                   /\ server' = ServerAfter(i.what, reg[t], got)
                   /\ Continue(t, i.then \o Tail(todo[t]))
    BY <2>1 DEF Answered
  <2> QED BY <2>2, <2>3
<1>3. server' = [server EXCEPT !.joined = server.joined \ {reg[t].chan}]
  BY <1>2 DEF ServerAfter, ChannelTypes
<1>4. /\ ServerOK' /\ server'.channels = server.channels
      /\ server'.joined = server.joined \ {reg[t].chan}
  BY <1>3 DEF SessionInv, ServerOK
<1>5. /\ reg'[t].chan = reg[t].chan /\ RegOK(t)' /\ DOMAIN reg' = Threads
      /\ \A s \in Threads \ {t} : reg'[s] = reg[s]
  <2>1. reg' = [reg EXCEPT ![t] = [reg[t] EXCEPT !["got"] = got]] /\ DOMAIN reg = Threads
        /\ DOMAIN reg[t] = DOMAIN Blank
    BY <1>0, <1>2 DEF Set, Control, RegOK
  <2>2. /\ \A q \in DOMAIN Blank \ {"got"} : reg'[t][q] = reg[t][q]
        /\ DOMAIN reg'[t] = DOMAIN Blank /\ DOMAIN reg' = Threads
        /\ \A s \in Threads \ {t} : reg'[s] = reg[s]
    BY <2>1
  <2>3. Sets \union {"chan"} \subseteq DOMAIN Blank \ {"got"}
    BY DEF Sets, Blank
  <2> QED BY <1>0, <2>2, <2>3 DEF RegOK
<1>6. /\ todo'[t] = ForgetMember /\ DOMAIN todo' = Threads
      /\ \A s \in Threads \ {t} : todo'[s] = todo[s]
  BY <1>0, <1>2, GoesOn
<1>7. Only(t)
  BY <1>0, <1>5, <1>6 DEF Only, Control
<1>8. Leaving'
  BY <1>0, <1>4, <1>5, <1>6 DEF Leaving, ForgetMember
<1>9. Goroutine(t)'
  <2>1. CatchOK(t)'
    BY <1>0, ThisKept DEF CatchOK
  <2> QED BY <1>5, <1>8, <2>1 DEF Goroutine, Leaves, Leaving
<1>10. ASSUME NEW s \in Threads \ {t} PROVE Keeps(s)
  BY <1>0, <1>4 DEF Keeps, Joined, Viewed
<1>11. Known'
  <2>1. store'.channels \subseteq server'.channels
        /\ (store'.currentChannel # None =>
              kind' = "simul" /\ store'.currentChannel \in server'.joined)
    BY <1>0, <1>4 DEF SessionInv, Known
  <2>2. ASSUME NEW c \in Channels, IsMember(c)'
        PROVE  c \in server'.joined \/ c = reg'[t].chan
    <3>1. IsMember(c)
      BY <1>0, <2>2 DEF IsMember
    <3>2. c \in server.joined
      BY <1>1, <3>1 DEF SessionInv, Known
    <3> QED BY <1>4, <1>5, <3>2
  <2> QED BY <1>8, <2>1, <2>2 DEF Known
<1>12. Control'
  BY <1>0, <1>7, ControlKept DEF Control
<1>13. StoreInv'
  BY <1>0, StoreInvStep DEF SessionInv
<1>14. \A s \in Threads : Goroutine(s)'
  BY <1>0, <1>7, <1>9, <1>10, OthersGoOn
<1> QED BY <1>4, <1>11, <1>12, <1>13, <1>14 DEF SessionInv

(* Every step is a step of the store, or none, and views what it enters.   *)
StoreStep ==
  /\ [StoreNext]_store
  /\ store'.currentChannel # store.currentChannel => store'.currentChannel \in store'.views

(* The store forgets the membership.                                       *)
LEMMA LeaveForgotten ==
  ASSUME SessionInv, kind = "simple", todo["main"] = ForgetMember,
         reg["main"].chan \in server.channels, CallStore("main")
  PROVE  SessionInv' /\ StoreStep
<1> DEFINE t == "main"
<1>0. /\ t \in Threads /\ todo[t] # <<>> /\ Control /\ RegOK(t) /\ CatchOK(t)
      /\ UNCHANGED <<reg, catch, outside>> /\ Continue(t, Info)
  BY ForgetMemberIs DEF CallStore, Threads, SessionInv, Goroutine
<1>1. PICK c \in Channels : c = reg[t].chan
  BY DEF SessionInv, ServerOK
<1>2. RemoveChannelMember(c, Me)
  <2>1. Call("RemoveChannelMember", reg[t].chan, reg[t])
    BY ForgetMemberIs DEF CallStore
  <2> QED BY <1>1, <2>1, CallIs
<1>3. StoreNext
  BY <1>2, ServerAssumption DEF StoreNext, SomePut
<1>4. /\ store'.channels = store.channels /\ store'.currentChannel = store.currentChannel
      /\ store'.views = store.views
      /\ Stored(store'.queue["members"]) \subseteq Stored(store.queue["members"]) \ {<<c, Me>>}
  <2>1. /\ "members" \in Queues /\ Keys["members"] = Channels \X Users
        /\ Size["members"] = MaxStoredChannelMembers
    BY DEF Queues, Keys, Size
  <2>2. store.queue["members"] \in Queue(Channels \X Users, MaxStoredChannelMembers) /\ Rest
    BY <2>1 DEF SessionInv, StoreInv, QueuesOK
  <2>3. <<c, Me>> \in Channels \X Users /\ MaxStoredChannelMembers \in Nat \ {0}
    BY ServerAssumption, ConfigIsValid
  <2>4. /\ store'.channels = store.channels /\ store'.currentChannel = store.currentChannel
        /\ store'.views = store.views
        /\ store'.queue["members"] = Delete(store.queue["members"], <<c, Me>>)
    BY <1>2, <2>1, <2>2 DEF RemoveChannelMember, Rest
  <2> QED BY <2>2, <2>3, <2>4, StoredAfter
<1>5. /\ todo'[t] = Info /\ DOMAIN todo' = Threads
      /\ \A s \in Threads \ {t} : todo'[s] = todo[s]
  BY <1>0, GoesOn
<1>6. Only(t)
  BY <1>0, <1>5 DEF Only, Control
<1>7. Goroutine(t)'
  <2>1. CatchOK(t)' /\ RegOK(t)'
    BY <1>0, ThisKept DEF CatchOK, RegOK, outside
  <2>2. Typed(Info, {}, {}) /\ Knows(t, {})'
    BY OthersTyped DEF Knows
  <2> QED BY <1>5, <2>1, <2>2 DEF Goroutine, Judged
<1>8. ASSUME NEW s \in Threads \ {t} PROVE Keeps(s)
  BY <1>0, <1>4 DEF Keeps, Joined, Viewed, outside
<1>9. Known'
  <2>1. store'.channels \subseteq server'.channels
        /\ (store'.currentChannel # None =>
              kind' = "simul" /\ store'.currentChannel \in server'.joined)
    BY <1>0, <1>4 DEF SessionInv, Known, outside
  <2>2. ASSUME NEW d \in Channels, IsMember(d)' PROVE d \in server'.joined
    <3>1. IsMember(d) /\ d # c
      BY <1>4, <2>2 DEF IsMember
    <3>2. d \in server.joined \/ d = reg[t].chan
      BY <3>1 DEF SessionInv, Known
    <3> QED BY <1>0, <1>1, <3>1, <3>2 DEF outside
  <2> QED BY <2>1, <2>2 DEF Known
<1>10. Control'
  BY <1>0, <1>6, ControlKept DEF Control, outside
<1>11. StoreInv' /\ ServerOK'
  BY <1>0, <1>3, StoreInvStep DEF SessionInv, ServerOK, outside
<1>12. \A s \in Threads : Goroutine(s)'
  BY <1>0, <1>6, <1>7, <1>8, OthersGoOn
<1> QED BY <1>3, <1>4, <1>9, <1>10, <1>11, <1>12 DEF SessionInv, StoreStep

LEMMA LeavesStep ==
  ASSUME SessionInv, Leaves, Step("main") PROVE SessionInv' /\ StoreStep
<1> DEFINE t == "main"
<1>1. t \in Threads /\ todo[t] \in {LeaveChannel, Leave, ForgetMember}
  BY DEF Leaves, Threads
<1>2. UNCHANGED store => StoreStep
  BY DEF StoreStep
<1>3. CASE todo[t] = LeaveChannel
  <2>1. Head(todo[t]).op = "pick"
    BY <1>3, LeaveChannelIs
  <2>2. Select(t)
    BY <2>1 DEF Step, Answered, Refused, RefusedUnnoticed, CallStore, Loop, Look, Branch, Jump,
      End, Link, Op
  <2> QED BY <1>2, <1>3, <2>2, LeaveChooses DEF Leaves, Select
<1>4. CASE todo[t] = Leave
  <2>1. Head(todo[t]).op = "ask"
    BY <1>4, LeaveIs
  <2>2. Answered(t) \/ Refused(t)
    BY <2>1 DEF Step, Select, RefusedUnnoticed, CallStore, Loop, Look, Branch, Jump, End, Link, Op
  <2>3. CASE Answered(t)
    <3>1. kind = "simple" /\ reg[t].chan \in server.channels
      <4>1. todo[t] # LeaveChannel
        BY <2>1, LeaveChannelIs
      <4> QED BY <4>1 DEF Leaves
    <3> QED BY <1>2, <1>4, <2>3, <3>1, LeaveTold DEF Answered
  <2>4. CASE Refused(t)
    <3>1. Right(t) /\ UNCHANGED store
      BY <1>1, <2>4, RefusedStep DEF Refused
    <3>2. ~Leaving
      BY <2>1, LeavingIs
    <3> QED BY <1>1, <1>2, <3>1, <3>2, StepKeepsSession DEF Right, Goroutine
  <2> QED BY <2>2, <2>3, <2>4
<1>5. CASE todo[t] = ForgetMember
  <2>1. Head(todo[t]).op = "do"
    BY <1>5, ForgetMemberIs
  <2>2. CallStore(t)
    BY <2>1 DEF Step, Answered, Refused, Select, RefusedUnnoticed, Loop, Look, Branch, Jump, End,
      Link, Op
  <2>3. kind = "simple" /\ reg[t].chan \in server.channels
    <3>1. todo[t] # LeaveChannel
      BY <2>1, LeaveChannelIs
    <3> QED BY <3>1 DEF Leaves
  <2> QED BY <1>5, <2>2, <2>3, LeaveForgotten
<1> QED BY <1>1, <1>3, <1>4, <1>5

-----------------------------------------------------------------------------
(* Every step.                                                             *)
LEMMA JudgedStep ==
  ASSUME SessionInv, NEW t \in Threads, Judged(t), Step(t) PROVE Right(t)
BY AnsweredStep, RefusedStep, RefusedUnnoticedStep, CallStep, SelectStep, LoopStep, LookStep,
   BranchStep, JumpStep, EndStep, LinkStep DEF Step

LEMMA SessionStep ==
  ASSUME SessionInv, NEW t \in Threads, Step(t) PROVE SessionInv' /\ StoreStep
<1>1. CASE t = "main" /\ Leaves
  BY <1>1, LeavesStep
<1>2. CASE ~(t = "main" /\ Leaves)
  <2>1. Judged(t)
    BY <1>2 DEF SessionInv, Goroutine
  <2>2. Right(t)
    BY <2>1, JudgedStep
  <2>3. t = "main" => ~Leaving
    BY <1>2 DEF Leaves, Leaving
  <2>4. StoreStep
    BY <2>2 DEF Right, Sound, StoreStep
  <2> QED BY <2>2, <2>3, <2>4, StepKeepsSession DEF Right, Goroutine
<1> QED BY <1>1, <1>2

LEMMA BeginStep ==
  ASSUME SessionInv, Begin PROVE SessionInv' /\ StoreStep
<1> DEFINE t == "main"
<1>0. /\ t \in Threads /\ todo[t] = <<>> /\ script # <<>> /\ Head(script) # "others"
      /\ UNCHANGED <<store, reg, catch, outside>> /\ Control /\ RegOK(t) /\ CatchOK(t)
  BY DEF Begin, Threads, SessionInv, Goroutine
<1>1. PICK name : name = Head(script)
  OBVIOUS
<1>2. name \in Actions[kind] /\ kind \in {"simul", "simple"}
  <2>1. Head(script) \in Actions[kind] \union {"others"}
    BY <1>0 DEF Control
  <2> QED BY <1>0, <1>1, <2>1 DEF Control, Actions
<1>3. /\ todo'[t] = Program(name) /\ DOMAIN todo' = Threads
      /\ \A s \in Threads \ {t} : todo'[s] = todo[s]
  BY <1>0, <1>1, GoesOn DEF Begin
<1>4. Only(t)
  BY <1>0, <1>3 DEF Only, Control
<1>5. Sound(t)
  BY <1>0, SoundStill DEF SessionInv, outside
<1>6. CatchOK(t)' /\ RegOK(t)'
  BY <1>0, ThisKept DEF CatchOK, RegOK, outside
<1>7. Control'
  BY <1>0, <1>3 DEF Control, outside
<1>8. Judged(t)' \/ Leaves'
  <2>1. CASE kind = "simul"
    <3>1. Typed(Program(name), Simul, {})
      BY <1>2, <2>1, SimulPrograms
    <3>2. Fact(IsMain, t)' /\ Fact(IsSimul, t)'
      BY <1>0, <2>1 DEF Fact, IsMain, IsSimul, Registers, outside
    <3>3. Knows(t, Simul)'
      BY <3>2 DEF Knows, Simul
    <3> QED BY <1>3, <3>1, <3>3 DEF Judged
  <2>2. CASE kind = "simple" /\ name # "LeaveChannel"
    <3>1. Typed(Program(name), {IsMain, IsSimple}, {})
      BY <1>2, <2>2, SimplePrograms
    <3>2. Fact(IsMain, t)' /\ Fact(IsSimple, t)'
      BY <1>0, <2>2 DEF Fact, IsMain, IsSimple, Registers, outside
    <3>3. Knows(t, {IsMain, IsSimple})'
      BY <3>2 DEF Knows
    <3> QED BY <1>3, <3>1, <3>3 DEF Judged
  <2>3. CASE kind = "simple" /\ name = "LeaveChannel"
    <3>1. Program(name) = LeaveChannel
      BY <2>3 DEF Program
    <3> QED BY <1>0, <1>3, <2>3, <3>1 DEF Leaves, outside
  <2> QED BY <1>2, <2>1, <2>2, <2>3
<1>9. ~Leaving
  BY <1>0, LeavingIs
<1> QED BY <1>0, <1>4, <1>5, <1>6, <1>7, <1>8, <1>9, StepKeepsSession DEF Goroutine, StoreStep

LEMMA PickActionsStep ==
  ASSUME SessionInv, PickActions PROVE SessionInv' /\ StoreStep
<1> DEFINE t == "main"
<1>0. /\ t \in Threads /\ script = <<"others">> /\ Control /\ RegOK(t) /\ CatchOK(t)
      /\ UNCHANGED <<store, machine, server, connected, kind, panicked>>
  BY DEF PickActions, Threads, SessionInv, Goroutine
<1>1. PICK s \in Scripts : s.kind = kind /\ script' = s.actions /\ budget' = s.events
  BY DEF PickActions
<1>2. script' \in Seq(Actions[kind]) /\ budget' \in Nat
  BY <1>1, SessionAssumption
<1>3. todo[t] = <<>>
  BY <1>0 DEF Control
<1>4. Only(t) /\ Sound(t) /\ Keeps(t)
  BY <1>0, SoundStill DEF Only, SessionInv, Control, machine
<1>5. CatchOK(t)' /\ RegOK(t)'
  BY <1>0, ThisKept DEF CatchOK, RegOK, machine
<1>6. Judged(t)'
  <2>1. Typed(<<>>, {}, {}) /\ Knows(t, {})'
    BY Nothing DEF Knows
  <2> QED BY <1>0, <1>3, <2>1 DEF Judged, machine
<1>7. Control'
  <2>1. script' \in Seq(Actions[kind] \union {"others"})
    BY <1>2, SeqMonotonic, Actions[kind] \subseteq Actions[kind] \union {"others"}
  <2> QED BY <1>0, <1>2, <1>3, <2>1 DEF Control, machine
<1>8. ~Leaving
  BY <1>3, LeavingIs
<1> QED BY <1>0, <1>4, <1>5, <1>6, <1>7, <1>8, StepKeepsSession DEF Goroutine, StoreStep

(* What comes from outside wakes a goroutine that has nothing to do.       *)
LEMMA WakeStep ==
  ASSUME SessionInv, NEW t \in Threads \ {"main"}, NEW p, NEW r, NEW s, Wake(t, p, r, s),
         DOMAIN r = DOMAIN Blank, \A n \in Sets : r[n] \subseteq Users,
         ServerOK', s.channels = server.channels, s.joined = server.joined,
         NEW G, Typed(p, G, {}), Knows(t, G)'
  PROVE  SessionInv' /\ StoreStep
<1>0. /\ todo[t] = <<>> /\ budget \in Nat /\ budget > 0 /\ budget' = budget - 1
      /\ Continue(t, p) /\ reg' = [reg EXCEPT ![t] = r] /\ server' = s
      /\ UNCHANGED <<store, catch, connected, kind, script, panicked>>
      /\ Control /\ CatchOK(t)
  BY DEF Wake, SessionInv, Goroutine, Control
<1>1. /\ todo'[t] = p /\ DOMAIN todo' = Threads
      /\ \A u \in Threads \ {t} : todo'[u] = todo[u]
  BY <1>0, GoesOn
<1>2. /\ reg'[t] = r /\ DOMAIN reg' = Threads
      /\ \A u \in Threads \ {t} : reg'[u] = reg[u]
  BY <1>0 DEF Control
<1>3. Only(t)
  BY <1>0, <1>1, <1>2 DEF Only, Control
<1>4. Sound(t)
  <2>1. \A c \in Channels : IsMember(c)' => IsMember(c)
    BY <1>0 DEF IsMember
  <2> QED BY <1>0, <2>1 DEF Sound
<1>5. CatchOK(t)' /\ RegOK(t)'
  BY <1>0, <1>2, ThisKept DEF CatchOK, RegOK
<1>6. Judged(t)'
  BY <1>1 DEF Judged
<1>7. todo'["main"] = todo["main"]
  BY <1>1 DEF Threads
<1>8. Control'
  BY <1>0, <1>1, <1>2, <1>7 DEF Control
<1> QED BY <1>0, <1>3, <1>4, <1>5, <1>6, <1>8, StepKeepsSession DEF Goroutine, StoreStep

LEMMA EventStep ==
  ASSUME SessionInv, PostEvent \/ ReactionEvent \/ UserEvent \/ Tick
  PROVE  SessionInv' /\ StoreStep
<1>0. /\ {"listen", "handler", "periodic"} \subseteq Threads \ {"main"} /\ ServerOK /\ Control
      /\ server.posts \subseteq Posts
  BY DEF Threads, SessionInv, ServerOK
<1>1. /\ DOMAIN Blank = {"team", "chan", "prev", "post", "user", "item", "got", "ids", "users",
                         "noStatus", "noUser"}
      /\ \A n \in Sets : Blank[n] = {}
  BY DEF Blank, Sets
<1>2. CASE UserEvent \/ Tick
  <2>1. PICK t \in Threads \ {"main"}, p \in {typingEvent, sendDirectMessage, getUsersStatuses} :
          Wake(t, p, Blank, server)
    BY <1>0, <1>2 DEF UserEvent, Tick
  <2>2. server' = server
    BY <2>1 DEF Wake
  <2>3. ServerOK'
    BY <1>0, <2>2 DEF ServerOK
  <2>4. PICK G : G = {}
    OBVIOUS
  <2>5. Typed(p, G, {}) /\ Knows(t, G)'
    BY <2>4, Waking DEF Knows
  <2>6. \A n \in Sets : Blank[n] \subseteq Users
    BY <1>1
  <2> QED BY <2>1, <2>3, <2>5, <2>6, WakeStep
<1>3. ASSUME NEW p \in server.posts, NEW r, r = [Blank EXCEPT !.post = p] \/ r = [Blank EXCEPT !.post = p, !.user = Me]
      PROVE  /\ DOMAIN r = DOMAIN Blank /\ \A n \in Sets : r[n] \subseteq Users
             /\ r.post \in Posts
             /\ r = [Blank EXCEPT !.post = p, !.user = Me] => r.user \in Users
  <2>1. DOMAIN r = DOMAIN Blank /\ r.post = p
    BY <1>1, <1>3
  <2>2. \A n \in Sets : r[n] = Blank[n]
    BY <1>1, <1>3 DEF Sets
  <2>3. r = [Blank EXCEPT !.post = p, !.user = Me] => r.user = Me
    BY <1>1
  <2> QED BY <1>0, <1>1, <2>1, <2>2, <2>3, ServerAssumption
<1>4. ASSUME NEW p, NEW r, NEW s, Wake("listen", p, r, s)
      PROVE  reg'["listen"] = r /\ server' = s
  BY <1>0, <1>4 DEF Wake, Control
<1>5. CASE PostEvent
  <2>1. PICK p \in server.posts :
          \/ Wake("listen", U!handlePostEvent, [Blank EXCEPT !.post = p], server)
          \/ Wake("listen", U!handlePostDeleted, [Blank EXCEPT !.post = p],
                  [server EXCEPT !.posts = @ \ {p}, !.deleted = @ \union {p}])
    BY <1>5 DEF PostEvent
  <2>2. PICK r, s, q : /\ r = [Blank EXCEPT !.post = p] /\ Wake("listen", q, r, s)
                       /\ q \in {U!handlePostEvent, U!handlePostDeleted}
                       /\ \/ s = server
                          \/ s = [server EXCEPT !.posts = server.posts \ {p},
                                                !.deleted = server.deleted \union {p}]
    BY <2>1
  <2>3. s.channels = server.channels /\ s.joined = server.joined /\ server' = s
    BY <1>0, <1>4, <2>2 DEF ServerOK
  <2>4. ServerOK'
    <3>1. CASE s = server
      BY <1>0, <2>3, <3>1 DEF ServerOK
    <3>2. CASE s = [server EXCEPT !.posts = server.posts \ {p}, !.deleted = server.deleted \union {p}]
      BY <1>0, <2>3, <3>2 DEF ServerOK
    <3> QED BY <2>2, <3>1, <3>2
  <2>5. PICK G : G = {<<"post", "post">>}
    OBVIOUS
  <2>6. Knows("listen", G)'
    <3>1. Is("post", reg["listen"].post, "listen")'
      BY <1>3, <1>4, <2>2 DEF Is
    <3>2. Fact(<<"post", "post">>, "listen")'
      BY <3>1, FactsOf DEF Registers
    <3> QED BY <2>5, <3>2 DEF Knows
  <2>7. Typed(q, G, {})
    BY <2>2, <2>5, Waking
  <2> QED BY <1>0, <1>3, <2>2, <2>3, <2>4, <2>6, <2>7, WakeStep
<1>6. CASE ReactionEvent
  <2>0. PICK p \in server.posts, call \in {"SetReaction", "DeleteReaction"} :
          Wake("listen", U!handleReactionEvent(call), [Blank EXCEPT !.post = p, !.user = Me], server)
    BY <1>6 DEF ReactionEvent
  <2>1. PICK r : /\ r = [Blank EXCEPT !.post = p, !.user = Me]
                 /\ Wake("listen", U!handleReactionEvent(call), r, server)
    BY <2>0
  <2>2. ServerOK'
    BY <1>0, <1>4, <2>1 DEF ServerOK
  <2>3. PICK G : G = {<<"post", "post">>, <<"user", "user">>}
    OBVIOUS
  <2>4. Knows("listen", G)'
    <3>0. reg'["listen"] = r /\ r.post \in Posts /\ r.user \in Users
      BY <1>3, <1>4, <2>1
    <3>1. Is("post", reg["listen"].post, "listen")' /\ Is("user", reg["listen"].user, "listen")'
      BY <3>0 DEF Is
    <3>2. Fact(<<"post", "post">>, "listen")' /\ Fact(<<"user", "user">>, "listen")'
      BY <3>1, FactsOf DEF Registers
    <3> QED BY <2>3, <3>2 DEF Knows
  <2>5. PICK q : q = U!handleReactionEvent(call)
    OBVIOUS
  <2>6. Typed(q, G, {})
    BY <2>3, <2>5, Waking
  <2> QED BY <1>0, <1>3, <2>1, <2>2, <2>4, <2>5, <2>6, WakeStep
<1> QED BY <1>2, <1>5, <1>6

LEMMA SessionInit == Init => SessionInv
<1> SUFFICES ASSUME Init PROVE SessionInv
  OBVIOUS
<1>1. StoreInv
  BY StoreInvInit DEF Init
<1>2. ServerOK
  <2>1. PICK others \in SUBSET {c \in Channels \ DefaultChannels : ChannelType[c] = "Public"} :
          server = [teams |-> {}, channels |-> DefaultChannels \union others, joined |-> {},
                    posts |-> {p \in Posts : PostUser[p] # Me}, deleted |-> {}, prefs |-> {}]
    BY DEF Init
  <2> QED BY <2>1, SessionAssumption DEF ServerOK
<1>3. /\ DOMAIN reg = Threads /\ DOMAIN todo = Threads /\ DOMAIN catch = Threads
      /\ \A t \in Threads : todo[t] = <<>> /\ reg[t] = Blank /\ catch[t] = <<>>
  BY DEF Init
<1>4. Known
  <2>1. store.channels = {} /\ store.currentChannel = None
    BY DEF Init, StoreInit, New
  <2>2. Stored(store.queue["members"]) = {}
    <3>1. store.queue["members"] = NewCQueue(Keys["members"], Size["members"])
      BY DEF Init, StoreInit, New, Queues
    <3> QED BY <3>1 DEF NewCQueue, Stored
  <2> QED BY <2>1, <2>2 DEF Known, IsMember
<1>5. Control
  <2>1. kind \in {"simul", "simple"} /\ script = InitActions[kind]
    BY DEF Init, InitActions
  <2>2. script \in Seq(Actions[kind] \union {"others"}) /\ kind \in DOMAIN Actions
    <3>1. CASE kind = "simul"
      <4>1. script = <<"signUp", "login", "joinTeam", "firstJoinChannel", "others">>
        BY <2>1, <3>1 DEF InitActions
      <4>2. {"signUp", "login", "joinTeam", "firstJoinChannel"} \subseteq Actions[kind]
        BY <3>1 DEF Actions
      <4> QED BY <3>1, <4>1, <4>2 DEF Actions
    <3>2. CASE kind = "simple"
      <4>1. script = <<"signUp", "Login", "others">>
        BY <2>1, <3>2 DEF InitActions
      <4>2. {"signUp", "Login"} \subseteq Actions[kind]
        BY <3>2 DEF Actions
      <4> QED BY <3>2, <4>1, <4>2 DEF Actions
    <3> QED BY <2>1, <3>1, <3>2
  <2>3. "main" \in Threads
    BY DEF Threads
  <2> QED BY <1>3, <2>2, <2>3 DEF Init, Control
<1>6. ASSUME NEW t \in Threads PROVE Goroutine(t)
  <2>1. CatchOK(t)
    BY <1>3, Nothing DEF CatchOK
  <2>2. RegOK(t)
    BY <1>3 DEF RegOK, Blank, Sets
  <2>3. Typed(<<>>, {}, {}) /\ Knows(t, {})
    BY Nothing DEF Knows
  <2> QED BY <1>3, <2>1, <2>2, <2>3 DEF Goroutine, Judged
<1> QED BY <1>1, <1>2, <1>4, <1>5, <1>6 DEF SessionInv

LEMMA SessionNext == SessionInv /\ [Next]_vars => SessionInv' /\ StoreStep
<1> SUFFICES ASSUME SessionInv, [Next]_vars PROVE SessionInv' /\ StoreStep
  OBVIOUS
<1>1. CASE Begin
  BY <1>1, BeginStep
<1>2. CASE PickActions
  BY <1>2, PickActionsStep
<1>3. CASE PostEvent \/ ReactionEvent \/ UserEvent \/ Tick
  BY <1>3, EventStep
<1>4. ASSUME NEW t \in Threads, Step(t) PROVE SessionInv' /\ StoreStep
  BY <1>4, SessionStep
<1>5. CASE UNCHANGED vars
  <2> DEFINE t == "listen"
  <2>1. /\ UNCHANGED <<store, todo, reg, catch, server, connected, kind, script, budget, panicked>>
        /\ t \in Threads /\ t # "main"
    BY <1>5 DEF vars, machine, outside, Threads
  <2>2. Sound(t) /\ Keeps(t) /\ Only(t) /\ Control'
    BY <2>1, SoundStill DEF SessionInv, Only, Control
  <2>3. CatchOK(t)' /\ RegOK(t)'
    BY <2>1, ThisKept DEF CatchOK, RegOK, SessionInv, Goroutine
  <2>4. PICK G : Typed(todo[t], G, {}) /\ Knows(t, G)
    BY <2>1 DEF SessionInv, Goroutine, Judged
  <2>5. Knows(t, G)'
    BY <2>1, <2>2, <2>4, AllKept
  <2>6. Judged(t)'
    BY <2>1, <2>4, <2>5 DEF Judged
  <2> QED BY <2>1, <2>2, <2>3, <2>6, StepKeepsSession DEF Goroutine, StoreStep
<1> QED BY <1>1, <1>2, <1>3, <1>4, <1>5 DEF Next

LEMMA SessionAlways == Spec => []SessionInv /\ [][StoreStep]_vars
<1>1. Spec => []SessionInv
  BY SessionInit, SessionNext, PTL DEF Spec
<1>2. SessionInv /\ [Next]_vars => [StoreStep]_vars
  BY SessionNext
<1> QED BY <1>1, <1>2, PTL DEF Spec

-----------------------------------------------------------------------------
(* Whatever the goroutines of a user do to its store, in whatever order,   *)
(* are operations of the store, one at a time (memstore, whose methods the *)
(* user entity and the controllers call).                                  *)
THEOREM SessionUsesTheStore == Spec => StoreSpec
<1>1. Init => StoreInit
  BY DEF Init
<1>2. SessionInv /\ [Next]_vars => [StoreNext]_store
  BY SessionNext DEF StoreStep
<1> QED BY <1>1, <1>2, SessionAlways, PTL DEF Spec, StoreSpec

(* So the store of a user at work keeps the most recent elements, whatever *)
(* evicts them (cqueue.go, Get).                                           *)
THEOREM SessionKeepsTheMostRecent == Spec => ImplementsRecent
BY SessionUsesTheStore, StoreKeepsTheMostRecent, PTL

(* What a map of the store points to is what is stored under its key,      *)
(* between any two steps of the goroutines (store.go, the maps of posts,   *)
(* users, statuses and members).                                           *)
THEOREM SessionPointsIntoQueues == Spec => []MapsFollowQueues
BY SessionUsesTheStore, MapsPointIntoQueues, PTL

(* The email and the password of the user survive every answer that leaves *)
(* them out (SetUser with restorePrivateData), so it can log in again.     *)
THEOREM SessionKeepsCredentials == Spec => []CredentialsKept
BY SessionUsesTheStore, CredentialsSurvive, PTL

(* What the store, the server and the goroutines hold keeps its type.      *)
THEOREM SessionTypeCorrect == Spec => []TypeOK
<1>1. SessionInv => TypeOK
  <2> SUFFICES ASSUME SessionInv PROVE TypeOK
    OBVIOUS
  <2>1. StoreTypeOK
    BY TypeIsRest DEF SessionInv, StoreInv, QueuesOK
  <2> QED BY <2>1 DEF SessionInv, Control, ServerOK, TypeOK
<1> QED BY <1>1, SessionAlways, PTL

(* The user views a channel, or posts in it, only while the server has it  *)
(* as a member: what the actions choose from the store, they choose from   *)
(* what the server has told or will not take back (RandomChannel with      *)
(* SelectMemberOf, CurrentChannel and the channels that a user makes).     *)
THEOREM ActsOnlyWhereMember == Spec => []ActsWhereMember
<1>1. SessionInv => ActsWhereMember
  <2> SUFFICES ASSUME SessionInv, Op("main", {"ask"}),
                      Head(todo["main"]).what \in {"view", "newPost"}
               PROVE  reg["main"][Head(todo["main"]).arg] \in server.joined
    BY DEF ActsWhereMember
  <2>1. PICK i : i = Head(todo["main"])
    OBVIOUS
  <2>2. i.op = "ask" /\ i.what \in {"view", "newPost"} /\ todo["main"] # <<>>
    BY <2>1 DEF Op
  <2>3. Judged("main")
    <3>1. ~Leaves
      BY <2>1, <2>2, LeaveChannelIs, LeaveIs, ForgetMemberIs DEF Leaves
    <3> QED BY <3>1 DEF SessionInv, Goroutine, Threads
  <2>4. PICK E, M, I, W : At("main", E, M, I, W)
    BY <2>2, <2>3, AtFirst
  <2>5. Knows("main", E) /\ MayAsk(i.what, i.arg, E)
    BY <2>1, <2>2, <2>4, FitsOp DEF At, AskFits
  <2>6. i.arg \in Registers /\ <<i.arg, "joined">> \in E
    BY <2>2, <2>5 DEF MayAsk
  <2>7. Is("joined", reg["main"][i.arg], "main")
    BY <2>5, <2>6, FactsOf DEF Knows
  <2> QED BY <2>1, <2>7 DEF Is, Joined
<1> QED BY <1>1, SessionAlways, PTL

(* The current channel changes only to one that was viewed since the store *)
(* was cleared (switchChannel after viewChannel): the program of every     *)
(* action that enters a channel views it first, whatever fails on the way. *)
THEOREM EntersOnlyViewed == Spec => EntersViewed
<1>1. SessionInv /\ [Next]_vars =>
        [store'.currentChannel # store.currentChannel =>
           store'.currentChannel \in store'.views]_store
  BY SessionNext DEF StoreStep
<1> QED BY <1>1, SessionAlways, PTL DEF Spec, EntersViewed
=============================================================================
