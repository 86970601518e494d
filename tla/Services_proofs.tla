---- MODULE Services_proofs ----
(* Theorems about services that share no state, each for all values of its
   own constants. *)
EXTENDS AuthTokens, SandboxNetworks, Streams, Snapshots, FiniteSetTheorems, SequenceTheorems, TLAPS

(* What the two properties rest on: what a login gives out or is about to
   is about one user, under one id when there is a repository, so that it
   shares its mark; and a role that is not the stored one was read before
   the change, and signed before it but for a request it overtook. *)
TokenFacts ==
  /\ clock \in 0..MaxClock /\ logins \in Nat /\ subjects \in Nat
  /\ \A t \in issued \cup found :
        /\ t.user \in Users /\ t.login \in 1..logins
        /\ stored => t.sub = <<t.user, 0>>
  /\ \A t \in issued : t.iat \in Nat /\ (t.role # roleOf[t.user] => t.late \/ t.iat <= changed[t.user])
  /\ \A q \in found : q.role # roleOf[q.user] => q.late
  /\ \A t, r \in issued \cup found : t.login = r.login => t.user = r.user
  /\ \A t \in ended : Mark(t) \in blacklist

AuthIInv == AuthTypeOK /\ TokenFacts

LEMMA FactsImply == AuthIInv => TokensInv
  BY TokensAssumption DEF AuthIInv, TokensInv, AuthTypeOK, TokenFacts, LogoutEndsTheLogin, Accepted, Mark,
    TakenRolesFade, Life

(* A reading made now of the user's role as it is, for a login of its user. *)
LEMMA NewReading ==
  ASSUME AuthIInv, NEW u \in Users, NEW l \in 1..logins', NEW kinds \in SUBSET {"access", "refresh"},
         logins' \in {logins, logins + 1}, subjects' \in Nat,
         \A r \in issued \cup found : r.login = l => r.user = u,
         found' = found \cup {Reading(u, roleOf[u], kinds, l)}, asked' \subseteq issued,
         UNCHANGED <<stored, roleOf, changed, issued, blacklist, ended, clock>>
  PROVE  AuthIInv'
<1> DEFINE new == Reading(u, roleOf[u], kinds, l)
<1>1. new.user = u /\ new.role = roleOf[u] /\ new.login = l /\ new.late = FALSE
      /\ (stored => new.sub = <<u, 0>>)
      /\ new \in [user : Users, sub : Users \X Nat, role : Roles, kinds : SUBSET {"access", "refresh"},
                 login : Nat, late : BOOLEAN]
  <2>1. roleOf[u] \in Roles /\ l \in Nat
    BY DEF AuthIInv, AuthTypeOK, TokenFacts
  <2> QED BY <2>1 DEF Reading, Subject
<1>2. found' = found \cup {new}
  OBVIOUS
<1> HIDE DEF new
<1>3. AuthTypeOK'
  BY <1>1, <1>2 DEF AuthIInv, AuthTypeOK
<1>4. TokenFacts'
  BY <1>1, <1>2 DEF AuthIInv, TokenFacts, AuthTypeOK, Mark
<1> QED BY <1>3, <1>4 DEF AuthIInv

(* Tokens are signed with what was read. *)
LEMMA NewTokens ==
  ASSUME AuthIInv, NEW q \in found, Sign(q)
  PROVE  AuthIInv'
<1> DEFINE New == {Token(q, k) : k \in q.kinds}
<1>1. \A t \in New : /\ t.user = q.user /\ t.role = q.role /\ t.login = q.login /\ t.sub = q.sub
                     /\ t.late = q.late /\ t.iat = clock
  BY DEF Token
<1>2. /\ found' \subseteq found /\ issued' = issued \cup New
      /\ UNCHANGED <<stored, roleOf, changed, asked, blacklist, ended, logins, subjects, clock>>
  BY DEF Sign
<1> HIDE DEF New
<1>3. AuthTypeOK'
  BY <1>1, <1>2 DEF AuthIInv, AuthTypeOK, TokenFacts
<1>4. TokenFacts'
  BY <1>1, <1>2 DEF AuthIInv, TokenFacts, AuthTypeOK, Mark
<1> QED BY <1>3, <1>4 DEF AuthIInv

(* A change of role leaves behind what was read and what was signed. *)
LEMMA NewRole ==
  ASSUME AuthIInv, NEW u \in Users, NEW r \in Roles, SetRole(u, r)
  PROVE  AuthIInv'
<1>1. \A x \in found' : \E q \in found :
        /\ x.user = q.user /\ x.role = q.role /\ x.login = q.login /\ x.sub = q.sub
        /\ x.late = (q.late \/ q.user = u)
  BY DEF SetRole, AuthIInv, AuthTypeOK
<1>2. /\ roleOf' = [roleOf EXCEPT ![u] = r] /\ changed' = [changed EXCEPT ![u] = clock]
      /\ UNCHANGED <<stored, asked, issued, blacklist, ended, logins, subjects, clock>>
      /\ found' \subseteq [user : Users, sub : Users \X Nat, role : Roles, kinds : SUBSET {"access", "refresh"},
                          login : Nat, late : BOOLEAN]
  BY DEF SetRole, AuthIInv, AuthTypeOK
<1>3. AuthTypeOK'
  BY <1>1, <1>2 DEF AuthIInv, AuthTypeOK, TokenFacts
<1>4. TokenFacts'
  BY <1>1, <1>2 DEF AuthIInv, TokenFacts, AuthTypeOK, Mark
<1> QED BY <1>3, <1>4 DEF AuthIInv

LEMMA AuthStep == AuthIInv /\ [AuthNext]_authVars => AuthIInv'
<1> SUFFICES ASSUME AuthIInv, [AuthNext]_authVars PROVE AuthIInv'
  OBVIOUS
<1>1. ASSUME NEW u \in Users, Login(u) PROVE AuthIInv'
  <2>1. logins' \in 1..logins' /\ logins' \in {logins, logins + 1} /\ subjects' \in Nat /\ asked' \subseteq issued
        /\ \A r \in issued \cup found : r.login = logins' => r.user = u
    BY <1>1 DEF Login, AuthIInv, TokenFacts, AuthTypeOK
  <2>2. found' = found \cup {Reading(u, roleOf[u], {"access", "refresh"}, logins')}
        /\ UNCHANGED <<stored, roleOf, changed, issued, blacklist, ended, clock>>
    BY <1>1 DEF Login
  <2> QED BY <2>1, <2>2, NewReading
<1>2. ASSUME NEW t \in asked, LookUp(t) PROVE AuthIInv'
  <2>1. t \in issued /\ t.user \in Users /\ t.login \in 1..logins' /\ logins' = logins
        /\ subjects' \in Nat /\ asked' \subseteq issued
    BY <1>2 DEF LookUp, AuthIInv, AuthTypeOK, TokenFacts
  <2>2. \A r \in issued \cup found : r.login = t.login => r.user = t.user
    BY <2>1 DEF AuthIInv, TokenFacts
  <2>3. found' = found \cup {Reading(t.user, roleOf[t.user], {"access"}, t.login)}
        /\ UNCHANGED <<stored, roleOf, changed, issued, blacklist, ended, clock>>
    BY <1>2 DEF LookUp, RoleNow
  <2> QED BY <2>1, <2>2, <2>3, NewReading
<1>3. ASSUME NEW t \in issued, Logout(t) PROVE AuthIInv'
  BY <1>3 DEF Logout, AuthIInv, AuthTypeOK, TokenFacts, Mark
<1>4. ASSUME NEW t \in issued, Refresh(t) PROVE AuthIInv'
  BY <1>4 DEF Refresh, AuthIInv, AuthTypeOK, TokenFacts, Mark
<1>5. ASSUME NEW t \in asked, NotLookedUp(t) PROVE AuthIInv'
  BY <1>5 DEF NotLookedUp, AuthIInv, AuthTypeOK, TokenFacts, Mark
<1>6. CASE RestartServer
  BY <1>6 DEF RestartServer, AuthIInv, AuthTypeOK, TokenFacts, Mark
<1>7. CASE AuthTick
  BY <1>7, TokensAssumption DEF AuthTick, AuthIInv, AuthTypeOK, TokenFacts, Mark
<1>8. CASE UNCHANGED authVars
  BY <1>8 DEF authVars, AuthIInv, AuthTypeOK, TokenFacts, Mark
<1> QED BY <1>1, <1>2, <1>3, <1>4, <1>5, <1>6, <1>7, <1>8, NewTokens, NewRole DEF AuthNext

(* Whatever users log in, refresh, log out and change roles in whatever
   order, and whenever the server is restarted: with a repository a logout
   ends its login until the restart, and a role that was taken is gone
   within an access token's life, but for requests the change overtook. *)
THEOREM TokensInvAlways == AuthSpec => []TokensInv
<1>1. AuthInit => AuthIInv
  BY TokensAssumption DEF AuthInit, AuthIInv, AuthTypeOK, TokenFacts
<1> QED BY <1>1, AuthStep, FactsImply, PTL DEF AuthSpec

----
(* NetworksInv is inductive but for what a configuration and a log are. *)
Configurations == [ports : PortLists, proxy : ProxyConfigs \cup {Nobody}]

NetTypes ==
  /\ portOwner \in [NetPorts -> NetBoxes \cup {Nobody}]
  /\ networks \in [NetBoxes -> Configurations \cup {Nobody}]
  /\ proxies \in [NetBoxes -> ProxyConfigs \cup {Nobody}]
  /\ DOMAIN proxyLogs = NetBoxes
  /\ \A b \in NetBoxes :
        IF proxies[b] = Nobody THEN proxyLogs[b] = Nobody
        ELSE proxyLogs[b] \in Seq(Logged) /\ Len(proxyLogs[b]) <= MaxLog

NetIInv == NetTypes /\ FilteredAsConfigured /\ PortsFollowTheNetwork

LEMMA LogIsThere == ASSUME NEW log \in Seq(Logged), Len(log) <= MaxLog PROVE log # Nobody
  BY NetworksAssumption DEF NetworksAssumption

LEMMA LogKept ==
  ASSUME NEW log \in Seq(Logged), Len(log) <= MaxLog, NEW request \in Logged
  PROVE  NewestKept(log, request) \in Seq(Logged) /\ Len(NewestKept(log, request)) <= MaxLog
  BY NetworksAssumption DEF NewestKept

LEMMA NetImplies == NetIInv => NetworksInv
  BY LogIsThere DEF NetIInv, NetTypes, NetworksInv, NetTypeOK

(* What every configuration does: its ports were nobody's and are the
   sandbox's, and it fails or stores what it was given. *)
Outcome(b, ports, proxy, n) ==
  /\ AllFree(ports, n) /\ Allocate(b, ports, n)
  /\ \/ StopHalfWay(b, n) /\ UNCHANGED <<proxies, proxyLogs>>
     \/ /\ n = Len(ports) /\ proxy # BadProxy
        /\ ConfigureProxy(b, proxy) /\ StoreConfiguration(b, ports, proxy)

LEMMA ConfigureTypes ==
  ASSUME NetIInv, NEW b \in NetBoxes, NEW ports \in PortLists, NEW n \in 0..Len(ports),
         NEW proxy \in ProxyConfigs \cup {Nobody, BadProxy}, Outcome(b, ports, proxy, n)
  PROVE  NetTypes' /\ FilteredAsConfigured'
<1>1. portOwner' \in [NetPorts -> NetBoxes \cup {Nobody}]
  BY DEF Outcome, Allocate, NetIInv, NetTypes
<1> DEFINE new == [ports |-> ports, proxy |-> proxy]
<1>2. CASE StopHalfWay(b, n) /\ UNCHANGED <<proxies, proxyLogs>>
  BY <1>1, <1>2 DEF NetIInv, NetTypes, FilteredAsConfigured, StopHalfWay
<1>3. CASE proxy # BadProxy /\ ConfigureProxy(b, proxy) /\ StoreConfiguration(b, ports, proxy)
  <2>1. /\ networks' = [networks EXCEPT ![b] = new]
        /\ \/ proxy = Nobody /\ UNCHANGED <<proxies, proxyLogs>>
           \/ /\ proxy # Nobody /\ proxies' = [proxies EXCEPT ![b] = proxy]
              /\ proxyLogs' = [proxyLogs EXCEPT ![b] = <<>>]
    BY <1>3 DEF ConfigureProxy, StoreConfiguration
  <2>2. proxy \in ProxyConfigs \cup {Nobody} /\ new \in Configurations /\ new # Nobody /\ new.proxy = proxy
    BY <1>3, NetworksAssumption DEF Configurations
  <2> HIDE DEF new
  <2>3. CASE proxy = Nobody
    BY <1>1, <2>1, <2>2, <2>3 DEF NetIInv, NetTypes, FilteredAsConfigured
  <2>4. CASE proxy # Nobody
    <3>1. <<>> \in Seq(Logged) /\ Len(<<>>) <= MaxLog
      BY NetworksAssumption
    <3> QED BY <1>1, <2>1, <2>2, <2>4, <3>1 DEF NetIInv, NetTypes, FilteredAsConfigured
  <2> QED BY <2>3, <2>4
<1> QED BY <1>2, <1>3 DEF Outcome

LEMMA ConfigurePorts ==
  ASSUME NetIInv, NEW b \in NetBoxes, NEW ports \in PortLists, NEW n \in 0..Len(ports),
         NEW proxy \in ProxyConfigs \cup {Nobody, BadProxy}, Outcome(b, ports, proxy, n)
  PROVE  PortsFollowTheNetwork'
<1>1. /\ ports \in Seq(NetPorts) /\ b # Nobody
      /\ \A x \in NetBoxes : networks[x] # Nobody => networks[x].ports \in Seq(NetPorts)
  BY NetworksAssumption DEF NetIInv, NetTypes, Configurations
<1>2. /\ \A i \in 1..n : portOwner'[ports[i]] = b
      /\ \A p \in NetPorts : portOwner'[p] # portOwner[p] => portOwner'[p] = b /\ portOwner[p] = Nobody /\ n # 0
  BY <1>1 DEF Outcome, AllFree, Allocate
<1>3. \A x \in NetBoxes \ {b} : \A p \in NetPorts : portOwner'[p] = x <=> portOwner[p] = x
  BY <1>2, NetworksAssumption
<1>4. \A x \in NetBoxes, p \in NetPorts : portOwner[p] = x => portOwner'[p] = x
  BY <1>2, NetworksAssumption
<1>5. CASE StopHalfWay(b, n) /\ UNCHANGED <<proxies, proxyLogs>>
  <2>1. UNCHANGED <<networks, proxies, leftListed>> /\ cutShort' = IF n = 0 THEN cutShort ELSE cutShort \cup {b}
    BY <1>5 DEF StopHalfWay
  <2>2. n = 0 => \A p \in NetPorts : portOwner'[p] = portOwner[p]
    BY <1>2
  <2> QED BY <1>1, <1>3, <1>4, <2>1, <2>2 DEF NetIInv, PortsFollowTheNetwork
<1>6. CASE n = Len(ports) /\ proxy # BadProxy /\ ConfigureProxy(b, proxy) /\ StoreConfiguration(b, ports, proxy)
  <2> DEFINE new == [ports |-> ports, proxy |-> proxy]
  <2>1. /\ networks' = [networks EXCEPT ![b] = new] /\ leftListed' = leftListed \ {b} /\ cutShort' = cutShort
        /\ \A x \in NetBoxes \ {b} : proxies'[x] = proxies[x]
    BY <1>6 DEF ConfigureProxy, StoreConfiguration, NetIInv, NetTypes
  <2>2. new # Nobody /\ new.ports = ports
    BY <1>6, NetworksAssumption
  <2> HIDE DEF new
  <2>3. networks'[b] = new /\ \A x \in NetBoxes \ {b} : networks'[x] = networks[x]
    BY <2>1 DEF NetIInv, NetTypes
  <2>4. \A i \in DOMAIN new.ports : portOwner'[new.ports[i]] = b
    BY <1>1, <1>2, <1>6, <2>2
  <2> QED BY <1>1, <1>3, <1>4, <2>1, <2>2, <2>3, <2>4 DEF NetIInv, PortsFollowTheNetwork
<1> QED BY <1>5, <1>6 DEF Outcome

LEMMA ConfigureStep ==
  ASSUME NetIInv, NEW b \in NetBoxes, NEW ports \in PortLists,
         NEW proxy \in ProxyConfigs \cup {Nobody, BadProxy}, Configure(b, ports, proxy)
  PROVE  NetIInv'
<1>1. PICK n \in 0..Len(ports) : Outcome(b, ports, proxy, n)
  BY NetworksAssumption DEF Configure, Outcome
<1> QED BY <1>1, ConfigureTypes, ConfigurePorts DEF NetIInv

LEMMA CleanupStep == ASSUME NetIInv, NEW b \in NetBoxes, CleanupNetwork(b) PROVE NetIInv'
<1>1. NetTypes' /\ FilteredAsConfigured'
  BY DEF CleanupNetwork, ReleaseAll, NetIInv, NetTypes, FilteredAsConfigured
<1>2. /\ \A p \in NetPorts : portOwner'[p] # b
      /\ \A x \in NetBoxes \ {b} : \A p \in NetPorts : portOwner'[p] = x <=> portOwner[p] = x
  BY NetworksAssumption DEF CleanupNetwork, ReleaseAll
<1>3. \A x \in NetBoxes : networks[x] # Nobody => networks[x].ports \in Seq(NetPorts)
  BY NetworksAssumption DEF NetIInv, NetTypes, Configurations
<1>4. PortsFollowTheNetwork'
  BY <1>2, <1>3 DEF CleanupNetwork, NetIInv, NetTypes, PortsFollowTheNetwork
<1> QED BY <1>1, <1>4 DEF NetIInv

LEMMA LogStep ==
  ASSUME NetIInv, NEW b \in NetBoxes, ClearLogs(b) \/ \E request \in Logged : Request(b, request)
  PROVE  NetIInv'
<1> DEFINE LogOK == IF proxies[b] = Nobody THEN proxyLogs'[b] = Nobody
                     ELSE proxyLogs'[b] \in Seq(Logged) /\ Len(proxyLogs'[b]) <= MaxLog
           Others == \A x \in NetBoxes \ {b} : proxyLogs'[x] = proxyLogs[x]
<1>1. DOMAIN proxyLogs' = NetBoxes /\ LogOK /\ Others
  <2>1. CASE ClearLogs(b)
    BY <2>1, LogIsThere, NetworksAssumption DEF ClearLogs, NetIInv, NetTypes
  <2>2. ASSUME NEW request \in Logged, Request(b, request) PROVE DOMAIN proxyLogs' = NetBoxes /\ LogOK /\ Others
    BY <2>2, LogIsThere, LogKept DEF Request, NetIInv, NetTypes
  <2> QED BY <2>1, <2>2
<1>2. UNCHANGED <<portOwner, networks, proxies, cutShort, leftListed>>
  BY DEF ClearLogs, Request
<1> QED BY <1>1, <1>2 DEF NetIInv, NetTypes, FilteredAsConfigured, PortsFollowTheNetwork

(* However many calls stop half way: a sandbox whose configuration names a
   proxy is behind that one, no proxy outlives its network, the proxy and
   its bounded log come and go together, and ports are a network's but for
   the calls that stopped. *)
THEOREM NetworksInvAlways == NetSpec => []NetworksInv
<1>1. NetInit => NetIInv
  BY NetworksAssumption DEF NetInit, NetIInv, NetTypes, FilteredAsConfigured, PortsFollowTheNetwork
<1>2. NetIInv /\ [NetNext]_netVars => NetIInv'
  <2>1. CASE UNCHANGED netVars
    BY <2>1 DEF netVars, NetIInv, NetTypes, FilteredAsConfigured, PortsFollowTheNetwork
  <2> QED BY <2>1, ConfigureStep, CleanupStep, LogStep DEF NetNext
<1> QED BY <1>1, <1>2, NetImplies, PTL DEF NetSpec

----
\* Streams.  The end of a sequence, by elements.
EndsWith(w, b) == Len(b) <= Len(w) /\ \A i \in 1..Len(b) : b[i] = w[Len(w) - Len(b) + i]

LEMMA SuffixIsEnd ==
  ASSUME NEW b \in Seq(Nat), NEW w \in Seq(Nat), EndsWith(w, b) PROVE IsSuffix(b, w)
  BY DEF Reverse, EndsWith, IsSuffix, IsPrefix

LEMMA TrimmedIsEnd ==
  ASSUME NEW a \in Seq(Nat), NEW w \in Seq(Nat), EndsWith(w, a)
  PROVE  Trim(a) \in Seq(Nat) /\ Len(Trim(a)) <= BufferSize /\ EndsWith(w, Trim(a))
<1>1. CASE Len(a) <= BufferSize
  BY <1>1, StreamsAssumption DEF Trim
<1>2. CASE Len(a) > BufferSize
  <2>1. PICK k \in Nat : k = Len(a) - BufferSize
    BY <1>2, StreamsAssumption
  <2>2. Trim(a) = SubSeq(a, k + 1, Len(a)) /\ \A i \in k + 1 .. Len(a) : a[i] \in Nat
    <3>1. Trim(a) = SubSeq(a, Len(a) - BufferSize + 1, Len(a))
      BY <1>2, StreamsAssumption DEF Trim
    <3> QED BY <2>1, <3>1
  <2>3. /\ Trim(a) \in Seq(Nat) /\ Len(Trim(a)) = BufferSize
        /\ \A i \in 1..BufferSize : Trim(a)[i] = a[k + i]
    BY <2>1, <2>2, StreamsAssumption, SubSeqProperties
  <2>4. \A i \in 1..BufferSize : k + i \in 1..Len(a) /\ Len(w) - Len(a) + (k + i) = Len(w) - BufferSize + i
    BY <2>1, StreamsAssumption
  <2>5. ASSUME NEW i \in 1..BufferSize PROVE Trim(a)[i] = w[Len(w) - BufferSize + i]
    BY <2>4, <2>3 DEF EndsWith
  <2> QED BY <2>3, <1>2, StreamsAssumption, <2>5 DEF EndsWith
<1> QED BY <1>1, <1>2, StreamsAssumption

LEMMA BothGrow ==
  ASSUME NEW b \in Seq(Nat), NEW w \in Seq(Nat), NEW m \in Nat, EndsWith(w, b)
  PROVE  EndsWith(Append(w, m), Append(b, m))
<1> DEFINE c == Append(b, m)
           y == Append(w, m)
<1>1. PICK k \in Nat : k = Len(b) /\ Len(c) = k + 1 /\ c[k + 1] = m /\ \A i \in 1..k : c[i] = b[i]
  OBVIOUS
<1>2. PICK n \in Nat : n = Len(w) /\ Len(y) = n + 1 /\ y[n + 1] = m /\ \A i \in 1..n : y[i] = w[i]
  OBVIOUS
<1>3. k <= n /\ \A i \in 1..k : b[i] = w[n - k + i]
  BY <1>1, <1>2 DEF EndsWith
<1> HIDE DEF c, y
<1>4. ASSUME NEW i \in 1..k + 1 PROVE c[i] = y[n + 1 - (k + 1) + i]
  <2>1. CASE i \in 1..k
    BY <1>1, <1>2, <1>3, <2>1, n - k + i \in 1..n, n + 1 - (k + 1) + i = n - k + i
  <2>2. CASE i = k + 1
    BY <1>1, <1>2, <2>2, n + 1 - (k + 1) + i = n + 1
  <2> QED BY <2>1, <2>2
<1>5. EndsWith(y, c)
  BY <1>1, <1>2, <1>3, <1>4 DEF EndsWith
<1> QED BY <1>5 DEF c, y

\* Who reads or publishes keeps clean-up away; what the one that publishes
\* has put in the buffer it is about to send.
Calls == {Free} \cup [at : {"create", "subscribe"}, id : StreamIds]
                \cup [at : {"publish"}, id : StreamIds, msg : Nat]

StreamIInv ==
  /\ DOMAIN streams \cup DOMAIN buffers \subseteq StreamIds
  /\ client \in [Clients -> Calls] /\ wire \in [StreamIds -> Seq(Nat)] /\ published \in Nat
  /\ \A s \in DOMAIN buffers : buffers[s] \in Seq(Nat) /\ Len(buffers[s]) <= BufferSize
  /\ DOMAIN subscribers \subseteq DOMAIN streams
  /\ \A s \in DOMAIN subscribers : subscribers[s] \subseteq Clients
  /\ \A c \in Clients : client[c].at = "subscribe" => client[c].id \in DOMAIN streams
  /\ \A c, d \in BufferHolder : c = d
  /\ \A s \in DOMAIN buffers :
        /\ \A c \in BufferHolder : client[c].id = s => EndsWith(Append(wire[s], client[c].msg), buffers[s])
        /\ (\A c \in BufferHolder : client[c].id # s) => EndsWith(wire[s], buffers[s])

LEMMA StreamStep == StreamIInv /\ [StreamNext]_streamVars => StreamIInv'
<1> SUFFICES ASSUME StreamIInv, [StreamNext]_streamVars PROVE StreamIInv'
  OBVIOUS
<1>0. <<>> \in Seq(Nat) /\ Len(<<>>) = 0 /\ \A w \in Seq(Nat) : EndsWith(w, <<>>)
  BY DEF EndsWith
<1> USE StreamsAssumption
<1>1. ASSUME NEW c \in Clients, NEW s \in StreamIds, CreateStream(c, s) PROVE StreamIInv'
  BY <1>1 DEF CreateStream, Put, StreamIInv, Calls, Free, BufferHolder
<1>2. ASSUME NEW c \in Clients, CreateBuffer(c) PROVE StreamIInv'
  BY <1>0, <1>2 DEF CreateBuffer, Put, StreamIInv, Calls, Free, BufferHolder
<1>3. ASSUME NEW c \in Clients, NEW s \in StreamIds, Subscribe(c, s) PROVE StreamIInv'
  <2>1. \A d \in BufferHolder : d \in BufferHolder' /\ client'[d] = client[d]
    BY <1>3 DEF Subscribe, StreamIInv, Free, BufferHolder
  <2> QED BY <1>3, <2>1 DEF Subscribe, Known, StreamIInv, Calls, BufferHolder
<1>4. ASSUME NEW c \in Clients, AddSubscriber(c) PROVE StreamIInv'
  BY <1>4 DEF AddSubscriber, Put, StreamIInv, Calls, Free, BufferHolder
<1>5. ASSUME NEW c \in Clients, NEW s \in StreamIds, Publish(c, s) PROVE StreamIInv'
  <2>1. client' \in [Clients -> Calls] /\ published' \in Nat /\ BufferHolder' = {c}
        /\ client'[c] = [at |-> "publish", id |-> s, msg |-> published']
    BY <1>5 DEF Publish, StreamIInv, Calls, BufferHolder
  <2>2. s \in DOMAIN buffers => /\ Append(buffers[s], published') \in Seq(Nat)
                                /\ Append(wire[s], published') \in Seq(Nat)
                                /\ EndsWith(Append(wire[s], published'), Append(buffers[s], published'))
    BY <2>1, <1>5, BothGrow DEF StreamIInv, Publish
  <2> QED BY <1>5, <2>1, <2>2, TrimmedIsEnd DEF Publish, StreamIInv
<1>6. ASSUME NEW c \in Clients, Send(c) PROVE StreamIInv'
  <2>1. client[c].id \in StreamIds /\ client[c].msg \in Nat /\ BufferHolder = {c}
    BY <1>6 DEF Send, StreamIInv, Calls, Free, BufferHolder
  <2>2. client' \in [Clients -> Calls] /\ BufferHolder' = {}
        /\ \A d \in Clients : client'[d].at = "subscribe" => client'[d] = client[d]
    BY <1>6, <2>1 DEF Send, StreamIInv, Calls, Free, BufferHolder
  <2> QED BY <1>6, <2>1, <2>2 DEF Send, StreamIInv
<1>7. ASSUME NEW c \in Clients, CleanupInactive(c) PROVE StreamIInv'
  BY <1>7 DEF CleanupInactive, Readers, Dropped, StreamIInv, Calls, Free, BufferHolder
<1>8. ASSUME NEW s \in StreamIds, GrowOld(s) PROVE StreamIInv'
  BY <1>8 DEF GrowOld, StreamIInv, BufferHolder
<1>9. CASE UNCHANGED streamVars
  BY <1>9 DEF streamVars, StreamIInv, BufferHolder
<1> QED BY <1>1, <1>2, <1>3, <1>4, <1>5, <1>6, <1>7, <1>8, <1>9 DEF StreamNext

(* However publishers, subscribers and clean-up overlap: a stream with a
   subscriber stays, and a buffer is the end of what was sent. *)
THEOREM StreamsInvAlways == StreamSpec => []StreamsInv
<1>1. StreamInit => StreamIInv
  BY DEF StreamInit, StreamIInv, Calls, BufferHolder, Free
<1>2. StreamIInv => StreamsInv
  BY SuffixIsEnd DEF StreamIInv, BufferHolder, StreamsInv, StreamTypeOK, SubscribedStreamsStay, BufferIsTheEndOfTheWire
<1> QED BY <1>1, <1>2, StreamStep, PTL DEF StreamSpec

----
\* Snapshots.  A restore that meets no other ends with the snapshot that was
\* asked for, and what it has cleared or copied back is as it left it, but for
\* what was written.
Contents == [Files -> 0..MaxVersion]
Restores == [pc : {"idle", "descend", "clear", "copy", "box", "create", "restored", "failed", "endless"},
             of : Ids \cup {"none"}, cur : Ids \cup {"none"}, path : Seq(Ids)]

Disk ==
  /\ SnapTypeOK /\ ListedIsSaved /\ \A i \in DOMAIN saved : saved[i] \in Ids \cup {Torn}
  /\ DOMAIN captured = DOMAIN copies /\ \A i \in DOMAIN copies : copies[i] \in Contents
  /\ \A i \in DOMAIN copies, f \in Files : captured[i][f] # 0 => copies[i][f] = captured[i][f]
  /\ \A i \in DOMAIN snapshots : snapshots[i] \in Ids
  /\ DOMAIN snapshots \subseteq DOMAIN copies /\ DOMAIN saved \subseteq DOMAIN copies

\* A restore m, alone or not, and the files nobody wrote since it began.
Where(m) ==
  /\ m \in Restores
  /\ m.pc = "descend" /\ m.path = <<>> => m.cur = m.of
  /\ m.pc \in {"clear", "copy", "box", "create"} => m.path # <<>>
  /\ m.pc \in {"descend", "clear", "copy", "box", "create"} /\ m.path # <<>> => m.path[Len(m.path)] = m.of
  /\ m.pc \in {"copy", "box", "create"} => Head(m.path) \in DOMAIN copies

Brings(m, untouched) ==
  /\ m.pc = "copy" => \A f \in untouched : files[f] = 0
  /\ m.pc \in {"box", "create"} => \A f \in untouched : files[f] = copies[Head(m.path)][f]
  /\ m.pc = "restored" => \A f \in untouched : captured[m.of][f] # 0 => files[f] = captured[m.of][f]

Crowds ==
  /\ DOMAIN restore = Restorers /\ touched \in [Restorers -> SUBSET Files] /\ crowded \subseteq Active
  /\ \A r, q \in Active : r # q => r \in crowded

SnapIInv ==
  /\ Disk /\ Crowds
  /\ \A r \in Restorers :
        Where(restore[r]) /\ (r \notin crowded => Brings(restore[r], Files \ touched[r]))

LEMMA OntoIs ==
  ASSUME NEW a \in Contents, NEW b \in Contents
  PROVE  Onto(a, b) \in Contents /\ \A f \in Files : Onto(a, b)[f] = IF a[f] # 0 THEN a[f] ELSE b[f]
  BY DEF Contents, Onto

LEMMA IdleIsFine == ASSUME NEW S PROVE Where(NoRestore) /\ Brings(NoRestore, S)
  BY DEF NoRestore, Where, Brings, Restores

LEMMA CreateStep == ASSUME SnapIInv, NEW kind \in {"full", "incr"}, Create(kind) PROVE SnapIInv'
<1> DEFINE i == [kind |-> kind, at |-> second]
<1>1. /\ copies' = With(copies, i, IF i \in DOMAIN copies THEN Onto(files, copies[i]) ELSE files)
      /\ known' = known \cup {i} /\ captured' = With(captured, i, files)
      /\ again' = IF i \in DOMAIN copies THEN again \cup {i} ELSE again
      /\ UNCHANGED <<second, files, box, touched, restore, crowded>>
      /\ \/ UNCHANGED snapshots /\ saved' \in {saved, With(saved, i, Torn)}
         \/ \E b \in Ids : snapshots' = With(snapshots, i, b) /\ saved' = With(saved, i, b)
  BY DEF Create, Record, SnapIInv, Disk, SnapTypeOK, Ids, Contents
<1>2. i \in Ids /\ files \in Contents /\ \A r \in Restorers : restore[r].pc = "idle"
  BY DEF SnapIInv, Disk, SnapTypeOK, Ids, Contents, Create, Active
<1> HIDE DEF i
<1>3. ListedIsSaved'
  BY <1>1, <1>2 DEF SnapIInv, Disk, ListedIsSaved, With
<1>4. SnapTypeOK' /\ DOMAIN captured' = DOMAIN copies'
  BY <1>1, <1>2 DEF SnapIInv, Disk, SnapTypeOK, With, Contents
<1>5. \A j \in DOMAIN copies' : copies'[j] \in Contents /\ \A f \in Files : captured'[j][f] # 0 => copies'[j][f] = captured'[j][f]
  BY <1>1, <1>2, OntoIs DEF SnapIInv, Disk, With
<1>6. /\ \A j \in DOMAIN saved' : saved'[j] \in Ids \cup {Torn}
      /\ \A j \in DOMAIN snapshots' : snapshots'[j] \in Ids
      /\ DOMAIN snapshots' \subseteq DOMAIN copies' /\ DOMAIN saved' \subseteq DOMAIN copies'
  BY <1>1, <1>2 DEF SnapIInv, Disk, With
<1>7. Disk'
  BY <1>3, <1>4, <1>5, <1>6 DEF Disk
<1> QED BY <1>1, <1>2, <1>7 DEF SnapIInv, Crowds, Active, Where, Brings

LEMMA MoveStep ==
  ASSUME SnapIInv, NEW r \in Active, NEW m, Goes(r, m), m.pc # "idle", Where(m),
         box' \in {"running", "stopped", "absent"}, files' \in Contents,
         r \notin crowded => Brings(m, Files \ touched[r])'
  PROVE  SnapIInv'
<1>1. /\ restore' = [restore EXCEPT ![r] = m] /\ r \in Restorers /\ restore[r].pc # "idle"
      /\ UNCHANGED <<second, copies, known, snapshots, saved, captured, again, touched, crowded>>
  BY DEF Goes, diskVars, Active
<1>2. Disk'
  BY <1>1 DEF SnapIInv, Disk, SnapTypeOK, ListedIsSaved, Contents
<1>3. Active' = Active /\ Crowds'
  BY <1>1 DEF SnapIInv, Crowds, Active
<1>4. restore'[r] = m /\ \A q \in Restorers \ {r} : restore'[q] = restore[q]
  BY <1>1 DEF SnapIInv, Crowds
<1>5. \A q \in Restorers \ {r} : q \notin crowded => restore[q].pc = "idle"
  BY <1>1 DEF SnapIInv, Crowds, Active
<1>6. \A q \in Restorers : Where(restore[q])'
  <2>1. Where(restore[r])'
    BY <1>1, <1>4 DEF Where
  <2>2. ASSUME NEW q \in Restorers \ {r} PROVE Where(restore[q])'
    <3>1. Where(restore[q])
      BY DEF SnapIInv
    <3> QED BY <1>1, <1>4, <3>1 DEF Where
  <2> QED BY <2>1, <2>2
<1>7. \A q \in Restorers \ {r} : q \notin crowded' => Brings(restore[q], Files \ touched[q])'
  BY <1>1, <1>4, <1>5 DEF Brings
<1> QED BY <1>1, <1>2, <1>3, <1>4, <1>6, <1>7 DEF SnapIInv

LEMMA DescendStep == ASSUME SnapIInv, NEW r \in Restorers, Descend(r) PROVE SnapIInv'
<1>1. PICK m : m = restore[r]
  OBVIOUS
<1> DEFINE p == <<m.cur>> \o m.path
<1>2. m \in Restores /\ m.pc = "descend" /\ Where(m) /\ r \in Active /\ UNCHANGED <<files, box, copies>>
  BY <1>1 DEF Descend, SnapIInv, Where, Active, Goes, diskVars
<1>3. ASSUME m.cur \in DOMAIN snapshots
      PROVE  p \in Seq(Ids) /\ p # <<>> /\ p[Len(p)] = m.of /\ snapshots[m.cur] \in Ids
  BY <1>3, <1>2, ConcatProperties, EmptySeq, LenProperties DEF SnapIInv, Disk, SnapTypeOK, Restores, Where
<1>4. PICK n : /\ Goes(r, n)
               /\ \/ n = [m EXCEPT !.pc = "failed"] \/ n = [m EXCEPT !.pc = "endless"]
                  \/ m.cur \in DOMAIN snapshots /\ n = [m EXCEPT !.pc = "clear", !.path = p]
                  \/ m.cur \in DOMAIN snapshots /\ n = [m EXCEPT !.cur = snapshots[m.cur], !.path = p]
  BY <1>1 DEF Descend
<1> HIDE DEF p
<1>5. Where(n) /\ n.pc # "idle"
  BY <1>2, <1>3, <1>4 DEF Where, Restores
<1>6. Brings(n, Files \ touched[r])'
  BY <1>2, <1>4, <1>5 DEF Brings, Restores
<1>7. files' \in Contents /\ box' \in {"running", "stopped", "absent"}
  BY <1>2 DEF SnapIInv, Disk, SnapTypeOK, Contents
<1> QED BY <1>2, <1>4, <1>5, <1>6, <1>7, MoveStep

LEMMA CopyStep == ASSUME SnapIInv, NEW r \in Restorers, Clear(r) \/ Copy(r) PROVE SnapIInv'
<1>1. PICK m : m = restore[r]
  OBVIOUS
<1>2. /\ m \in Restores /\ Where(m) /\ r \in Active /\ box' \in {"running", "stopped", "absent"}
      /\ (r \notin crowded => Brings(m, Files \ touched[r])) /\ UNCHANGED <<copies, touched, captured>>
      /\ files \in Contents /\ Empty \in Contents
  <2>1. m \in Restores /\ Where(m) /\ (r \notin crowded => Brings(m, Files \ touched[r]))
    BY <1>1 DEF SnapIInv, Where
  <2>2. r \in Active /\ UNCHANGED <<copies, touched, captured, box>>
    BY DEF Clear, Copy, Active, Goes, diskVars
  <2>3. files \in Contents /\ box \in {"running", "stopped", "absent"} /\ Empty \in Contents
    BY SnapshotsAssumption DEF SnapIInv, Disk, SnapTypeOK, Contents, Empty
  <2> QED BY <2>1, <2>2, <2>3
<1>3. CASE Clear(r) /\ Head(m.path) \in known
  <2>1. PICK n : n = [m EXCEPT !.pc = "copy"] /\ Goes(r, n)
    BY <1>1, <1>3 DEF Clear
  <2>2. Where(n) /\ n.pc # "idle"
    BY <1>1, <1>2, <1>3, <2>1 DEF Clear, Where, Restores, SnapIInv, Disk, SnapTypeOK
  <2>3. files' = Empty
    BY <1>1, <1>3 DEF Clear
  <2>4. Brings(n, Files \ touched[r])'
    BY <1>2, <2>1, <2>3 DEF Brings, Empty, Restores
  <2> QED BY <1>2, <2>1, <2>2, <2>3, <2>4, MoveStep
<1>4. CASE Clear(r) /\ Head(m.path) \notin known
  <2>1. PICK n : n = [m EXCEPT !.pc = "failed"] /\ Goes(r, n)
    BY <1>1, <1>4 DEF Clear
  <2>2. Where(n) /\ n.pc # "idle"
    BY <1>2, <2>1 DEF Where, Restores
  <2>3. files' = files
    BY <1>1, <1>4 DEF Clear
  <2>4. Brings(n, Files \ touched[r])'
    BY <1>2, <2>1 DEF Brings, Restores
  <2> QED BY <1>2, <2>1, <2>2, <2>3, <2>4, MoveStep
<1>5. CASE Copy(r)
  <2>1. PICK n : n = [m EXCEPT !.pc = "box"] /\ Goes(r, n)
    BY <1>1, <1>5 DEF Copy
  <2>2. /\ Where(n) /\ n.pc # "idle" /\ m.pc = "copy" /\ n.pc = "box" /\ n.path = m.path
        /\ Head(m.path) \in DOMAIN copies
    BY <1>1, <1>2, <1>5, <2>1 DEF Copy, Where, Restores
  <2>3. /\ files' = Onto(copies[Head(m.path)], files) /\ files' \in Contents
        /\ \A f \in Files : files'[f] = IF copies[Head(m.path)][f] # 0 THEN copies[Head(m.path)][f] ELSE files[f]
    BY <1>1, <1>2, <1>5, <2>2, OntoIs DEF Copy, SnapIInv, Disk
  <2>4. r \notin crowded => Brings(n, Files \ touched[r])'
    BY <1>2, <2>2, <2>3 DEF Brings
  <2> QED BY <1>2, <2>1, <2>2, <2>3, <2>4, MoveStep
<1> QED BY <1>3, <1>4, <1>5

LEMMA TailEnds ==
  ASSUME NEW S, NEW p \in Seq(S), Len(p) > 1
  PROVE  Tail(p) # <<>> /\ Tail(p)[Len(Tail(p))] = p[Len(p)]
<1> DEFINE q == Tail(p)
<1>1. PICK k \in Nat : Len(p) = k + 1 /\ Len(q) = k /\ \A i \in 1..k : q[i] = p[i + 1]
  <2>1. PICK n \in Nat : n = Len(p)
    BY LenProperties
  <2>2. PICK k \in Nat : n = k + 1
    <3>1. n - 1 \in Nat /\ n = (n - 1) + 1
      BY <2>1
    <3> QED BY <3>1
  <2>3. q \in Seq(S) /\ Len(q) = Len(p) - 1 /\ \A i \in 1..Len(p) - 1 : q[i] = p[i + 1]
    BY HeadTailProperties
  <2>4. Len(p) - 1 = k
    BY <2>1, <2>2
  <2> QED BY <2>1, <2>2, <2>3, <2>4
<1>2. k \in 1..k /\ k # 0 /\ Len(<<>>) = 0
  BY <1>1
<1> QED BY <1>1, <1>2

LEMMA BoxStep == ASSUME SnapIInv, NEW r \in Restorers, StopOld(r) \/ CreateNew(r) PROVE SnapIInv'
<1>1. PICK m : m = restore[r]
  OBVIOUS
<1> DEFINE p == m.path
<1>2. /\ m \in Restores /\ Where(m) /\ r \in Active /\ UNCHANGED <<copies, touched, captured, files>>
      /\ (r \notin crowded => Brings(m, Files \ touched[r]))
      /\ files' \in Contents /\ box' \in {"running", "stopped", "absent"} /\ m.pc \in {"box", "create"}
  BY <1>1 DEF StopOld, CreateNew, SnapIInv, Where, Active, Goes, diskVars, Disk, SnapTypeOK, Contents
<1>3. p \in Seq(Ids) /\ p # <<>> /\ p[Len(p)] = m.of /\ Head(p) \in DOMAIN copies
  BY <1>2 DEF Where, Restores
<1>4. /\ Head(p) = p[1] /\ Tail(p) \in Seq(Ids) /\ Len(Tail(p)) = Len(p) - 1 /\ Len(p) \in Nat \ {0}
  BY <1>3
<1>5. PICK n : /\ Goes(r, n)
               /\ \/ n = [m EXCEPT !.pc = "failed"]
                  \/ m.pc = "box" /\ n = [m EXCEPT !.pc = "create"]
                  \/ m.pc = "create" /\ n = [m EXCEPT !.path = Tail(p), !.pc = IF Len(p) > 1 THEN "clear" ELSE "restored"]
  BY <1>1 DEF StopOld, CreateNew
<1> HIDE DEF p
<1>6. Len(p) > 1 => Tail(p) # <<>> /\ Tail(p)[Len(Tail(p))] = m.of
  BY <1>3, TailEnds
<1>7. Where(n) /\ n.pc # "idle"
  BY <1>2, <1>3, <1>4, <1>5, <1>6 DEF Where, Restores, p
<1>8. r \notin crowded => Brings(n, Files \ touched[r])'
  <2> SUFFICES ASSUME r \notin crowded PROVE Brings(n, Files \ touched[r])'
    OBVIOUS
  <2>1. CASE n = [m EXCEPT !.pc = "failed"] \/ n = [m EXCEPT !.pc = "create"]
    BY <1>2, <2>1 DEF Brings, Restores
  <2>2. CASE /\ m.pc = "create"
             /\ n = [m EXCEPT !.path = Tail(p), !.pc = IF Len(p) > 1 THEN "clear" ELSE "restored"]
    <3>1. n.of = m.of /\ n.pc = IF Len(p) > 1 THEN "clear" ELSE "restored"
      BY <1>2, <2>2 DEF Restores
    <3>2. ~(Len(p) > 1) => Head(p) = m.of
      BY <1>3, <1>4
    <3>3. \A f \in Files \ touched[r] : files[f] = copies[Head(p)][f]
      BY <1>2, <2>2 DEF Brings, p
    <3>4. ~(Len(p) > 1) => \A f \in Files \ touched[r] : captured[m.of][f] # 0 => files[f] = captured[m.of][f]
      BY <1>3, <3>2, <3>3 DEF SnapIInv, Disk
    <3> QED BY <1>2, <3>1, <3>4 DEF Brings
  <2> QED BY <1>5, <2>1, <2>2
<1> QED BY <1>2, <1>5, <1>7, <1>8, MoveStep

LEMMA RestoreStep ==
  ASSUME SnapIInv, NEW r \in Restorers, (\E i \in Ids : BeginRestore(r, i)) \/ EndRestore(r)
  PROVE  SnapIInv'
<1>1. CASE EndRestore(r)
  <2>1. /\ restore' = [restore EXCEPT ![r] = NoRestore] /\ touched' = [touched EXCEPT ![r] = {}]
        /\ crowded' = crowded \ {r} /\ UNCHANGED <<second, files, diskVars, box>>
    BY <1>1 DEF EndRestore
  <2>2. Active' = Active \ {r} /\ Crowds' /\ Disk'
    BY <2>1 DEF NoRestore, SnapIInv, Crowds, Active, Disk, SnapTypeOK, ListedIsSaved, diskVars
  <2>3. \A q \in Restorers : Where(restore[q])' /\ (q \notin crowded' => Brings(restore[q], Files \ touched[q])')
    <3>1. ASSUME NEW q \in Restorers \ {r}
          PROVE  restore'[q] = restore[q] /\ touched'[q] = touched[q] /\ (q \in crowded' <=> q \in crowded)
      BY <2>1 DEF SnapIInv, Crowds
    <3>2. \A q \in Restorers \ {r} :
             Where(restore[q])' /\ (q \notin crowded' => Brings(restore[q], Files \ touched[q])')
      BY <2>1, <3>1 DEF SnapIInv, Where, Brings, diskVars
    <3>3. restore'[r] = NoRestore
      BY <2>1 DEF SnapIInv, Crowds
    <3>4. Where(restore[r])' /\ Brings(restore[r], Files \ touched[r])'
      BY <3>3 DEF Where, Brings, NoRestore, Restores
    <3> QED BY <3>2, <3>4
  <2> QED BY <2>2, <2>3 DEF SnapIInv
<1>2. ASSUME NEW i \in Ids, BeginRestore(r, i) PROVE SnapIInv'
  <2>1. PICK m : m = [pc |-> "descend", of |-> i, cur |-> i, path |-> <<>>]
    OBVIOUS
  <2>2. /\ restore' = [restore EXCEPT ![r] = m] /\ r \notin Active
        /\ crowded' = (IF Active = {} THEN {} ELSE Active \cup {r})
        /\ UNCHANGED <<second, files, diskVars, box, touched>>
    BY <1>2, <2>1 DEF BeginRestore, Active
  <2>3. Active' = Active \cup {r} /\ Crowds' /\ Disk'
    BY <2>1, <2>2 DEF SnapIInv, Crowds, Active, Disk, SnapTypeOK, ListedIsSaved, diskVars
  <2>4. restore'[r] = m /\ \A q \in Restorers \ {r} : restore'[q] = restore[q]
    BY <2>2 DEF SnapIInv, Crowds
  <2>5. Where(restore[r])' /\ Brings(restore[r], Files \ touched[r])'
    BY <1>2, <2>1, <2>4 DEF Where, Brings, Restores
  <2>6. \A q \in Restorers \ {r} : Where(restore[q])' /\ (q \notin crowded' => Brings(restore[q], Files \ touched[q])')
    <3>1. ASSUME NEW q \in Restorers \ {r} PROVE Where(restore[q])'
      <4>1. Where(restore[q])
        BY DEF SnapIInv
      <4> QED BY <2>2, <2>4, <4>1 DEF Where, diskVars
    <3>2. ASSUME NEW q \in Restorers \ {r}, q \notin crowded' PROVE Brings(restore[q], Files \ touched[q])'
      <4>1. restore'[q].pc = "idle"
        BY <2>2, <2>4, <3>2 DEF Active
      <4> QED BY <4>1 DEF Brings
    <3> QED BY <3>1, <3>2
  <2> QED BY <2>3, <2>5, <2>6 DEF SnapIInv
<1> QED BY <1>1, <1>2

LEMMA OtherStep ==
  ASSUME SnapIInv,
         \/ \E i \in Ids : Load(i) \/ Delete(i)
         \/ \E f \in Files : Write(f)
         \/ RemoveBox \/ AddBox \/ SnapCrash \/ SnapTick \/ UNCHANGED snapVars
  PROVE  SnapIInv'
<1>1. ASSUME NEW i \in Ids, Load(i) \/ Delete(i) PROVE SnapIInv'
  <2>1. /\ UNCHANGED <<second, files, copies, known, box, restore, captured, again, touched, crowded>>
        /\ \A r \in Restorers : restore[r].pc = "idle"
    BY <1>1 DEF Load, Delete, Active
  <2>2. Disk'
    BY <1>1, <2>1 DEF Load, Delete, With, Without, Restrict, SnapIInv, Disk, SnapTypeOK, ListedIsSaved
  <2> QED BY <2>1, <2>2 DEF SnapIInv, Crowds, Active, Where, Brings
<1>2. ASSUME NEW f \in Files, Write(f) PROVE SnapIInv'
  <2>1. /\ files' \in Contents /\ UNCHANGED <<second, diskVars, box, restore, crowded>>
        /\ \A g \in Files \ {f} : files'[g] = files[g]
        /\ touched' = [r \in Restorers |-> IF r \in Active THEN touched[r] \cup {f} ELSE {}]
    BY <1>2, SnapshotsAssumption DEF Write, SnapIInv, Disk, SnapTypeOK, Contents
  <2>2. Disk' /\ Crowds' /\ \A r \in Restorers : Where(restore[r])'
    BY <2>1 DEF SnapIInv, Disk, SnapTypeOK, ListedIsSaved, Contents, diskVars, Crowds, Active, Where
  <2>3. \A r \in Restorers \ crowded : Brings(restore[r], Files \ touched[r])'
    BY <2>1 DEF SnapIInv, Brings, Active, diskVars
  <2> QED BY <2>1, <2>2, <2>3 DEF SnapIInv
<1>3. CASE SnapCrash
  <2>1. \A r \in Restorers : restore'[r] = NoRestore /\ NoRestore.pc = "idle"
    BY <1>3 DEF SnapCrash, NoRestore
  <2>2. Disk' /\ Crowds'
    <3>1. /\ UNCHANGED <<second, files, copies, saved, captured, again>> /\ box' = "absent" /\ known' = {}
          /\ DOMAIN snapshots' = {} /\ DOMAIN restore' = Restorers /\ crowded' = {}
          /\ touched' \in [Restorers -> SUBSET Files] /\ Active' = {}
      BY <1>3, <2>1 DEF SnapCrash, Active
    <3>2. Disk'
      BY <3>1 DEF SnapIInv, Disk, SnapTypeOK, ListedIsSaved
    <3> QED BY <3>1, <3>2 DEF Crowds
  <2>3. \A r \in Restorers : Where(restore[r])' /\ Brings(restore[r], Files \ touched[r])'
    <3>1. NoRestore \in Restores /\ NoRestore.pc = "idle"
      BY DEF NoRestore, Restores
    <3> QED BY <2>1, <3>1 DEF Where, Brings
  <2> QED BY <2>2, <2>3 DEF SnapIInv
<1>4. CASE RemoveBox \/ AddBox \/ SnapTick \/ UNCHANGED snapVars
  <2>1. /\ UNCHANGED <<files, diskVars, restore, touched, crowded>>
        /\ second' \in 0..MaxSecond /\ box' \in {"running", "stopped", "absent"}
    BY <1>4, SnapshotsAssumption DEF RemoveBox, AddBox, SnapTick, snapVars, diskVars, SnapIInv, Disk, SnapTypeOK
  <2>2. Disk' /\ Crowds'
    BY <2>1 DEF SnapIInv, Disk, SnapTypeOK, ListedIsSaved, Crowds, Active, diskVars
  <2>3. \A r \in Restorers : Where(restore[r])' /\ (r \notin crowded' => Brings(restore[r], Files \ touched[r])')
    BY <2>1 DEF SnapIInv, Where, Brings, diskVars
  <2> QED BY <2>2, <2>3 DEF SnapIInv
<1> QED BY <1>1, <1>2, <1>3, <1>4

LEMMA SnapStep == SnapIInv /\ [SnapNext]_snapVars => SnapIInv'
  BY CreateStep, DescendStep, CopyStep, BoxStep, RestoreStep, OtherStep DEF SnapNext, Restoration

(* Whatever snapshots are made, deleted, lost with a restart or shared by an
   id, and whoever writes meanwhile: a restore that meets no other brings
   back what the snapshot that was asked for saw, and what is listed is on
   disk but for ids given out twice. *)
THEOREM SnapshotsInvAlways == SnapSpec => []SnapshotsInv
<1>1. SnapInit => SnapIInv
  BY SnapshotsAssumption, IdleIsFine DEF SnapInit, SnapIInv, Disk, SnapTypeOK, ListedIsSaved, Crowds, Active,
    NoRestore, Empty, Nowhere
<1>2. SnapIInv => SnapshotsInv
  BY DEF SnapIInv, Disk, Brings, SnapshotsInv, RestoresWhatItSaw
<1> QED BY <1>1, <1>2, SnapStep, PTL DEF SnapSpec
====
