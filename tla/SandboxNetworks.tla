---- MODULE SandboxNetworks ----
(* NetworkManager (src/network/mod.rs) over its port service and its proxy
   manager (src/network/proxy.rs).  It is used through &mut self: one call
   after the other, each of which may stop half way with an error.  The
   port service underneath is the registry of owners PortMapping refines. *)
EXTENDS Naturals, Sequences

CONSTANTS NetBoxes,  \* sandboxes
          NetPorts,     \* host ports
          PortLists,    \* sequences of host ports a configuration may ask for
          ProxyConfigs, \* valid proxy configurations
          Logged,       \* requests, as they are logged
          MaxLog,       \* max_log_entries: 1000
          BadProxy,     \* a configuration validate_proxy_config refuses
          Nobody        \* absent: no owner, no proxy

ASSUME NetworksAssumption ==
  /\ MaxLog \in Nat \ {0} /\ PortLists \subseteq Seq(NetPorts) /\ Nobody \notin NetBoxes
  /\ Nobody \notin ProxyConfigs \cup {BadProxy} /\ BadProxy \notin ProxyConfigs
  /\ Nobody \notin [ports : PortLists, proxy : ProxyConfigs \cup {Nobody}]
  /\ \A n \in 0..MaxLog : Nobody \notin [1..n -> Logged]

VARIABLES
  portOwner, \* the port service
  networks,  \* active_networks: [NetBoxes -> configuration or Nobody]
  proxies,   \* proxies: [NetBoxes -> ProxyConfigs or Nobody]
  proxyLogs, \* logs: [NetBoxes -> Seq(requests) or Nobody]
  cutShort,  \* history: sandboxes with ports of a configuration that failed, since their clean-up
  leftListed \* history: sandboxes whose clean-up failed, since they were configured

netVars == <<portOwner, networks, proxies, proxyLogs, cutShort, leftListed>>

NetInit ==
  /\ portOwner = [p \in NetPorts |-> Nobody]
  /\ networks = [b \in NetBoxes |-> Nobody]
  /\ proxies = [b \in NetBoxes |-> Nobody]
  /\ proxyLogs = [b \in NetBoxes |-> Nobody]
  /\ cutShort = {} /\ leftListed = {}

----
(* allocate_port with a preferred port, for one mapping after the other: it
   stops at the first that is taken (or over the limit, or busy on the
   host) and keeps those before it. *)
AllFree(ports, n) ==
  \A i \in 1..n : portOwner[ports[i]] = Nobody /\ \A j \in 1..(i - 1) : ports[j] # ports[i]

Allocate(b, ports, n) ==
  portOwner' = [p \in NetPorts |-> IF \E i \in 1..n : ports[i] = p THEN b ELSE portOwner[p]]

\* An error after n ports.
StopHalfWay(b, n) ==
  /\ cutShort' = IF n = 0 THEN cutShort ELSE cutShort \cup {b}
  /\ UNCHANGED <<networks, leftListed>>

StoreConfiguration(b, ports, proxy) ==
  /\ networks' = [networks EXCEPT ![b] = [ports |-> ports, proxy |-> proxy]]
  /\ leftListed' = leftListed \ {b} /\ UNCHANGED cutShort

ConfigureProxy(b, proxy) ==
  IF proxy = Nobody THEN UNCHANGED <<proxies, proxyLogs>>
  ELSE proxies' = [proxies EXCEPT ![b] = proxy] /\ proxyLogs' = [proxyLogs EXCEPT ![b] = <<>>]

ConfigureProxyFirst(b, ports, proxy) ==  \* the defect: the proxy before the ports
  \E n \in 0..Len(ports) :
      /\ AllFree(ports, n) /\ Allocate(b, ports, n)
      /\ IF proxy = BadProxy THEN UNCHANGED <<proxies, proxyLogs>> ELSE ConfigureProxy(b, proxy)
      /\ IF n < Len(ports) \/ proxy = BadProxy THEN StopHalfWay(b, n) ELSE StoreConfiguration(b, ports, proxy)

Configure(b, ports, proxy) ==
  \E n \in 0..Len(ports) :
      /\ AllFree(ports, n) /\ Allocate(b, ports, n)
      /\ IF n < Len(ports) \/ proxy = BadProxy
         THEN StopHalfWay(b, n) /\ UNCHANGED <<proxies, proxyLogs>>
         ELSE ConfigureProxy(b, proxy) /\ StoreConfiguration(b, ports, proxy)

\* The defect: the ports of the network it lists.
ReleaseListed(b) ==
  LET listed == IF networks[b] = Nobody THEN <<>> ELSE networks[b].ports
  IN  [p \in NetPorts |-> IF \E i \in DOMAIN listed : listed[i] = p THEN Nobody ELSE portOwner[p]]
ReleaseAll(b) == [p \in NetPorts |-> IF portOwner[p] = b THEN Nobody ELSE portOwner[p]]

(* cleanup_sandbox_network: ports, proxy, entry.  remove_proxy is an error
   for a sandbox without one, and then the entry stays. *)
CleanupNetwork(b) ==
  /\ portOwner' = ReleaseAll(b)
  /\ proxies' = [proxies EXCEPT ![b] = Nobody]
  /\ proxyLogs' = [proxyLogs EXCEPT ![b] = Nobody]
  /\ cutShort' = cutShort \ {b}
  /\ IF proxies[b] = Nobody THEN leftListed' = leftListed \cup {b} /\ UNCHANGED networks
     ELSE networks' = [networks EXCEPT ![b] = Nobody] /\ UNCHANGED leftListed

----
NewestKept(log, entry) == IF Len(log) < MaxLog THEN Append(log, entry) ELSE Tail(log) \o <<entry>>

(* A request, whatever the proxy says of it; only a sandbox with a proxy has
   a log. *)
Request(b, request) ==
  /\ proxyLogs' = IF proxyLogs[b] = Nobody THEN proxyLogs
                  ELSE [proxyLogs EXCEPT ![b] = NewestKept(@, request)]
  /\ UNCHANGED <<portOwner, networks, proxies, cutShort, leftListed>>

ClearLogs(b) ==
  /\ proxyLogs' = [proxyLogs EXCEPT ![b] = IF @ = Nobody THEN Nobody ELSE <<>>]
  /\ UNCHANGED <<portOwner, networks, proxies, cutShort, leftListed>>

NetNext ==
  \E b \in NetBoxes :
      \/ \E ports \in PortLists, proxy \in ProxyConfigs \cup {Nobody, BadProxy} : Configure(b, ports, proxy)
      \/ CleanupNetwork(b) \/ ClearLogs(b)
      \/ \E request \in Logged : Request(b, request)

NetSpec == NetInit /\ [][NetNext]_netVars

----
NetTypeOK ==
  /\ portOwner \in [NetPorts -> NetBoxes \cup {Nobody}]
  /\ \A b \in NetBoxes :
        /\ proxies[b] \in ProxyConfigs \cup {Nobody}
        /\ (proxies[b] = Nobody) = (proxyLogs[b] = Nobody)
        /\ proxyLogs[b] # Nobody => Len(proxyLogs[b]) <= MaxLog

(* A sandbox whose configuration names a proxy is behind exactly that one,
   however many configurations of it failed half way since; and no proxy
   outlives the network it was made for (configure_sandbox_network 301-333,
   cleanup_sandbox_network 336-348). *)
FilteredAsConfigured ==
  \A b \in NetBoxes :
      /\ proxies[b] # Nobody => networks[b] # Nobody
      /\ networks[b] # Nobody /\ networks[b].proxy # Nobody => proxies[b] = networks[b].proxy

(* Ports and networks agree but where a call stopped half way: a port is
   owned by a sandbox that has a network, or a configuration of it failed
   since its last clean-up; a network has all its ports, or a clean-up of it
   failed since it was configured, as it does for a sandbox without a proxy
   only (configure_sandbox_network 307-319, cleanup_sandbox_network 338-341). *)
PortsFollowTheNetwork ==
  \A b \in NetBoxes :
      /\ networks[b] = Nobody /\ b \notin cutShort => \A p \in NetPorts : portOwner[p] # b
      /\ networks[b] # Nobody /\ b \notin leftListed =>
            \A i \in DOMAIN networks[b].ports : portOwner[networks[b].ports[i]] = b
      /\ b \in leftListed => proxies[b] = Nobody

(* The manager's networks, its ports and its proxies agree. *)
NetworksInv == NetTypeOK /\ FilteredAsConfigured /\ PortsFollowTheNetwork
====
