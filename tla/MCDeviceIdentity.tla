-------------------------- MODULE MCDeviceIdentity --------------------------
(***************************************************************************)
(* One device x behind a proxy, with two pages.  The provider may name two *)
(* clients and two users for its address; nobody is behind the proxy's.    *)
(***************************************************************************)
EXTENDS DeviceIdentity

CONSTANTS x, ax, proxy, c1, c2, u1, u2

Is(c, u) == [client_id |-> c, user_id |-> u]

MCdevice_of == [p \in Page |-> x]
MCpeer == [d \in Device |-> proxy]
MCforwarded_for == [d \in Device |-> <<ax, proxy>>]
MCreal_ip == [d \in Device |-> {}]
MCIdentities ==
  [i \in Address |-> IF i = ax THEN {Is(c1, u1), Is(c1, u2), Is(c2, u1)} ELSE {}]
MCwritten_on == [w \in RevisionId |-> x]
MCOfflineIdentity == [d \in Device |-> Is(c1, u1)]
=============================================================================
