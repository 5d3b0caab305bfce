----------------------------- MODULE MCDeviceForm -----------------------------
(* Small instances of DeviceForm for TLC. *)
EXTENDS DeviceForm, TLC

\* A chassis with its extension table, and a server without, which a
\* synchronisation has found: it has no place in a rack.
ChassisAndServer == 1 :> [kind |-> "blade_chassis", tables |-> {"server"}, lacks |-> {}]
                    @@ 2 :> [kind |-> "server", tables |-> {}, lacks |-> {"rack"}]

\* A switch whose SNMP community is stored.
OneSwitch == 1 :> [kind |-> "switch", tables |-> {"network"}, lacks |-> {}]
=============================================================================
