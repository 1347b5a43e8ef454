------------------------------ MODULE Settings ------------------------------
(***************************************************************************)
(* The settings an administrator edits (settings/): network managers and   *)
(* the configuration of an ISP, one row and one statement per operation.   *)
(* An operation that fails leaves everything as it was, so only the ones   *)
(* that succeed are actions; the look-ups are predicates.                  *)
(***************************************************************************)
EXTENDS ConfigurationTables

(* network-manager.service.ts, create: encrypt throws on an absent field,  *)
(* so the fields the DTO calls optional are required; the name is unique.  *)
CreateNetworkManager(dto) ==
    /\ Encrypts(dto.api_url) /\ Encrypts(dto.api_key) /\ Encrypts(dto.api_secret)
    /\ \A m \in db.network_manager : m.name # dto.name
    /\ db' = Created(db, "network_manager",
                     [name |-> dto.name, api_url |-> encrypt(dto.api_url),
                      api_key |-> encrypt(dto.api_key),
                      api_secret |-> encrypt(dto.api_secret)])

(* update: the address is stored as it comes, the secrets are encrypted    *)
(* unless they are empty.                                                  *)
NetworkManagerUpdated(m, dto) ==
    [m EXCEPT !.name = IF dto.name = "" THEN @ ELSE dto.name,
              !.api_url = Merged(@, dto.api_url),
              !.api_key = Merged(@, EncryptTruthy(dto.api_key)),
              !.api_secret = Merged(@, EncryptTruthy(dto.api_secret))]

UpdateNetworkManager(m, dto) ==
    /\ m \in db.network_manager
    /\ \A n \in db.network_manager : n.name = dto.name => n = m
    /\ db' = Changed(db, "network_manager", m, NetworkManagerUpdated(m, dto))

(* Mutant: the ISP keeps the id of the manager that is gone.               *)
RemoveManagerAlone(m) ==
    /\ m \in db.network_manager
    /\ db' = [db EXCEPT !.network_manager = @ \ {m}]

(* remove: the foreign key of isp is ON DELETE SET NULL.                   *)
RemoveNetworkManager(m) ==
    /\ m \in db.network_manager
    /\ db' = [db EXCEPT !.network_manager = @ \ {m},
                        !.isp = {IF i.network_manager_id = m.id
                                 THEN [i EXCEPT !.network_manager_id = NULL] ELSE i : i \in @}]

(* findOne throws when a secret is there and cannot be decrypted.          *)
FindsNetworkManager(m) ==
    \A secret \in {m.api_key, m.api_secret} : Truthy(secret) => Decrypts(secret)

(* isp-configuration.service.ts: the token is stored as it comes, and the  *)
(* ISP must exist.                                                         *)
CreateIspConfiguration(isp_id, token) ==
    /\ \E i \in db.isp : i.id = isp_id
    /\ db' = Created(db, "isp_configuration", [isp_id |-> isp_id, instance_token |-> token])

UpdateIspConfiguration(c, isp_id, token) ==
    /\ c \in db.isp_configuration
    /\ \E i \in db.isp : i.id = isp_id
    /\ db' = Changed(db, "isp_configuration", c,
                     [c EXCEPT !.isp_id = isp_id, !.instance_token = Merged(@, token)])

RemoveIspConfiguration(c) ==
    /\ c \in db.isp_configuration
    /\ db' = [db EXCEPT !.isp_configuration = @ \ {c}]

-----------------------------------------------------------------------------

(* common/utils/network-manager-config.util.ts, getNetworkManagerConfig:   *)
(* the active ISP's manager, if it has this name, an address and a key     *)
(* that can be decrypted.  The address is used as it is stored.            *)
Configures(m, name) ==
    /\ m \in ActiveManagers
    /\ m.name = name
    /\ Truthy(m.api_url) /\ Truthy(m.api_key)
    /\ Decrypts(m.api_key)
    /\ Truthy(m.api_secret) => Decrypts(m.api_secret)

NetworkManagerConfig(m) == [apiUrl |-> m.api_url, apiKey |-> decrypt(m.api_key)]
=============================================================================
