-------------------------- MODULE MCSecretRotation --------------------------
(* Instances of SecretRotation for TLC. *)
EXTENDS SecretRotation

\* A database role, set by the superuser, and the Wazuh API user, which is
\* changed with a credential it accepts.
SecretsMC == {"db", "wazuh_api"}

\* secret_vars.py appends "_previous" to the variable; manager.yml of
\* wazuh-indexer reads another name.
PreviousNameMC == [db |-> "db_password_previous", wazuh_api |-> "wazuh_api_password_previous"]
PreviousReadMC == [db |-> "db_password_previous", wazuh_api |-> "wazuh_api_previous_password"]
=============================================================================
