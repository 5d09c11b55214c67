---------------------------- MODULE MCConfigLoader -----------------------------
(* The instance of ConfigLoader that TLC checks.                           *)
EXTENDS ConfigLoader

MCKeys == {"server.port", "server.host"}
MCTexts == {"true", "8080", "99999999999999999999", "localhost"}
MCBooleans == {"true"}
MCIntegers64 == {"8080"}
MCOverflows == {"99999999999999999999"}
=============================================================================
