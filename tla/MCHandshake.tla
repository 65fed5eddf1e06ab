---------------------------- MODULE MCHandshake ----------------------------
EXTENDS Handshake

Configurations(auths, saved, codes, faulty, declines) ==
    {w \in [profile : DOMAIN Profiles, auth : auths, hidden : BOOLEAN, omitInfo : BOOLEAN,
            saved : saved, known : BOOLEAN, code : codes, faulty : faulty, declines : declines] :
        w.saved = "none" => ~w.known}    \* nothing saved is nothing known

MCWorlds ==
    Configurations(AuthModes, {"none", "hap", "raw"}, Codes, {FALSE}, {FALSE})
    \cup Configurations({"none", "pin", "digest"}, {"none", "hap"}, {"", "code"}, {TRUE}, {FALSE})
    \cup Configurations({"none", "pin", "digest"}, {"none", "hap"}, {"", "code"}, {FALSE}, {TRUE})
=============================================================================
