------------------------------ MODULE Scanner ------------------------------
(***************************************************************************)
(* src/src/lua/scripts/scanner: the scan of one address.  HttpAutoDetect    *)
(* looks at the home page, GenericCgminerApi asks the mining program, and   *)
(* the script of the detected type reads the rest; each hands the context   *)
(* on to the next with setExecutor, and what one leaves in the context and  *)
(* the miner the next one finds.                                            *)
(*                                                                          *)
(* An action is what the driver does between two responses: makeResult with *)
(* a parse step, and makeRequest with the make step it names.  A position   *)
(* is the parse step that waits for its response.  A step that throws ends  *)
(* the scan (HelperBase), and a refused session is resent (ExecutorBase).   *)
(* Of a reply the steps tell apart what the next position depends on; what  *)
(* is read out of it is data, but for the type and whether there was a      *)
(* hashrate.                                                                *)
(***************************************************************************)
EXTENDS Integers

CONSTANT limit  \* network.autoRetryTimes

VARIABLES
  script,   \* the class of the executor
  at,       \* the parse step that waits, or end
  address,  \* scheme and port of the request
  miner,    \* httpDetect, typeStr, minerTypeFound, and whether it has a hashrate
  programs, \* MiningProgram: how many names there are,
  working,  \* and how many of them are still to be tried
  times,    \* autoRetry.times
  evidence  \* history: the types the device showed itself to be

vars == <<script, at, address, miner, programs, working, times, evidence>>

Web == {"AntminerHttpCgi", "AvalonDeviceCgi", "AvalonHttpLuci", "WhatsMinerHttpsLuci",
        "BosHttpLuci", "AnthillOS"}
Types == Web \cup {"unknown"}

\* Where a reply of each script may lead, besides the other scripts.
GenericSteps == [
  parseStats |-> {"parsePools", "end"}, parsePools |-> {"parseMinerType", "end"},
  parseMinerType |-> {"parseSummary", "end"}, parseSummary |-> {"parseTemperature", "end"},
  parseTemperature |-> {"end"}]

AntminerSteps == [
  auth |-> {"parseMinerConf", "end"}, parseMinerConf |-> {"parseMinerFullType", "end"},
  parseMinerFullType |-> {"parseOverclockOption", "end"},
  parseOverclockOption |-> {"parseMinerStat", "parseOverclockStat", "end"},
  parseMinerStat |-> {"parseOverclockStat", "end"}, parseOverclockStat |-> {"end"}]

AnthillSteps == [
  parseMinerInfo |-> {"parseSummary", "end"}, parseSummary |-> {"parseSession", "end"},
  parseSession |-> {"parseMinerSettings", "end"},
  parseMinerSettings |-> {"parseCloseSession", "end"}, parseCloseSession |-> {"end"}]

AvalonDeviceSteps == [
  doLogin |-> {"doGetMinerInfo", "end"},
  doGetMinerInfo |-> {"doUpdateCgLog", "doUpdateCgConf", "end"},
  doUpdateCgLog |-> {"doUpdateCgConf", "end"}, doUpdateCgConf |-> {"doUpdateNetwork", "end"},
  doUpdateNetwork |-> {"doCgConf", "end"}, doCgConf |-> {"end"}]

AvalonSteps == [
  doLogin |-> {"readStat", "end"}, readStat |-> {"readPools", "end"},
  readPools |-> {"readNetwork", "end"}, readNetwork |-> {"readModel", "end"},
  readModel |-> {"end"}]

BosSteps == [
  parseCheckBos |-> {"parseSession", "end"},
  parseSession |-> {"parseNoPswdSession", "parseMinerMetaCfg"},
  parseNoPswdSession |-> {"parseMinerMetaCfg", "end"},
  parseMinerMetaCfg |-> {"parseMinerCfg", "end"}, parseMinerCfg |-> {"parseBosInfo", "end"},
  parseBosInfo |-> {"parseMinerNetwork", "end"},
  parseMinerNetwork |-> {"parseMinerOverview", "end"},
  parseMinerOverview |-> {"parseMinerStat", "end"}, parseMinerStat |-> {"end"}]

WhatsMinerSteps == [
  parseSession |-> {"parseNoPswdSession", "parseMinerStat", "end"},
  parseNoPswdSession |-> {"parseMinerStat", "end"}, parseMinerStat |-> {"parseMinerNetwork"},
  parseMinerNetwork |-> {"parseMinerPool"}, parseMinerPool |-> {"parseMinerPool", "parsePowerMode"},
  parsePowerMode |-> {"parsePowerMode", "end"}]

Follow == [
  HttpAutoDetect |-> [detect |-> {"end"}], GenericCgminerApi |-> GenericSteps,
  AntminerHttpCgi |-> AntminerSteps, AnthillOS |-> AnthillSteps,
  AvalonDeviceCgi |-> AvalonDeviceSteps, AvalonHttpLuci |-> AvalonSteps,
  BosHttpLuci |-> BosSteps, WhatsMinerHttpsLuci |-> WhatsMinerSteps]

Scripts == DOMAIN Follow

\* The step each script begins with.
Begin == [
  HttpAutoDetect |-> "detect", GenericCgminerApi |-> "parseStats", AntminerHttpCgi |-> "auth",
  AnthillOS |-> "parseMinerInfo", AvalonDeviceCgi |-> "doLogin", AvalonHttpLuci |-> "doLogin",
  BosHttpLuci |-> "parseCheckBos", WhatsMinerHttpsLuci |-> "parseSession"]

TypeOK ==
  /\ script \in Scripts /\ at \in DOMAIN Follow[script] \cup {"end"}
  /\ address \in {"tcp", "tls"} \X {80, 443, 4028, 6060}
  /\ miner \in [httpDetect : Types, typeStr : Types, typeFound : BOOLEAN, hashrate : BOOLEAN]
  /\ programs \in 2 .. 3 /\ working \in 0 .. programs
  /\ times \in 0 .. limit /\ evidence \subseteq Web

\* newExecutor, and the begin of HttpAutoDetect.
Init ==
  /\ script = "HttpAutoDetect" /\ at = "detect" /\ address = <<"tcp", 80>>
  /\ miner = [httpDetect |-> "unknown", typeStr |-> "unknown",
              typeFound |-> FALSE, hashrate |-> FALSE]
  /\ programs = 2 /\ working = 2 /\ times = 0 /\ evidence = {}

-----------------------------------------------------------------------------
\* Mutant: the host and port of the executor before.
FirstAddressKept(s) == address

\* The port of the first request of a script.  The requests of WhatsMinerHttpsLuci
\* are made by makeBasicHttpReq as well, which sets host and port again.
FirstAddress(s) == <<"tcp", IF s = "GenericCgminerApi" THEN 4028 ELSE 80>>

\* The types a script gives the miner when it is made: the Antminer script only one
\* of unknown type, and the WhatsMiner script none.
TypeWhenMade(s, m) ==
  IF s \in {"GenericCgminerApi", "WhatsMinerHttpsLuci"} \/ (s = "AntminerHttpCgi" /\ m.typeFound)
  THEN m.typeStr ELSE s

\* Those that need a password for their first request end without one.
Logins == {"AvalonDeviceCgi", "AvalonHttpLuci", "WhatsMinerHttpsLuci"}

\* setExecutor with a new executor of class s, and its first make step.
setExecutor(s, m) ==
  /\ script' = s
  /\ miner' = [m EXCEPT !.typeStr = TypeWhenMade(s, m)]
  /\ \/ at' = Begin[s] /\ address' = FirstAddress(s)
     \/ /\ s \in Logins /\ at' = "end"
        /\ address' = IF s = "WhatsMinerHttpsLuci" THEN <<"tls", 443>> ELSE address
  /\ UNCHANGED <<programs, working>>

\* The script of the detected type, or the end if there is none.
FindMore(m) ==
  IF m.httpDetect \in Web THEN setExecutor(m.httpDetect, m)
  ELSE at' = "end" /\ miner' = m /\ UNCHANGED <<script, address, programs, working>>

\* A parse step that stays in its script; overclock statistics have their own port.
Go(k) ==
  /\ at' = k
  /\ address' = IF k = "parseOverclockStat" THEN <<"tcp", 6060>> ELSE address
  /\ UNCHANGED script

\* The helper lets the parse step k of s have the response.
Response(s, k) == script = s /\ at = k /\ times' = 0

\* HttpAutoDetect:detect.  What the page shows is evidence of a type, but for the
\* redirection taken for a WhatsMiner.
detect ==
  /\ Response("HttpAutoDetect", "detect")
  /\ \/ \E t \in Types :
          /\ evidence' = evidence \cup ({t} \ {"unknown", "WhatsMinerHttpsLuci"})
          /\ setExecutor(IF t \in {"BosHttpLuci", "AnthillOS"} THEN t ELSE "GenericCgminerApi",
                         [miner EXCEPT !.httpDetect = t])
     \/ Go("end") /\ UNCHANGED <<miner, programs, working, evidence>>

\* The types regularTypeStr knows.
Reported == {"AntminerHttpCgi", "WhatsMinerHttpsLuci"}

\* GenericCgminerApi:parseStats
parseStats ==
  /\ Response("GenericCgminerApi", "parseStats")
  /\ \/ FindMore(miner) /\ UNCHANGED evidence
     \/ \E t \in Reported \cup {"unknown"}, found, rate \in BOOLEAN :
          /\ t # "unknown" => found
          /\ Go("parsePools")
          /\ miner' = [miner EXCEPT !.typeStr = t, !.typeFound = found, !.hashrate = rate]
          /\ evidence' = evidence \cup ({t} \ {"unknown"})
          /\ UNCHANGED <<programs, working>>
     \/ Go("end") /\ UNCHANGED <<miner, programs, working, evidence>>

\* GenericCgminerApi:parsePools
parsePools ==
  /\ Response("GenericCgminerApi", "parsePools")
  /\ \/ ~miner.hashrate /\ Go("parseMinerType") /\ UNCHANGED <<miner, programs, working>>
     \/ miner.hashrate /\ FindMore(miner)
     \/ Go("end") /\ UNCHANGED <<miner, programs, working>>
  /\ UNCHANGED evidence

\* GenericCgminerApi:parseMinerType: a model or a name makes the type found, the name
\* of an Avalon its typeStr, too.
parseMinerType ==
  /\ Response("GenericCgminerApi", "parseMinerType")
  /\ \E k \in Follow.GenericCgminerApi.parseMinerType : Go(k)
  /\ \/ UNCHANGED <<miner, evidence>>
     \/ miner' = [miner EXCEPT !.typeFound = TRUE] /\ UNCHANGED evidence
     \/ /\ ~miner.typeFound /\ miner.httpDetect # "AvalonHttpLuci"
        /\ miner' = [miner EXCEPT !.typeFound = TRUE, !.typeStr = "AvalonDeviceCgi"]
        /\ evidence' = evidence \cup {"AvalonDeviceCgi"}
  /\ UNCHANGED <<programs, working>>

\* GenericCgminerApi:parseSummary and parseTemperature
parseSummary ==
  /\ Response("GenericCgminerApi", "parseSummary")
  /\ \E k \in Follow.GenericCgminerApi.parseSummary : Go(k)
  /\ \E rate \in {miner.hashrate, TRUE} : miner' = [miner EXCEPT !.hashrate = rate]
  /\ UNCHANGED <<programs, working, evidence>>

parseTemperature ==
  /\ Response("GenericCgminerApi", "parseTemperature")
  /\ FindMore(miner) \/ (Go("end") /\ UNCHANGED <<miner, programs, working>>)
  /\ UNCHANGED evidence

-----------------------------------------------------------------------------
\* AntminerHttpCgi:parseMinerConf: a readable configuration makes it an Antminer.
parseMinerConf ==
  /\ Response("AntminerHttpCgi", "parseMinerConf")
  /\ \E k \in Follow.AntminerHttpCgi.parseMinerConf : Go(k)
  /\ \E t \in {miner.typeStr, "AntminerHttpCgi"} : miner' = [miner EXCEPT !.typeStr = t]
  /\ UNCHANGED <<programs, working, evidence>>

\* WhatsMinerHttpsLuci:parseSession
parseWhatsMinerSession ==
  /\ Response("WhatsMinerHttpsLuci", "parseSession")
  /\ \/ /\ \/ Go("parseMinerStat")
           \/ ~miner.typeFound /\ Go("parseNoPswdSession")
        /\ miner' = [miner EXCEPT !.typeStr = "WhatsMinerHttpsLuci"]
        /\ evidence' = evidence \cup {"WhatsMinerHttpsLuci"}
     \/ /\ miner.typeFound /\ Go("parseNoPswdSession")
        /\ miner' = [miner EXCEPT !.typeStr = "WhatsMinerHttpsLuci"]
        /\ UNCHANGED evidence
     \/ /\ ~miner.typeFound /\ Go("end")
        /\ miner' = [miner EXCEPT !.httpDetect = "unknown", !.typeStr = "unknown"]
        /\ UNCHANGED evidence
  /\ UNCHANGED <<programs, working>>

\* MiningProgram:reset and the getNext of the make step that follows.
resetAndGetNext == working' = programs - 1

\* MiningProgram:hasNext
hasNext == working > 0

\* Mutant: a program stays in the list when it is tried.
getNextPeeks == working' = working

\* MiningProgram:getNext takes the last of the names.
getNext == working' = working - 1

\* WhatsMinerHttpsLuci:parseMinerStat: the program the page names becomes the best.
parseWhatsMinerStat ==
  /\ Response("WhatsMinerHttpsLuci", "parseMinerStat")
  /\ Go("parseMinerNetwork")
  /\ programs' \in 2 .. 3
  /\ UNCHANGED <<miner, working, evidence>>

\* The pages whose path has the name of the program in it: after a 404 the next name
\* is tried while there is one, and each page begins with all of them.
ProgramPages ==
  /\ script = "WhatsMinerHttpsLuci" /\ times' = 0
  /\ \/ at = "parseMinerNetwork" /\ Go("parseMinerPool") /\ resetAndGetNext
     \/ at \in {"parseMinerPool", "parsePowerMode"} /\ hasNext /\ Go(at) /\ getNext
     \/ at = "parseMinerPool" /\ Go("parsePowerMode") /\ resetAndGetNext
     \/ at = "parsePowerMode" /\ Go("end") /\ UNCHANGED working
  /\ UNCHANGED <<miner, programs, evidence>>

\* The positions above, which do more than go on.
Special ==
  {<<"HttpAutoDetect", "detect">>, <<"AntminerHttpCgi", "parseMinerConf">>}
    \cup {"GenericCgminerApi"} \X DOMAIN Follow.GenericCgminerApi
    \cup {"WhatsMinerHttpsLuci"}
           \X {"parseSession", "parseMinerStat", "parseMinerNetwork", "parseMinerPool", "parsePowerMode"}

\* Every other parse step goes on or ends.  The Antminer script skips the statistics
\* page when the mining program gave a hashrate.
GoOn ==
  /\ at # "end" /\ <<script, at>> \notin Special
  /\ \E k \in Follow[script][at] :
       /\ (at = "parseOverclockOption" /\ k = "parseOverclockStat") => miner.hashrate
       /\ Go(k)
  /\ times' = 0
  /\ UNCHANGED <<miner, programs, working, evidence>>

\* The same request again.
Retry ==
  /\ at # "end" /\ times < limit
  /\ times' = times + 1
  /\ UNCHANGED <<script, at, address, miner, programs, working, evidence>>

makeResult ==
  \/ detect \/ parseStats \/ parsePools \/ parseMinerType \/ parseSummary \/ parseTemperature
  \/ parseMinerConf \/ parseWhatsMinerSession \/ parseWhatsMinerStat \/ ProgramPages \/ GoOn

Finished == at = "end" /\ UNCHANGED vars

Next == makeResult \/ Retry \/ Finished

Spec == Init /\ [][Next]_vars

\* Every session answers: a timed one does but for a TLS shutdown that does not
\* return (Session!TimedSessionAnswers), and no request goes out over TLS.
FairSpec == Spec /\ WF_vars(makeResult \/ Retry)

-----------------------------------------------------------------------------
\* A request goes to the port of the script that made it, although most steps set
\* none and rely on what an earlier one, or another script, left in the context.
AddressIsScripts ==
  at # "end" =>
    address[2] = CASE script = "GenericCgminerApi" -> 4028
                   [] at = "parseOverclockStat" -> 6060
                   [] OTHER -> 80

\* The miner has no type that neither its page nor its mining program showed.  The
\* WhatsMiner script is not held to that when the mining program named some type.
TypeIsConfirmed ==
  \/ miner.typeStr \in evidence \cup {"unknown"}
  \/ miner.typeStr = "WhatsMinerHttpsLuci" /\ miner.typeFound

\* What a script relies on holds whichever scripts ran before it: the request goes to
\* its own port, and the type in the miner is one the device showed.
ScanInv == TypeOK /\ AddressIsScripts /\ TypeIsConfirmed

\* Whatever the device answers, the scan comes to an end: the scripts hand on in one
\* direction only, and the names of the program run out.
ScanEnds == <>(at = "end")

\* scanner/HttpAutoDetect.lua, line 78: "Currently only WhatsMiner uses https."
WhatsMinerUsesHttps == script = "WhatsMinerHttpsLuci" => address[1] = "tls"
=============================================================================
