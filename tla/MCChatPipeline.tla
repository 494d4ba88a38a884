--------------------------- MODULE MCChatPipeline ---------------------------
(* Small instances of ChatPipeline for TLC.                                *)
EXTENDS ChatPipeline

CONSTANTS r1, r2, auto1, auto2

\* r1 and r2 name their model; auto1 and auto2 leave the choice to Auto Mode,
\* which picks the model that r1 and r2 name.
MCAttribution ==
    [r \in Requests |->
        [user |-> "ann", team |-> None, project |-> None,
         asked |-> IF r \in {auto1, auto2} THEN "auto" ELSE "mini",
         model |-> "mini", economy |-> FALSE, cost |-> 1]]

Config(limit, modelLimit) ==
    [limit |-> limit, threshold |-> 1, period |-> "day",
     modelLimit |-> [m \in Models |-> IF m = "mini" THEN modelLimit ELSE Unlimited]]

Org == [level |-> "organization", ref |-> "org"]
Ann == [level |-> "user", ref |-> "ann"]

\* A cap that two requests reach, one message a day to the model.
MCBudget == [s \in {Org, Ann} |-> IF s = Ann THEN Config(2, 1) ELSE None]

MCReconfigs == [s \in {Org, Ann} |-> IF s = Ann THEN {Config(1, 1)} ELSE {}]

\* A cap that is never reached: only the daily limit restricts.
MCWideBudget == [s \in {Org, Ann} |-> IF s = Ann THEN Config(9, 1) ELSE None]

MCNoReconfigs == [s \in {Org, Ann} |-> {}]
=============================================================================
