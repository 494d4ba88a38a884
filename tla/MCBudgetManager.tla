-------------------------- MODULE MCBudgetManager --------------------------
(* Small instances of BudgetManager for TLC.                               *)
EXTENDS BudgetManager, TLC

CONSTANTS r1, r2, r3, m1

Premium(user) == [user |-> user, team |-> "t", project |-> None,
                  asked |-> "opus", model |-> "opus", economy |-> FALSE, cost |-> 1]

\* One user's requests: r1 costs, m1 is a message to the second model, and r2
\* and r3 are both.
MCAttribution ==
    [r \in Requests |->
        CASE r = r1 -> Premium("ann")
          [] r = m1 -> [Premium("ann") EXCEPT !.asked = "mini", !.model = "mini",
                                              !.team = None, !.cost = 0]
          [] OTHER  -> [Premium("ann") EXCEPT !.asked = "mini", !.model = "mini"]]

\* Requests of one user, charged to a project as well.
MCProjectAttribution ==
    [r \in Requests |-> [Premium("ann") EXCEPT !.project = "p", !.team = None]]

MCSymmetry == Permutations({r2, r3})

Config(limit, threshold, period, modelLimit) ==
    [limit |-> limit, threshold |-> threshold, period |-> period,
     modelLimit |-> [m \in Models |-> IF m = "mini" THEN modelLimit ELSE Unlimited]]

Org == [level |-> "organization", ref |-> "org"]
Team == [level |-> "team", ref |-> "t"]
Project == [level |-> "project", ref |-> "p"]
Ann == [level |-> "user", ref |-> "ann"]

NoBudgets == [s \in {Org, Team, Project, Ann} |-> None]

\* The user's cap and the team's are reached by one request; one message a day
\* to the second model.
MCCaps == [NoBudgets EXCEPT ![Ann] = Config(1, 1, "month", 1),
                            ![Team] = Config(1, 1, "day", Unlimited)]

\* The user's cap is lowered while requests run; the second configuration is
\* invalid and never stored.
MCCapsReconfigs ==
    [s \in DOMAIN InitialBudget |->
        IF s = Ann THEN {Config(0, 0, "month", 1), Config(1, 2, "month", 1)} ELSE {}]

\* Two thresholds and two caps that three requests cross one by one.
MCAlertBudget ==
    [NoBudgets EXCEPT ![Project] = Config(3, 2, "day", Unlimited),
                      ![Ann] = Config(2, 1, "month", Unlimited)]

\* The organization is given a budget while requests run.
MCAlertReconfigs ==
    [s \in DOMAIN InitialBudget |-> IF s = Org THEN {Config(2, 1, "day", Unlimited)} ELSE {}]
MCNoReconfigs == [s \in DOMAIN InitialBudget |-> {}]
=============================================================================
