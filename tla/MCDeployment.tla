----------------------------- MODULE MCDeployment -----------------------------
EXTENDS Deployment, TLC

CONSTANTS a, b, r, w1, x1

Run(scenario, boot, stay, mortal) ==
    [scenario |-> scenario, worker |-> w1, boot |-> boot, source |-> x1, sboot |-> boot,
     stay |-> stay, bytes |-> 1, mortal |-> mortal]

MCOptions ==
       a :> Run("drive", 1, TRUE, TRUE)
    @@ b :> Run("reincarnate", 3, TRUE, FALSE)
    @@ r :> Run("replay", 1, FALSE, FALSE)
=============================================================================
