---- MODULE MCDeployment ----
EXTENDS Deployment

\* Two deployments can meet, and a command can follow another.
ASSUME MaxPushes + MaxCommands >= 2
====
