----------------------------- MODULE MCBackground -----------------------------
(***************************************************************************)
(* Instances of MailTasks, Subscriptions, Avatars and ImagePipeline for    *)
(* TLC: four parts that never meet, one of which moves in a behaviour.     *)
(***************************************************************************)
EXTENDS MailTasks, Subscriptions, Avatars, ImagePipeline

VARIABLE part

vars == <<part, mailVars, subscriptionVars, avatarVars, imageVars>>

\* A part that does not move starts in one state.
Init ==
    /\ part \in {"mail", "billing", "avatar", "image"}
    /\ MailInit /\ SubscriptionInit /\ AvatarInit /\ ImageInit
    /\ part # "mail" => templates = "present" /\ code = "app"
    /\ part # "image" =>
         /\ image.w = 1 /\ image.h = 1 /\ image.turn = "none" /\ image.defect = "none"
         /\ config = [preset |-> "avatar", width |-> 0, height |-> 0, logo |-> "none"]

Next ==
    /\ UNCHANGED part
    /\ \/ part = "mail" /\ MailNext /\ UNCHANGED <<subscriptionVars, avatarVars, imageVars>>
       \/ part = "billing" /\ SubscriptionNext /\ UNCHANGED <<mailVars, avatarVars, imageVars>>
       \/ part = "avatar" /\ AvatarNext /\ UNCHANGED <<mailVars, subscriptionVars, imageVars>>
       \/ part = "image" /\ ProcessUpload /\ UNCHANGED <<mailVars, subscriptionVars, avatarVars>>

Spec == Init /\ [][Next]_vars /\ MailFairness

\* The file of an avatar is lost only by a second upload, and the pipeline refuses only
\* slivers, keeps sizes and proportions, and puts the logo inside the picture.
PicturesSound == LostByReplacement /\ ResultFits /\ RefusalExplained /\ LogoInside
=============================================================================
