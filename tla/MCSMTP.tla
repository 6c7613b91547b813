------------------------------- MODULE MCSMTP --------------------------------
(* SMTP.tla with mails whose lines end in LF, in CR LF, and in two LFs.    *)
EXTENDS SMTP
MCMails == {[subject |-> <<"s">>, message |-> <<"a", "LF">>],
            [subject |-> <<"s">>, message |-> <<"b", "CR", "LF", "LF">>],
            [subject |-> <<"t">>, message |-> <<"c", "CR", "c">>]}
=============================================================================
