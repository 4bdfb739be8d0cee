------------------------ MODULE MCMessageProcessing ------------------------
(***************************************************************************)
(* MessageProcessing on small instances.                                   *)
(***************************************************************************)
EXTENDS MessageProcessing

\* Nothing, the help, two responses, and what cannot be sent.
AllPlans ==
  {<< >>, ShowHelp, <<"image", "text">>, <<"mislabelled", "text">>, <<"huge">>}

HelpOnly == {ShowHelp}

=============================================================================
