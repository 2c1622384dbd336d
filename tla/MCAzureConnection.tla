------------------------- MODULE MCAzureConnection -------------------------
(* AzureConnection on a small instance: the retry counter is only compared
   with MaxRetry and reset, so two retries show what twenty do. *)
EXTENDS AzureConnection

MCMaxRetry == 2
HubAnswers == {FALSE}          \* azure_iot_hub_connect raises CONNECTING
HubMayReject == {FALSE, TRUE}  \* it may also refuse before that, for good
=============================================================================
