----------------------------- MODULE MCProcessCmd -----------------------------
EXTENDS ProcessCmd

MCOutputs == <<"output">>
MCDlq == "dlq"
MCFields == <<"bucket", "aws_access_key_id">>
===============================================================================
