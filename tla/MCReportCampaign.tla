---------------------------- MODULE MCReportCampaign ----------------------------
EXTENDS ReportCampaign
MCFamilies == <<"arithmetic", "log">>
MCSubsets == {"log", "upstream_log_mapped"}
MCDurable == {"log", "upstream_log_mapped"}
=============================================================================
