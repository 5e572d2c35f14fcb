---------------------------- MODULE MCImportDialog ----------------------------
EXTENDS ImportDialog

TwoFiles == {"workbook", "csv"}
TheirSheets == [workbook |-> {"sheet1", "sheet2"}, csv |-> {"only"}]
TheirFirst == [workbook |-> "sheet1", csv |-> "only"]
TheirHeaders == [sheet1 |-> "Job", sheet2 |-> "City", only |-> "Job"]
SomeOptions == {{}, {"yes"}}
===============================================================================
